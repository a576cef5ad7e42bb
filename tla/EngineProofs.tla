---------------------------- MODULE EngineProofs ----------------------------
(***************************************************************************)
(* Theorems about Engine, for every set of jobs and workers, every queue   *)
(* size and every retry limit, in this order: the types; each job is in    *)
(* one place at a time; what activeJobs knows; the counters and the life   *)
(* of a job that JobLifecycle promises; the history; the metrics.          *)
(***************************************************************************)
EXTENDS Engine, FiniteSetTheorems, SequenceTheorems, TLAPS

(* The names of the step's parts, each proved about on its own below.      *)
LEMMA InitTypeOK == Init => TypeOK
  <1> SUFFICES ASSUME Init PROVE TypeOK
    OBVIOUS
  <1> USE EngineAssumption DEF Init
  <1>1. queue \in Seq(Jobs) /\ Len(queue) <= QueueSize
    OBVIOUS
  <1>2. results \in Seq(Result) /\ Len(results) <= QueueSize
    OBVIOUS
  <1>3. /\ worker \in [Workers -> WorkerState]
        /\ \A w \in Workers :
             worker[w].job = NoJob <=> worker[w].st \in {"idle", "exited"}
    BY DEF WorkerState, JobOrNone, Idle
  <1>4. /\ proc \in ProcState
        /\ proc.job = NoJob <=> proc.st \in {"waiting", "ended"}
    BY DEF ProcState, JobOrNone, Waiting
  <1>5. metrics \in [total : Nat, success : Nat, failed : Nat]
    OBVIOUS
  <1>6. /\ phase \in [Jobs -> Phases]
        /\ retryCount \in [Jobs -> 0 .. RetryAttempts]
        /\ attempts \in [Jobs -> Nat]
        /\ outcome \in [Jobs -> Outcomes]
        /\ stage \in Stages
    BY DEF Phases, Outcomes, Stages
  <1> QED
    BY <1>1, <1>2, <1>3, <1>4, <1>5, <1>6 DEF TypeOK

(* Receiving from a channel and sending on it stay within its capacity.    *)
LEMMA ChannelSend ==
    ASSUME NEW S, NEW s \in Seq(S), NEW x \in S, Len(s) < QueueSize
    PROVE  Append(s, x) \in Seq(S) /\ Len(Append(s, x)) <= QueueSize
  BY EngineAssumption

LEMMA ChannelReceive ==
    ASSUME NEW S, NEW s \in Seq(S), s # <<>>, Len(s) <= QueueSize
    PROVE  /\ Head(s) \in S
           /\ Tail(s) \in Seq(S)
           /\ Len(Tail(s)) <= QueueSize
  BY EngineAssumption

(* Counting a job keeps the metrics well typed.                            *)
LEMMA CounterTypes ==
    ASSUME NEW m \in [total : Nat, success : Nat, failed : Nat]
    PROVE  /\ [m EXCEPT !.total = @ + 1] \in
                 [total : Nat, success : Nat, failed : Nat]
           /\ [m EXCEPT !.success = @ + 1] \in
                 [total : Nat, success : Nat, failed : Nat]
           /\ [m EXCEPT !.failed = @ + 1] \in
                 [total : Nat, success : Nat, failed : Nat]
  OBVIOUS

(* The variables a handler does not touch, grouped as TypeOK lists them.   *)
LEMMA HandlerTypeOK ==
    ASSUME TypeOK, NEW j \in Jobs, HandlerStarts(j) \/ HandlerStep(j)
    PROVE  TypeOK'
  <1> USE EngineAssumption DEF TypeOK, SetPhase, records, ghosts
  <1>1. CASE RateLimited(j) \/ Register(j)
    BY <1>1 DEF RateLimited, Register, Phases
  <1>2. CASE ScheduleInRedis(j) \/ ScheduleInPostgres(j)
    <2>1. PICK from \in Phases, to \in Phases, store \in {"redis", "postgres"} :
             Store(j, from, to, store)
      BY <1>2 DEF ScheduleInRedis, ScheduleInPostgres, Phases
    <2>2. phase' \in [Jobs -> Phases]
      BY <2>1 DEF Store, Phases
    <2>3. schedStore' \in SUBSET ({"redis", "postgres"} \X Jobs)
      BY <2>1 DEF Store
    <2> QED
      BY <2>1, <2>2, <2>3 DEF Store
  <1>3. CASE Enqueue(j)
    <2>1. queue' \in Seq(Jobs) /\ Len(queue') <= QueueSize
      BY <1>3, ChannelSend DEF Enqueue
    <2> QED
      BY <1>3, <2>1 DEF Enqueue, Phases
  <1>4. CASE CountTotal(j)
    <2>1. metrics' \in [total : Nat, success : Nat, failed : Nat]
      BY <1>4, CounterTypes DEF CountTotal
    <2>2. phase' \in [Jobs -> Phases]
      BY <1>4 DEF CountTotal, Phases
    <2> QED
      BY <1>4, <2>1, <2>2 DEF CountTotal
  <1>5. CASE QueueFull(j) \/ RemoveRefused(j) \/ SendOnClosedQueue(j)
    BY <1>5 DEF QueueFull, RemoveRefused, SendOnClosedQueue, Phases
  <1> QED
    BY <1>1, <1>2, <1>3, <1>4, <1>5 DEF HandlerStarts, HandlerStep

LEMMA WorkerTypeOK ==
    ASSUME TypeOK, NEW w \in Workers, WorkerStep(w)
    PROVE  TypeOK'
  <1> USE EngineAssumption DEF TypeOK, jobVars, records, ghosts
  <1> USE DEF WorkerState, JobOrNone, Idle, Gone
  <1>1. CASE Take(w)
    <2>1. /\ Head(queue) \in Jobs
          /\ queue' \in Seq(Jobs) /\ Len(queue') <= QueueSize
      BY <1>1, ChannelReceive DEF Take
    <2> QED
      BY <1>1, <2>1 DEF Take
  <1>2. CASE Send(w)
    <2>1. worker[w].job \in Jobs
      BY <1>2 DEF Send
    <2>2. PICK ok \in BOOLEAN :
             worker' = [worker EXCEPT ![w] =
                          [st |-> "reporting", job |-> @.job, ok |-> ok]]
      BY <1>2 DEF Send
    <2>3. /\ worker' \in [Workers -> WorkerState]
          /\ \A v \in Workers :
               worker'[v].job = NoJob <=> worker'[v].st \in {"idle", "exited"}
      BY <1>2, <2>1, <2>2 DEF Send
    <2>4. attempts' \in [Jobs -> Nat] /\ delivered' \in SUBSET Jobs
      BY <1>2, <2>1 DEF Send
    <2> QED
      BY <1>2, <2>3, <2>4 DEF Send
  <1>3. CASE Report(w)
    <2>1. [job |-> worker[w].job, ok |-> worker[w].ok] \in Result
      BY <1>3 DEF Report, Result
    <2>2. results' \in Seq(Result) /\ Len(results') <= QueueSize
      BY <1>3, <2>1, ChannelSend DEF Report
    <2> QED
      BY <1>3, <2>2 DEF Report
  <1>4. CASE WorkerExit(w)
    BY <1>4 DEF WorkerExit
  <1> QED
    BY <1>1, <1>2, <1>3, <1>4 DEF WorkerStep

LEMMA ProcTypeOK ==
    ASSUME TypeOK, ProcStep
    PROVE  TypeOK'
  <1> USE EngineAssumption DEF TypeOK, jobVars, records, ghosts
  <1> USE DEF ProcState, JobOrNone, Waiting, Ended
  <1>1. CASE PickResult
    <2>1. /\ Head(results) \in Result
          /\ results' \in Seq(Result) /\ Len(results') <= QueueSize
      BY <1>1, ChannelReceive DEF PickResult
    <2>2. Head(results).job \in Jobs /\ Head(results).ok \in BOOLEAN
      BY <2>1 DEF Result
    <2>3. /\ proc' \in ProcState
          /\ proc'.job = NoJob <=> proc'.st \in {"waiting", "ended"}
          /\ discarded' \in SUBSET Jobs
      <3>1. CASE Head(results).job \in activeJobs
        BY <1>1, <2>2, <3>1 DEF PickResult
      <3>2. CASE Head(results).job \notin activeJobs
        BY <1>1, <2>2, <3>2 DEF PickResult
      <3> QED
        BY <3>1, <3>2
    <2> QED
      BY <1>1, <2>1, <2>3 DEF PickResult
  <1>2. CASE CountSuccess \/ CountFailure
    <2>1. proc.job \in Jobs
      BY <1>2 DEF CountSuccess, CountFailure
    <2>2. metrics' \in [total : Nat, success : Nat, failed : Nat]
      BY <1>2, CounterTypes DEF CountSuccess, CountFailure
    <2>3. outcome' \in [Jobs -> Outcomes]
      BY <1>2, <2>1 DEF CountSuccess, CountFailure, Outcomes
    <2>4. /\ proc' \in ProcState
          /\ proc'.job = NoJob <=> proc'.st \in {"waiting", "ended"}
      BY <1>2, <2>1 DEF CountSuccess, CountFailure
    <2> QED
      BY <1>2, <2>2, <2>3, <2>4 DEF CountSuccess, CountFailure
  <1>3. CASE StartRetry
    <2>1. proc.job \in Jobs
      BY <1>3 DEF StartRetry
    <2>2. retryCount' \in [Jobs -> 0 .. RetryAttempts]
      BY <1>3, <2>1 DEF StartRetry
    <2> QED
      BY <1>3, <2>1, <2>2 DEF StartRetry
  <1>4. CASE RecordHistory
    <2>1. proc.job \in Jobs
      BY <1>4 DEF RecordHistory
    <2>2. history' \in SUBSET (Jobs \X {"completed", "failed"})
      BY <1>4, <2>1 DEF RecordHistory
    <2>3. /\ proc' \in ProcState
          /\ proc'.job = NoJob <=> proc'.st \in {"waiting", "ended"}
      BY <1>4, <2>1 DEF RecordHistory
    <2> QED
      BY <1>4, <2>2, <2>3 DEF RecordHistory
  <1>5. CASE Forget
    BY <1>5 DEF Forget
  <1>6. CASE ProcEnd
    BY <1>6 DEF ProcEnd
  <1> QED
    BY <1>1, <1>2, <1>3, <1>4, <1>5, <1>6 DEF ProcStep

LEMMA TimerTypeOK ==
    ASSUME TypeOK, NEW j \in Jobs, TimerStep(j)
    PROVE  TypeOK'
  <1> USE EngineAssumption DEF TypeOK, jobVars, records, ghosts
  <1>1. CASE RetryEnqueue(j)
    <2>1. queue' \in Seq(Jobs) /\ Len(queue') <= QueueSize
      BY <1>1, ChannelSend DEF RetryEnqueue
    <2> QED
      BY <1>1, <2>1 DEF RetryEnqueue
  <1>2. CASE RetryPanics(j)
    BY <1>2 DEF RetryPanics, Stages
  <1> QED
    BY <1>1, <1>2 DEF TimerStep

LEMMA StopTypeOK ==
    ASSUME TypeOK, Cancel \/ StopStep
    PROVE  TypeOK'
  BY DEF TypeOK, jobVars, records, ghosts, Stages, SetStage, Cancel, StopStep,
         CloseQueue, CloseResults, ExitGracefully, ExitForced

(* TypeOK, the capacity of both channels included, is an invariant.        *)
THEOREM TypeCorrect == Spec => []TypeOK
  <1>1. TypeOK /\ [Next]_vars => TypeOK'
    <2> SUFFICES ASSUME TypeOK, [Next]_vars PROVE TypeOK'
      OBVIOUS
    <2>1. CASE Dead \/ UNCHANGED vars
      BY <2>1 DEF Dead, vars, TypeOK
    <2> QED
      BY <2>1, HandlerTypeOK, TimerTypeOK, WorkerTypeOK, ProcTypeOK, StopTypeOK
         DEF Next
  <1> QED
    BY InitTypeOK, <1>1, PTL DEF Spec

-----------------------------------------------------------------------------
(* The channels are closed only after the last worker has returned, and no *)
(* worker comes back: nobody sends on the closed results channel.          *)
THEOREM ChannelsClosedLast == Spec => []ChannelsOutliveWorkers
  <1> USE DEF ChannelsOutliveWorkers, QueueClosed
  <1>1. Init => ChannelsOutliveWorkers
    BY DEF Init
  <1>2. ChannelsOutliveWorkers /\ [Next]_vars => ChannelsOutliveWorkers'
    <2> SUFFICES ASSUME ChannelsOutliveWorkers, [Next]_vars
                 PROVE  ChannelsOutliveWorkers'
      OBVIOUS
    <2>1. ASSUME NEW j \in Jobs, HandlerStarts(j) \/ HandlerStep(j) \/ TimerStep(j)
          PROVE  ChannelsOutliveWorkers'
      <3>1. worker' = worker
        BY <2>1 DEF HandlerStarts, RateLimited, Register, HandlerStep,
             ScheduleInRedis, ScheduleInPostgres, Store, Enqueue, CountTotal,
             QueueFull, RemoveRefused, SendOnClosedQueue, TimerStep,
             RetryEnqueue, RetryPanics
      <3>2. stage' = stage \/ QueueClosed
        BY <2>1 DEF HandlerStarts, RateLimited, Register, HandlerStep,
             ScheduleInRedis, ScheduleInPostgres, Store, Enqueue, CountTotal,
             QueueFull, RemoveRefused, SendOnClosedQueue, TimerStep,
             RetryEnqueue, RetryPanics
      <3> QED
        BY <3>1, <3>2
    <2>2. ASSUME NEW w \in Workers, WorkerStep(w)
          PROVE  ChannelsOutliveWorkers'
      <3>1. stage' = stage
        BY <2>2 DEF WorkerStep, Take, Send, Report, WorkerExit
      <3>2. worker[w] # Gone
        BY <2>2 DEF WorkerStep, Take, Send, Report, WorkerExit, Idle, Gone
      <3> QED
        BY <3>1, <3>2
    <2>3. CASE ProcStep
      BY <2>3 DEF ProcStep, PickResult, CountSuccess, StartRetry, CountFailure,
           RecordHistory, Forget, ProcEnd
    <2>4. CASE Cancel \/ StopStep
      BY <2>4 DEF Cancel, StopStep, CloseQueue, CloseResults, ExitGracefully,
           ExitForced, SetStage
    <2>5. CASE Dead \/ UNCHANGED vars
      BY <2>5 DEF Dead, vars
    <2> QED
      BY <2>1, <2>2, <2>3, <2>4, <2>5 DEF Next
  <1> QED
    BY <1>1, <1>2, PTL DEF Spec

-----------------------------------------------------------------------------
Launch == {"counting", "accepted"}

Distinct(f) == \A i, k \in DOMAIN f : f[i] = f[k] => i = k
Image(f) == {f[i] : i \in DOMAIN f}
JobsOf(r) == [i \in DOMAIN r |-> r[i].job]

-----------------------------------------------------------------------------
(* A list that grows by a new value at its end ...                         *)
LEMMA Longer ==
    ASSUME NEW f, NEW g, NEW n \in Nat, NEW x,
           DOMAIN f = 1 .. n, DOMAIN g = 1 .. n + 1,
           \A i \in 1 .. n : g[i] = f[i], g[n + 1] = x,
           Distinct(f), x \notin Image(f)
    PROVE  Distinct(g) /\ Image(g) = Image(f) \cup {x}
  <1>1. \A i \in DOMAIN f : f[i] # x
    BY DEF Image
  <1>2. \A i \in DOMAIN g : i \in DOMAIN f \/ i = n + 1
    OBVIOUS
  <1>3. Distinct(g)
    BY <1>1, <1>2 DEF Distinct
  <1>4. ASSUME NEW y \in Image(g) PROVE y \in Image(f) \cup {x}
    BY <1>2 DEF Image
  <1>5. ASSUME NEW y \in Image(f) PROVE y \in Image(g)
    BY DEF Image
  <1>6. x \in Image(g)
    BY DEF Image
  <1> QED
    BY <1>3, <1>4, <1>5, <1>6

(* ... and one that loses its first value.                                 *)
LEMMA Shorter ==
    ASSUME NEW f, NEW g, NEW n \in Nat \ {0},
           DOMAIN f = 1 .. n, DOMAIN g = 1 .. n - 1,
           \A i \in 1 .. n - 1 : g[i] = f[i + 1],
           Distinct(f)
    PROVE  /\ Distinct(g) /\ f[1] \in Image(f)
           /\ Image(g) = Image(f) \ {f[1]}
  <1>1. f[1] \in Image(f)
    BY DEF Image
  <1>2. \A i \in DOMAIN g : i + 1 \in DOMAIN f /\ i + 1 # 1 /\ g[i] = f[i + 1]
    OBVIOUS
  <1>3. Distinct(g)
    <2>1. \A i, k \in DOMAIN g : i + 1 = k + 1 => i = k
      OBVIOUS
    <2> QED
      BY <1>2, <2>1 DEF Distinct
  <1>4. ASSUME NEW y \in Image(g) PROVE y \in Image(f) /\ y # f[1]
    BY <1>2 DEF Image, Distinct
  <1>5. ASSUME NEW y \in Image(f), y # f[1] PROVE y \in Image(g)
    <2>1. PICK i \in 1 .. n : y = f[i]
      BY DEF Image
    <2>2. i - 1 \in 1 .. n - 1 /\ g[i - 1] = y
      BY <2>1, <1>5
    <2> QED
      BY <2>2 DEF Image
  <1> QED
    BY <1>1, <1>3, <1>4, <1>5

(* The same for the two channels.                                          *)
LEMMA QueueSend ==
    ASSUME NEW q \in Seq(Jobs), NEW j \in Jobs, Distinct(q), j \notin Image(q)
    PROVE  /\ Distinct(Append(q, j))
           /\ Image(Append(q, j)) = Image(q) \cup {j}
  <1>1. /\ DOMAIN q = 1 .. Len(q) /\ DOMAIN Append(q, j) = 1 .. Len(q) + 1
        /\ \A i \in 1 .. Len(q) : Append(q, j)[i] = q[i]
        /\ Append(q, j)[Len(q) + 1] = j
        /\ Len(q) \in Nat
    OBVIOUS
  <1> DEFINE g == Append(q, j)
  <1>2. /\ DOMAIN g = 1 .. Len(q) + 1 /\ g[Len(q) + 1] = j
        /\ \A i \in 1 .. Len(q) : g[i] = q[i]
    BY <1>1
  <1> HIDE DEF g
  <1>3. Distinct(g) /\ Image(g) = Image(q) \cup {j}
    BY <1>1, <1>2, Longer
  <1> QED
    BY <1>3 DEF g

LEMMA QueueReceive ==
    ASSUME NEW q \in Seq(Jobs), q # <<>>, Distinct(q)
    PROVE  /\ Distinct(Tail(q)) /\ Head(q) \in Image(q)
           /\ Image(Tail(q)) = Image(q) \ {Head(q)}
  <1>1. /\ DOMAIN q = 1 .. Len(q) /\ DOMAIN Tail(q) = 1 .. Len(q) - 1
        /\ \A i \in 1 .. Len(q) - 1 : Tail(q)[i] = q[i + 1]
        /\ q[1] = Head(q)
        /\ Len(q) \in Nat \ {0}
    OBVIOUS
  <1> QED
    BY <1>1, Shorter

LEMMA ResultsSend ==
    ASSUME NEW r \in Seq(Result), NEW x \in Result,
           Distinct(JobsOf(r)), x.job \notin Image(JobsOf(r))
    PROVE  /\ Distinct(JobsOf(Append(r, x)))
           /\ Image(JobsOf(Append(r, x))) = Image(JobsOf(r)) \cup {x.job}
  <1>1. /\ DOMAIN r = 1 .. Len(r) /\ DOMAIN Append(r, x) = 1 .. Len(r) + 1
        /\ \A i \in 1 .. Len(r) : Append(r, x)[i] = r[i]
        /\ Append(r, x)[Len(r) + 1] = x
        /\ Len(r) \in Nat
    OBVIOUS
  <1> DEFINE f == JobsOf(r)
             g == JobsOf(Append(r, x))
  <1>2. /\ DOMAIN f = 1 .. Len(r) /\ DOMAIN g = 1 .. Len(r) + 1
        /\ \A i \in 1 .. Len(r) : g[i] = f[i]
        /\ g[Len(r) + 1] = x.job
    BY <1>1 DEF JobsOf
  <1> HIDE DEF f, g
  <1>3. Distinct(g) /\ Image(g) = Image(f) \cup {x.job}
    BY <1>1, <1>2, Longer DEF f
  <1> QED
    BY <1>3 DEF f, g

LEMMA ResultsReceive ==
    ASSUME NEW r \in Seq(Result), r # <<>>, Distinct(JobsOf(r))
    PROVE  /\ Distinct(JobsOf(Tail(r))) /\ Head(r).job \in Image(JobsOf(r))
           /\ Image(JobsOf(Tail(r))) = Image(JobsOf(r)) \ {Head(r).job}
  <1>1. /\ DOMAIN r = 1 .. Len(r) /\ DOMAIN Tail(r) = 1 .. Len(r) - 1
        /\ \A i \in 1 .. Len(r) - 1 : Tail(r)[i] = r[i + 1]
        /\ r[1] = Head(r)
        /\ Len(r) \in Nat \ {0}
    OBVIOUS
  <1> DEFINE f == JobsOf(r)
             g == JobsOf(Tail(r))
  <1>2. /\ DOMAIN f = 1 .. Len(r) /\ DOMAIN g = 1 .. Len(r) - 1
        /\ \A i \in 1 .. Len(r) - 1 : g[i] = f[i + 1]
        /\ f[1] = Head(r).job
    BY <1>1 DEF JobsOf
  <1> HIDE DEF f, g
  <1>3. Distinct(g) /\ f[1] \in Image(f) /\ Image(g) = Image(f) \ {f[1]}
    BY <1>1, <1>2, Shorter DEF f
  <1> QED
    BY <1>2, <1>3 DEF f, g

-----------------------------------------------------------------------------
(* Custody: SingleCustody, and only jobs whose Dispatch has queued them    *)
(* are in flight, so that queueing a job never makes a second one of it.   *)
HoldersApart ==
    \A w, v \in Workers :
      worker[w].job = worker[v].job => w = v \/ worker[w].job = NoJob

PlacesApart ==
    /\ QueuedJobs \cap (HeldJobs \cup ReportedJobs \cup HandledJobs \cup timers)
         = {}
    /\ HeldJobs \cap (ReportedJobs \cup HandledJobs \cup timers) = {}
    /\ ReportedJobs \cap (HandledJobs \cup timers) = {}
    /\ HandledJobs \cap timers = {}

Launched ==
    /\ \A j \in InFlight : phase[j] \in Launch
    /\ proc.job # NoJob => phase[proc.job] \in Launch

Custody ==
    /\ Distinct(queue)
    /\ Distinct(JobsOf(results))
    /\ HoldersApart
    /\ PlacesApart
    /\ Launched

LEMMA ChannelSets ==
    /\ QueuedJobs = Image(queue)
    /\ ReportedJobs = Image(JobsOf(results))
  BY DEF QueuedJobs, ReportedJobs, Image, JobsOf

LEMMA CustodyImplies == Custody => SingleCustody
  BY DEF Custody, SingleCustody, Distinct, HoldersApart, PlacesApart, JobsOf

LEMMA InitCustody == Init => Custody
  <1> SUFFICES ASSUME Init PROVE Custody
    OBVIOUS
  <1>1. /\ Distinct(queue) /\ Distinct(JobsOf(results))
        /\ QueuedJobs = {} /\ ReportedJobs = {}
    BY DEF Init, Distinct, JobsOf, QueuedJobs, ReportedJobs
  <1>2. HeldJobs = {} /\ HandledJobs = {} /\ timers = {}
    BY DEF Init, Idle, Waiting, HeldJobs, HandledJobs
  <1>3. HoldersApart
    BY DEF Init, Idle, HoldersApart
  <1> QED
    BY <1>1, <1>2, <1>3
       DEF Custody, PlacesApart, Launched, InFlight, Init, Waiting

LEMMA InFlightJobs ==
    ASSUME TypeOK
    PROVE  InFlight \subseteq Jobs /\ (proc.job # NoJob => proc.job \in Jobs)
  <1>1. QueuedJobs \subseteq Jobs
    BY DEF TypeOK, QueuedJobs
  <1>2. HeldJobs \subseteq Jobs
    BY DEF TypeOK, HeldJobs, WorkerState, JobOrNone
  <1>3. ReportedJobs \subseteq Jobs
    <2>1. \A i \in DOMAIN results : results[i] \in Result
      BY DEF TypeOK
    <2> QED
      BY <2>1 DEF ReportedJobs, Result
  <1>4. HandledJobs \subseteq Jobs /\ (proc.job # NoJob => proc.job \in Jobs)
    BY DEF TypeOK, HandledJobs, ProcState, JobOrNone
  <1> QED
    BY <1>1, <1>2, <1>3, <1>4 DEF InFlight, TypeOK

-----------------------------------------------------------------------------
(* How the steps that move a job change the places.                        *)
LEMMA TakeMoves ==
    ASSUME TypeOK, Custody, NEW w \in Workers, Take(w)
    PROVE  LET h == Head(queue) IN
           /\ h \in Jobs /\ h \in QueuedJobs
           /\ Distinct(queue') /\ QueuedJobs' = QueuedJobs \ {h}
           /\ HeldJobs' = HeldJobs \cup {h}
           /\ \A v \in Workers :
                worker'[v].job = IF v = w THEN h ELSE worker[v].job
  <1> DEFINE h == Head(queue)
  <1>1. /\ queue \in Seq(Jobs) /\ queue # <<>> /\ Distinct(queue)
        /\ queue' = Tail(queue)
    BY DEF Take, TypeOK, Custody
  <1>2. /\ Distinct(queue') /\ h \in Image(queue)
        /\ Image(queue') = Image(queue) \ {h}
    BY <1>1, QueueReceive
  <1>3. h \in Jobs
    BY <1>1
  <1>4. QueuedJobs' = Image(queue')
    BY DEF QueuedJobs, Image
  <1>5. /\ worker' = [worker EXCEPT ![w] =
                        [st |-> "sending", job |-> h, ok |-> FALSE]]
        /\ worker[w].job = NoJob
    BY DEF Take, Idle
  <1>6. \A v \in Workers : worker'[v].job = IF v = w THEN h ELSE worker[v].job
    BY <1>5 DEF TypeOK, WorkerState
  <1> HIDE DEF h
  <1>7. HeldJobs' = HeldJobs \cup {h}
    BY <1>3, <1>5, <1>6, EngineAssumption DEF HeldJobs
  <1> QED
    BY <1>2, <1>3, <1>4, <1>6, <1>7, ChannelSets DEF h

LEMMA ReportMoves ==
    ASSUME TypeOK, Custody, NEW w \in Workers, Report(w)
    PROVE  LET j == worker[w].job IN
           /\ j \in Jobs /\ j \in HeldJobs
           /\ Distinct(JobsOf(results'))
           /\ ReportedJobs' = ReportedJobs \cup {j}
           /\ HeldJobs' = HeldJobs \ {j}
           /\ \A v \in Workers :
                worker'[v].job = IF v = w THEN NoJob ELSE worker[v].job
  <1> DEFINE j == worker[w].job
             x == [job |-> worker[w].job, ok |-> worker[w].ok]
  <1>1. j \in Jobs /\ j \in HeldJobs
    BY EngineAssumption DEF Report, TypeOK, HeldJobs, WorkerState, JobOrNone
  <1>2. /\ x \in Result /\ x.job = j
        /\ results \in Seq(Result) /\ results' = Append(results, x)
    BY <1>1 DEF Report, Result, TypeOK, WorkerState
  <1>3. worker' = [worker EXCEPT ![w] = Idle] /\ Idle.job = NoJob
    BY DEF Report, Idle
  <1>4. \A v \in Workers :
           worker'[v].job = IF v = w THEN NoJob ELSE worker[v].job
    BY <1>3 DEF TypeOK, WorkerState
  <1>5. \A v \in Workers : v # w => worker[v].job # j
    BY <1>1, EngineAssumption DEF Custody, HoldersApart
  <1> HIDE DEF x
  <1>6. /\ Distinct(JobsOf(results'))
        /\ ReportedJobs' = ReportedJobs \cup {j}
    <2>1. x.job \notin Image(JobsOf(results)) /\ Distinct(JobsOf(results))
      BY <1>1, <1>2, ChannelSets DEF Custody, PlacesApart
    <2>2. /\ Distinct(JobsOf(results'))
          /\ Image(JobsOf(results')) = Image(JobsOf(results)) \cup {x.job}
      BY <1>2, <2>1, ResultsSend
    <2>3. ReportedJobs' = Image(JobsOf(results'))
      BY DEF ReportedJobs, Image, JobsOf
    <2> QED
      BY <1>2, <2>2, <2>3, ChannelSets
  <1> HIDE DEF j
  <1>7. HeldJobs' = HeldJobs \ {j}
    BY <1>1, <1>4, <1>5 DEF HeldJobs, j
  <1> QED
    BY <1>1, <1>4, <1>6, <1>7 DEF j

LEMMA PickMoves ==
    ASSUME TypeOK, Custody, PickResult
    PROVE  LET h == Head(results).job IN
           /\ h \in Jobs /\ h \in ReportedJobs
           /\ Distinct(JobsOf(results')) /\ ReportedJobs' = ReportedJobs \ {h}
           /\ HandledJobs = {} /\ HandledJobs' \subseteq {h}
           /\ proc'.job # NoJob => proc'.job = h
  <1> DEFINE h == Head(results).job
  <1>1. /\ results \in Seq(Result) /\ results # <<>>
        /\ Distinct(JobsOf(results)) /\ results' = Tail(results)
    BY DEF PickResult, TypeOK, Custody
  <1>2. /\ Distinct(JobsOf(results')) /\ h \in Image(JobsOf(results))
        /\ Image(JobsOf(results')) = Image(JobsOf(results)) \ {h}
    BY <1>1, ResultsReceive
  <1>3. Head(results) \in Result
    BY <1>1
  <1>4. h \in Jobs
    BY <1>3 DEF Result
  <1>5. ReportedJobs' = Image(JobsOf(results'))
    BY DEF ReportedJobs, Image, JobsOf
  <1>6. /\ HandledJobs = {} /\ HandledJobs' \subseteq {h}
        /\ proc'.job # NoJob => proc'.job = h
    BY DEF PickResult, HandledJobs, Waiting
  <1> QED
    BY <1>2, <1>4, <1>5, <1>6, ChannelSets

LEMMA EnqueueMoves ==
    ASSUME TypeOK, Custody, NEW j \in Jobs, Enqueue(j)
    PROVE  /\ j \notin InFlight /\ proc.job # j
           /\ Distinct(queue') /\ QueuedJobs' = QueuedJobs \cup {j}
  <1>1. j \notin InFlight /\ proc.job # j
    BY EngineAssumption DEF Enqueue, SetPhase, Custody, Launched, Launch
  <1>2. queue' = Append(queue, j) /\ queue \in Seq(Jobs)
    BY DEF Enqueue, TypeOK
  <1>3. Distinct(queue') /\ Image(queue') = Image(queue) \cup {j}
    BY <1>1, <1>2, QueueSend, ChannelSets DEF Custody, InFlight
  <1>4. QueuedJobs' = Image(queue')
    BY DEF QueuedJobs, Image
  <1> QED
    BY <1>1, <1>3, <1>4, ChannelSets

LEMMA TimerMoves ==
    ASSUME TypeOK, Custody, NEW j \in Jobs, TimerStep(j)
    PROVE  /\ j \in timers /\ timers' = timers \ {j}
           /\ Distinct(queue') /\ QueuedJobs' \subseteq QueuedJobs \cup {j}
           /\ QueuedJobs \subseteq QueuedJobs'
  <1>1. j \in timers /\ timers' = timers \ {j}
    BY DEF TimerStep, RetryEnqueue, RetryPanics
  <1>2. CASE RetryEnqueue(j)
    <2>1. queue \in Seq(Jobs) /\ queue' = Append(queue, j)
      BY <1>2 DEF RetryEnqueue, TypeOK
    <2>2. j \notin Image(queue)
      BY <1>1, ChannelSets DEF Custody, PlacesApart
    <2>3. Distinct(queue') /\ Image(queue') = Image(queue) \cup {j}
      BY <2>1, <2>2, QueueSend DEF Custody
    <2>4. QueuedJobs' = Image(queue')
      BY DEF QueuedJobs, Image
    <2> QED
      BY <1>1, <2>3, <2>4, ChannelSets
  <1>3. CASE RetryPanics(j)
    BY <1>1, <1>3 DEF RetryPanics, Custody, QueuedJobs
  <1> QED
    BY <1>2, <1>3 DEF TimerStep

-----------------------------------------------------------------------------
(* Steps that move no job.                                                 *)
LEMMA CustodyStays ==
    ASSUME TypeOK, Custody, UNCHANGED <<queue, worker, results, proc, timers>>,
           \A j \in Jobs : phase[j] \in Launch => phase'[j] \in Launch
    PROVE  Custody'
  <1>1. /\ QueuedJobs' = QueuedJobs /\ HeldJobs' = HeldJobs
        /\ ReportedJobs' = ReportedJobs /\ HandledJobs' = HandledJobs
        /\ timers' = timers /\ InFlight' = InFlight
    BY DEF QueuedJobs, HeldJobs, ReportedJobs, HandledJobs, InFlight
  <1>2. InFlight \subseteq Jobs /\ (proc.job # NoJob => proc.job \in Jobs)
    BY InFlightJobs
  <1>3. PlacesApart' /\ HoldersApart'
    BY <1>1 DEF Custody, PlacesApart, HoldersApart
  <1>4. Launched'
    BY <1>1, <1>2 DEF Custody, Launched
  <1> QED
    BY <1>3, <1>4 DEF Custody

LEMMA HandlerCustody ==
    ASSUME TypeOK, Custody, NEW j \in Jobs, HandlerStarts(j) \/ HandlerStep(j)
    PROVE  Custody'
  <1> USE DEF SetPhase
  <1>1. CASE Enqueue(j)
    <2>1. /\ j \notin InFlight /\ proc.job # j
          /\ Distinct(queue') /\ QueuedJobs' = QueuedJobs \cup {j}
      BY <1>1, EnqueueMoves
    <2>2. /\ HeldJobs' = HeldJobs /\ ReportedJobs' = ReportedJobs
          /\ HandledJobs' = HandledJobs /\ timers' = timers
          /\ proc' = proc /\ results' = results /\ worker' = worker
      BY <1>1 DEF Enqueue, HeldJobs, ReportedJobs, HandledJobs
    <2>3. PlacesApart' /\ HoldersApart'
      BY <2>1, <2>2 DEF Custody, PlacesApart, HoldersApart, InFlight
    <2>4. phase' = [phase EXCEPT ![j] = "counting"] /\ phase \in [Jobs -> Phases]
      BY <1>1 DEF Enqueue, TypeOK
    <2>5. \A k : phase[k] \in Launch \/ k = j => phase'[k] \in Launch
      BY <2>4 DEF Launch
    <2>6. Launched'
      BY <2>1, <2>2, <2>5 DEF Custody, Launched, InFlight
    <2> QED
      BY <2>1, <2>2, <2>3, <2>6 DEF Custody, JobsOf
  <1>2. CASE ~Enqueue(j)
    <2>1. UNCHANGED <<queue, worker, results, proc, timers>>
      BY <1>2 DEF HandlerStarts, HandlerStep, RateLimited, Register,
           ScheduleInRedis, ScheduleInPostgres, Store, CountTotal, QueueFull,
           RemoveRefused, SendOnClosedQueue
    <2>2. \A k \in Jobs : phase[k] \in Launch => phase'[k] \in Launch
      BY <1>2 DEF HandlerStarts, HandlerStep, RateLimited, Register,
           ScheduleInRedis, ScheduleInPostgres, Store, CountTotal, QueueFull,
           RemoveRefused, SendOnClosedQueue, Launch, TypeOK
    <2> QED
      BY <2>1, <2>2, CustodyStays
  <1> QED
    BY <1>1, <1>2


LEMMA WorkerCustody ==
    ASSUME TypeOK, Custody, NEW w \in Workers, WorkerStep(w)
    PROVE  Custody'
  <1> DEFINE j == worker[w].job
  <1>0. /\ worker \in [Workers -> WorkerState] /\ NoJob \notin Jobs
        /\ j # NoJob => j \in Jobs
    BY EngineAssumption DEF TypeOK, WorkerState, JobOrNone
  <1>1. CASE Take(w)
    <2> DEFINE h == Head(queue)
    <2>1. /\ h \in Jobs /\ h \in QueuedJobs
          /\ Distinct(queue') /\ QueuedJobs' = QueuedJobs \ {h}
          /\ HeldJobs' = HeldJobs \cup {h}
          /\ \A v \in Workers :
               worker'[v].job = IF v = w THEN h ELSE worker[v].job
      BY <1>1, TakeMoves
    <2>2. /\ h \notin HeldJobs \cup ReportedJobs \cup HandledJobs \cup timers
          /\ phase[h] \in Launch
      BY <2>1 DEF Custody, PlacesApart, Launched, InFlight
    <2> HIDE DEF h
    <2>3. HoldersApart'
      BY <2>1, <2>2 DEF Custody, HoldersApart, HeldJobs
    <2>4. /\ ReportedJobs' = ReportedJobs /\ HandledJobs' = HandledJobs
          /\ timers' = timers /\ proc' = proc /\ phase' = phase
          /\ results' = results
      BY <1>1 DEF Take, ReportedJobs, HandledJobs, jobVars
    <2>5. PlacesApart'
      BY <2>1, <2>2, <2>4 DEF Custody, PlacesApart
    <2>6. Launched'
      BY <2>1, <2>2, <2>4 DEF Custody, Launched, InFlight
    <2> QED
      BY <2>1, <2>3, <2>4, <2>5, <2>6 DEF Custody, JobsOf
  <1>2. CASE Send(w) \/ WorkerExit(w)
    <2>1. \A v \in Workers : worker'[v].job = worker[v].job
      BY <1>0, <1>2 DEF Send, WorkerExit, Idle, Gone
    <2>2. HeldJobs' = HeldJobs /\ HoldersApart'
      BY <2>1 DEF HeldJobs, HoldersApart, Custody
    <2>3. /\ QueuedJobs' = QueuedJobs /\ ReportedJobs' = ReportedJobs
          /\ HandledJobs' = HandledJobs /\ timers' = timers /\ proc' = proc
          /\ phase' = phase /\ queue' = queue /\ results' = results
      BY <1>2 DEF Send, WorkerExit, QueuedJobs, ReportedJobs, HandledJobs,
           jobVars
    <2> QED
      BY <2>2, <2>3 DEF Custody, PlacesApart, Launched, InFlight, JobsOf
  <1>3. CASE Report(w)
    <2>1. /\ j \in Jobs /\ j \in HeldJobs
          /\ Distinct(JobsOf(results'))
          /\ ReportedJobs' = ReportedJobs \cup {j}
          /\ HeldJobs' = HeldJobs \ {j}
          /\ \A v \in Workers :
               worker'[v].job = IF v = w THEN NoJob ELSE worker[v].job
      BY <1>3, ReportMoves
    <2>2. /\ j \notin QueuedJobs \cup ReportedJobs \cup HandledJobs \cup timers
          /\ phase[j] \in Launch
      BY <2>1 DEF Custody, PlacesApart, Launched, InFlight
    <2> HIDE DEF j
    <2>3. HoldersApart'
      BY <2>1 DEF Custody, HoldersApart
    <2>4. /\ QueuedJobs' = QueuedJobs /\ HandledJobs' = HandledJobs
          /\ timers' = timers /\ proc' = proc /\ phase' = phase
          /\ queue' = queue
      BY <1>3 DEF Report, QueuedJobs, HandledJobs, jobVars
    <2>5. PlacesApart'
      BY <2>1, <2>2, <2>4 DEF Custody, PlacesApart
    <2>6. Launched'
      BY <2>1, <2>2, <2>4 DEF Custody, Launched, InFlight
    <2> QED
      BY <2>1, <2>3, <2>4, <2>5, <2>6 DEF Custody
  <1> QED
    BY <1>1, <1>2, <1>3 DEF WorkerStep

LEMMA ProcCustody ==
    ASSUME TypeOK, Custody, ProcStep
    PROVE  Custody'
  <1>1. CASE PickResult
    <2> DEFINE h == Head(results).job
    <2>1. /\ h \in Jobs /\ h \in ReportedJobs
          /\ Distinct(JobsOf(results')) /\ ReportedJobs' = ReportedJobs \ {h}
          /\ HandledJobs = {} /\ HandledJobs' \subseteq {h}
          /\ proc'.job # NoJob => proc'.job = h
      BY <1>1, PickMoves
    <2>2. /\ h \notin QueuedJobs \cup HeldJobs \cup timers
          /\ phase[h] \in Launch
      BY <2>1 DEF Custody, PlacesApart, Launched, InFlight
    <2>3. /\ QueuedJobs' = QueuedJobs /\ HeldJobs' = HeldJobs
          /\ timers' = timers /\ phase' = phase
          /\ queue' = queue /\ worker' = worker
      BY <1>1 DEF PickResult, QueuedJobs, HeldJobs, jobVars
    <2> HIDE DEF h
    <2>4. PlacesApart' /\ HoldersApart'
      BY <2>1, <2>2, <2>3 DEF Custody, PlacesApart, HoldersApart
    <2>5. Launched'
      BY <2>1, <2>2, <2>3 DEF Custody, Launched, InFlight
    <2> QED
      BY <2>1, <2>3, <2>4, <2>5 DEF Custody
  <1>2. CASE StartRetry
    <2>1. /\ HandledJobs = {proc.job} /\ HandledJobs' = {}
          /\ timers' = timers \cup {proc.job} /\ proc'.job = proc.job
      BY <1>2 DEF StartRetry, HandledJobs, TypeOK, ProcState
    <2>2. /\ QueuedJobs' = QueuedJobs /\ HeldJobs' = HeldJobs
          /\ ReportedJobs' = ReportedJobs /\ phase' = phase
          /\ queue' = queue /\ worker' = worker /\ results' = results
      BY <1>2 DEF StartRetry, QueuedJobs, HeldJobs, ReportedJobs, jobVars
    <2>3. PlacesApart' /\ HoldersApart'
      BY <2>1, <2>2 DEF Custody, PlacesApart, HoldersApart
    <2>4. Launched'
      BY <2>1, <2>2 DEF Custody, Launched, InFlight
    <2> QED
      BY <2>2, <2>3, <2>4 DEF Custody, JobsOf
  <1>3. CASE \/ CountSuccess  \/ CountFailure
             \/ RecordHistory \/ Forget \/ ProcEnd
    <2>1. /\ HandledJobs' = {}
          /\ proc'.job # NoJob => proc'.job = proc.job
      BY <1>3 DEF CountSuccess, CountFailure, RecordHistory, Forget, ProcEnd,
           HandledJobs, TypeOK, ProcState, Waiting, Ended
    <2>2. /\ QueuedJobs' = QueuedJobs /\ HeldJobs' = HeldJobs
          /\ ReportedJobs' = ReportedJobs /\ phase' = phase /\ timers' = timers
          /\ queue' = queue /\ worker' = worker /\ results' = results
      BY <1>3 DEF CountSuccess, CountFailure, RecordHistory, Forget, ProcEnd,
           QueuedJobs, HeldJobs, ReportedJobs, jobVars
    <2>3. PlacesApart' /\ HoldersApart'
      BY <2>1, <2>2 DEF Custody, PlacesApart, HoldersApart
    <2>4. Launched'
      BY <2>1, <2>2 DEF Custody, Launched, InFlight
    <2> QED
      BY <2>2, <2>3, <2>4 DEF Custody, JobsOf
  <1> QED
    BY <1>1, <1>2, <1>3 DEF ProcStep

LEMMA TimerCustody ==
    ASSUME TypeOK, Custody, NEW j \in Jobs, TimerStep(j)
    PROVE  Custody'
  <1>1. /\ j \in timers /\ phase[j] \in Launch
        /\ j \notin QueuedJobs \cup HeldJobs \cup ReportedJobs \cup HandledJobs
    BY DEF TimerStep, RetryEnqueue, RetryPanics, Custody, PlacesApart, Launched,
         InFlight
  <1>2. /\ HeldJobs' = HeldJobs /\ ReportedJobs' = ReportedJobs
        /\ HandledJobs' = HandledJobs /\ timers' = timers \ {j}
        /\ proc' = proc /\ phase' = phase
        /\ worker' = worker /\ results' = results
    BY DEF TimerStep, RetryEnqueue, RetryPanics, HeldJobs, ReportedJobs,
         HandledJobs, jobVars
  <1>3. Distinct(queue') /\ QueuedJobs' \subseteq QueuedJobs \cup {j}
    BY TimerMoves
  <1>4. PlacesApart' /\ HoldersApart'
    BY <1>1, <1>2, <1>3 DEF Custody, PlacesApart, HoldersApart
  <1>5. Launched'
    BY <1>1, <1>2, <1>3 DEF Custody, Launched, InFlight
  <1> QED
    BY <1>2, <1>3, <1>4, <1>5 DEF Custody, JobsOf

LEMMA CustodyStep == TypeOK /\ Custody /\ [Next]_vars => Custody'
  <1> SUFFICES ASSUME TypeOK, Custody, [Next]_vars PROVE Custody'
    OBVIOUS
  <1>1. CASE Cancel \/ StopStep \/ Dead \/ UNCHANGED vars
    <2>1. UNCHANGED <<phase, queue, worker, results, proc, timers>>
      BY <1>1 DEF Cancel, StopStep, CloseQueue, CloseResults, ExitGracefully,
           ExitForced, SetStage, Dead, vars, jobVars
    <2> QED
      BY <2>1, CustodyStays
  <1> QED
    BY <1>1, HandlerCustody, TimerCustody, WorkerCustody, ProcCustody DEF Next

LEMMA CustodyInvariant == Spec => [](TypeOK /\ Custody)
  <1>1. Spec => []TypeOK
    BY TypeCorrect
  <1>2. Spec => []Custody
    BY InitCustody, CustodyStep, TypeCorrect, PTL DEF Spec
  <1> QED
    BY <1>1, <1>2, PTL

(* A job is in one place: no interleaving of handlers, workers, the result *)
(* loop and the retry timers makes two goroutines work on the same job     *)
(* (dispatcher.go:150-199, worker.go:33-110).                              *)
THEOREM OnePlacePerJob == Spec => []SingleCustody
  BY CustodyInvariant, CustodyImplies, PTL

-----------------------------------------------------------------------------
(* Tracked: TrackedUntilHandled, with what it needs from Dispatch and from *)
(* the second half of processResults.                                      *)
Tracked ==
    /\ TrackedUntilHandled
    /\ \A j \in Jobs : phase[j] = "registered" => j \in activeJobs
    /\ proc.st \in {"recording", "forgetting"} =>
         proc.job \notin InFlight \/ retryCount[proc.job] > 0

LEMMA InitTracked == Init => Tracked
  <1> SUFFICES ASSUME Init PROVE Tracked
    OBVIOUS
  <1>1. /\ QueuedJobs = {} /\ ReportedJobs = {} /\ HeldJobs = {}
        /\ HandledJobs = {} /\ timers = {}
    BY DEF Init, Idle, Waiting, QueuedJobs, ReportedJobs, HeldJobs, HandledJobs
  <1> QED
    BY <1>1 DEF Tracked, TrackedUntilHandled, InFlight, Init, Waiting

(* Steps that put no job in flight and make activeJobs forget none.        *)
LEMMA TrackedStays ==
    ASSUME TypeOK, Tracked, InFlight' \subseteq InFlight,
           UNCHANGED <<retryCount, discarded>>,
           activeJobs \subseteq activeJobs',
           \A j \in Jobs : phase'[j] = "registered" =>
                             phase[j] = "registered" \/ j \in activeJobs',
           proc'.st \in {"recording", "forgetting"} =>
             \/ proc.st \in {"recording", "forgetting"} /\ proc'.job = proc.job
             \/ proc'.job \notin InFlight'
    PROVE  Tracked'
  BY DEF Tracked, TrackedUntilHandled

LEMMA HandlerTracked ==
    ASSUME TypeOK, Custody, Tracked, NEW j \in Jobs,
           HandlerStarts(j) \/ HandlerStep(j)
    PROVE  Tracked'
  <1> USE DEF SetPhase
  <1>0. UNCHANGED <<retryCount, discarded, proc>>
    BY DEF HandlerStarts, HandlerStep, RateLimited, Register, ScheduleInRedis,
         ScheduleInPostgres, Store, Enqueue, CountTotal, QueueFull,
         RemoveRefused, SendOnClosedQueue, ghosts
  <1>1. CASE Enqueue(j)
    <2>1. /\ InFlight' = InFlight \cup {j} /\ activeJobs' = activeJobs
          /\ j \notin InFlight /\ proc.job # j /\ j \in activeJobs
      <3>1. /\ j \notin InFlight /\ proc.job # j
            /\ QueuedJobs' = QueuedJobs \cup {j}
        BY <1>1, EnqueueMoves
      <3>2. j \in activeJobs
        BY <1>1 DEF Enqueue, Tracked
      <3> QED
        BY <1>1, <3>1, <3>2
           DEF Enqueue, InFlight, HeldJobs, ReportedJobs, HandledJobs
    <2>2. \A k \in Jobs : phase'[k] = "registered" => phase[k] = "registered"
      BY <1>1 DEF Enqueue, TypeOK
    <2> QED
      BY <1>0, <2>1, <2>2 DEF Tracked, TrackedUntilHandled
  <1>2. CASE ~Enqueue(j)
    <2>1. UNCHANGED <<queue, worker, results, timers>>
      BY <1>2 DEF HandlerStarts, HandlerStep, RateLimited, Register,
           ScheduleInRedis, ScheduleInPostgres, Store, CountTotal, QueueFull,
           RemoveRefused, SendOnClosedQueue
    <2>2. InFlight' = InFlight
      BY <1>0, <2>1 DEF InFlight, QueuedJobs, HeldJobs, ReportedJobs,
           HandledJobs
    <2>3. CASE RemoveRefused(j)
      <3>1. j \notin InFlight
        BY <2>3 DEF RemoveRefused, Custody, Launched, Launch
      <3>2. \A k \in Jobs : phase'[k] = "registered" =>
                              k # j /\ phase[k] = "registered"
        BY <2>3 DEF RemoveRefused, TypeOK
      <3>3. activeJobs' = activeJobs \ {j}
        BY <2>3 DEF RemoveRefused
      <3> QED
        BY <1>0, <2>2, <3>1, <3>2, <3>3 DEF Tracked, TrackedUntilHandled
    <2>4. CASE ~RemoveRefused(j)
      <3>1. activeJobs \subseteq activeJobs'
        BY <1>2, <2>4 DEF HandlerStarts, HandlerStep, RateLimited, Register,
             ScheduleInRedis, ScheduleInPostgres, Store, CountTotal, QueueFull,
             SendOnClosedQueue
      <3>2. \A k \in Jobs : phase'[k] = "registered" =>
                              phase[k] = "registered" \/ k \in activeJobs'
        BY <1>2, <2>4 DEF HandlerStarts, HandlerStep, RateLimited, Register,
             ScheduleInRedis, ScheduleInPostgres, Store, CountTotal, QueueFull,
             SendOnClosedQueue, TypeOK
      <3> QED
        BY <1>0, <2>2, <3>1, <3>2, TrackedStays
    <2> QED
      BY <2>3, <2>4
  <1> QED
    BY <1>1, <1>2

LEMMA WorkerTracked ==
    ASSUME TypeOK, Custody, Tracked, NEW w \in Workers, WorkerStep(w)
    PROVE  Tracked'
  <1>1. UNCHANGED <<retryCount, discarded, proc, activeJobs, phase>>
    BY DEF WorkerStep, Take, Send, Report, WorkerExit, jobVars, ghosts
  <1>2. InFlight' \subseteq InFlight
    <2>1. CASE Take(w)
      <3>1. /\ QueuedJobs' \subseteq QueuedJobs
            /\ HeldJobs' \subseteq HeldJobs \cup QueuedJobs
        BY <2>1, TakeMoves
      <3> QED
        BY <2>1, <3>1 DEF Take, InFlight, ReportedJobs, HandledJobs
    <2>2. CASE Report(w)
      <3>1. /\ HeldJobs' \subseteq HeldJobs
            /\ ReportedJobs' \subseteq ReportedJobs \cup HeldJobs
        BY <2>2, ReportMoves
      <3> QED
        BY <2>2, <3>1 DEF Report, InFlight, QueuedJobs, HandledJobs
    <2>3. CASE Send(w) \/ WorkerExit(w)
      <3>0. worker \in [Workers -> WorkerState]
        BY DEF TypeOK
      <3>1. \A v \in Workers : worker'[v].job = worker[v].job
        BY <2>3, <3>0 DEF Send, WorkerExit, Idle, Gone, WorkerState
      <3>2. HeldJobs' = HeldJobs
        BY <3>1 DEF HeldJobs
      <3> QED
        BY <2>3, <3>2
           DEF Send, WorkerExit, InFlight, QueuedJobs, ReportedJobs, HandledJobs
    <2> QED
      BY <2>1, <2>2, <2>3 DEF WorkerStep
  <1> QED
    BY <1>1, <1>2, TrackedStays

LEMMA ProcTracked ==
    ASSUME TypeOK, Custody, Tracked, ProcStep
    PROVE  Tracked'
  <1>1. CASE PickResult
    <2> DEFINE h == Head(results).job
    <2>1. /\ h \in Jobs /\ h \in ReportedJobs
          /\ ReportedJobs' \subseteq ReportedJobs /\ HandledJobs' \subseteq {h}
      BY <1>1, PickMoves
    <2>2. /\ discarded' \subseteq discarded \cup ({h} \ activeJobs)
          /\ UNCHANGED <<queue, worker, timers, phase, activeJobs, retryCount>>
          /\ proc'.st \notin {"recording", "forgetting"}
      BY <1>1 DEF PickResult, jobVars, Waiting
    <2> HIDE DEF h
    <2>3. InFlight' \subseteq InFlight /\ h \in InFlight
      BY <2>1, <2>2 DEF InFlight, QueuedJobs, HeldJobs
    <2>4. h \notin activeJobs => retryCount[h] > 0
      BY <2>1, <2>3 DEF Tracked, TrackedUntilHandled, TypeOK
    <2> QED
      BY <2>2, <2>3, <2>4 DEF Tracked, TrackedUntilHandled
  <1>2. CASE StartRetry
    <2>1. /\ proc.job \in Jobs
          /\ retryCount' = [retryCount EXCEPT ![proc.job] = @ + 1]
          /\ proc'.job = proc.job /\ activeJobs' = activeJobs
          /\ phase' = phase /\ discarded' = discarded
      BY <1>2 DEF StartRetry, TypeOK, ProcState, JobOrNone, jobVars, ghosts
    <2>2. \A j \in Jobs : retryCount'[j] >= retryCount[j]
      BY <2>1 DEF TypeOK
    <2>3. retryCount'[proc.job] > 0
      BY <2>1 DEF TypeOK
    <2>4. InFlight' = InFlight
      BY <1>2 DEF StartRetry, InFlight, QueuedJobs, HeldJobs, ReportedJobs,
           HandledJobs, jobVars, TypeOK, ProcState
    <2>5. InFlight \subseteq Jobs
      BY InFlightJobs
    <2> QED
      BY <2>1, <2>2, <2>3, <2>4, <2>5 DEF Tracked, TrackedUntilHandled, TypeOK
  <1>3. CASE CountSuccess \/ CountFailure
    <2>1. /\ HandledJobs = {proc.job} /\ HandledJobs' = {} /\ proc'.job = proc.job
          /\ UNCHANGED <<queue, worker, results, timers>>
      BY <1>3 DEF CountSuccess, CountFailure, HandledJobs, TypeOK, ProcState
    <2>2. proc.job \notin InFlight' /\ InFlight' \subseteq InFlight
      BY <2>1 DEF Custody, PlacesApart, InFlight, QueuedJobs, HeldJobs,
           ReportedJobs
    <2> QED
      BY <1>3, <2>1, <2>2, TrackedStays
         DEF CountSuccess, CountFailure, jobVars
  <1>4. CASE RecordHistory \/ ProcEnd
    <2>1. /\ UNCHANGED <<queue, worker, results, timers>>
          /\ HandledJobs' = HandledJobs
      BY <1>4 DEF RecordHistory, ProcEnd, HandledJobs, Waiting, Ended, TypeOK,
           ProcState
    <2>2. InFlight' = InFlight
      BY <2>1 DEF InFlight, QueuedJobs, HeldJobs, ReportedJobs
    <2>3. proc'.st \in {"recording", "forgetting"} =>
             proc.st = "recording" /\ proc'.job = proc.job
      BY <1>4 DEF RecordHistory, ProcEnd, Ended, TypeOK, ProcState
    <2> QED
      BY <1>4, <2>2, <2>3, TrackedStays
         DEF RecordHistory, ProcEnd, jobVars, ghosts
  <1>5. CASE Forget
    <2>1. /\ UNCHANGED <<queue, worker, results, timers, phase, retryCount,
                         discarded>>
          /\ HandledJobs' = {} /\ HandledJobs = {}
          /\ activeJobs' = activeJobs \ {proc.job} /\ proc'.st = "waiting"
      BY <1>5 DEF Forget, HandledJobs, Waiting, ghosts
    <2>2. InFlight' = InFlight
      BY <2>1 DEF InFlight, QueuedJobs, HeldJobs, ReportedJobs
    <2>3. proc.job \notin InFlight \/ retryCount[proc.job] > 0
      BY <1>5 DEF Forget, Tracked
    <2>4. proc.job \in Jobs /\ phase[proc.job] # "registered"
      BY <1>5 DEF Forget, TypeOK, ProcState, JobOrNone, Custody, Launched, Launch
    <2> QED
      BY <2>1, <2>2, <2>3, <2>4 DEF Tracked, TrackedUntilHandled, TypeOK
  <1> QED
    BY <1>1, <1>2, <1>3, <1>4, <1>5 DEF ProcStep

LEMMA TimerTracked ==
    ASSUME TypeOK, Custody, Tracked, NEW j \in Jobs, TimerStep(j)
    PROVE  Tracked'
  <1>1. /\ j \in timers /\ timers' \subseteq timers
        /\ QueuedJobs' \subseteq QueuedJobs \cup {j}
    BY TimerMoves
  <1>2. /\ UNCHANGED <<retryCount, discarded, proc, activeJobs, phase>>
        /\ HeldJobs' = HeldJobs /\ ReportedJobs' = ReportedJobs
        /\ HandledJobs' = HandledJobs
    BY DEF TimerStep, RetryEnqueue, RetryPanics, jobVars, ghosts, HeldJobs,
         ReportedJobs, HandledJobs
  <1>3. InFlight' \subseteq InFlight
    BY <1>1, <1>2 DEF InFlight
  <1> QED
    BY <1>2, <1>3, TrackedStays

LEMMA TrackedStep == TypeOK /\ Custody /\ Tracked /\ [Next]_vars => Tracked'
  <1> SUFFICES ASSUME TypeOK, Custody, Tracked, [Next]_vars PROVE Tracked'
    OBVIOUS
  <1>1. CASE Cancel \/ StopStep \/ Dead \/ UNCHANGED vars
    <2>1. UNCHANGED <<phase, activeJobs, queue, worker, results, proc, timers,
                      retryCount, discarded>>
      BY <1>1 DEF Cancel, StopStep, CloseQueue, CloseResults, ExitGracefully,
           ExitForced, SetStage, Dead, vars, jobVars, ghosts
    <2>2. InFlight' = InFlight
      BY <2>1 DEF InFlight, QueuedJobs, HeldJobs, ReportedJobs, HandledJobs
    <2> QED
      BY <2>1, <2>2, TrackedStays
  <1> QED
    BY <1>1, HandlerTracked, TimerTracked, WorkerTracked, ProcTracked DEF Next

(* activeJobs knows a job until its first result is looked at: a result    *)
(* that processResults throws away (dispatcher.go:182) is one of a retry.  *)
THEOREM FirstResultIsKnown == Spec => []TrackedUntilHandled
  <1>1. Spec => []Tracked
    BY InitTracked, TrackedStep, CustodyInvariant, PTL DEF Spec
  <1> QED
    BY <1>1, PTL DEF Tracked

-----------------------------------------------------------------------------
(* ActiveKnown: why each entry of activeJobs is there.  A job whose        *)
(* Dispatch has queued it is in flight, or processResults is about to      *)
(* delete it; the one moment at which it is at a timer is that between the *)
(* start of the timer and the deletion.                                    *)
Concluding(j) == proc.st \in {"recording", "forgetting"} /\ proc.job = j

ActiveKnown ==
    /\ \A j \in activeJobs : phase[j] \notin {"new", "refused"}
    /\ \A j \in activeJobs : phase[j] \in Launch => j \in InFlight \/ Concluding(j)
    /\ \A j \in activeJobs \cap timers : Concluding(j) /\ proc.st = "forgetting"

LEMMA InitActive == Init => ActiveKnown
  BY DEF Init, ActiveKnown

(* Steps that take no job out of flight and leave activeJobs, the handlers *)
(* and the second half of processResults alone.                            *)
LEMMA ActiveStays ==
    ASSUME TypeOK, ActiveKnown, UNCHANGED <<activeJobs, phase>>,
           InFlight \subseteq InFlight', timers' \subseteq timers,
           \A j \in Jobs : Concluding(j) => proc' = proc
    PROVE  ActiveKnown'
  BY DEF ActiveKnown, Concluding, TypeOK

LEMMA HandlerActive ==
    ASSUME TypeOK, Custody, ActiveKnown, NEW j \in Jobs,
           HandlerStarts(j) \/ HandlerStep(j)
    PROVE  ActiveKnown'
  <1> USE DEF SetPhase
  <1>1. /\ UNCHANGED <<proc, timers, worker, results>>
        /\ activeJobs \in SUBSET Jobs
    BY DEF HandlerStarts, HandlerStep, RateLimited, Register, ScheduleInRedis,
         ScheduleInPostgres, Store, Enqueue, CountTotal, QueueFull,
         RemoveRefused, SendOnClosedQueue, TypeOK
  <1>2. InFlight \subseteq InFlight' /\ (Enqueue(j) => j \in InFlight')
    <2>1. CASE Enqueue(j)
      <3>1. QueuedJobs' = QueuedJobs \cup {j}
        BY <2>1, EnqueueMoves
      <3> QED
        BY <1>1, <3>1 DEF InFlight, HeldJobs, ReportedJobs, HandledJobs
    <2>2. CASE ~Enqueue(j)
      <3>1. queue' = queue
        BY <2>2 DEF HandlerStarts, HandlerStep, RateLimited, Register,
             ScheduleInRedis, ScheduleInPostgres, Store, CountTotal, QueueFull,
             RemoveRefused, SendOnClosedQueue
      <3> QED
        BY <1>1, <2>2, <3>1
           DEF InFlight, QueuedJobs, HeldJobs, ReportedJobs, HandledJobs
    <2> QED
      BY <2>1, <2>2
  <1>3. \A k \in Jobs : k # j => /\ phase'[k] = phase[k]
                                 /\ k \in activeJobs' <=> k \in activeJobs
    BY DEF HandlerStarts, HandlerStep, RateLimited, Register, ScheduleInRedis,
         ScheduleInPostgres, Store, Enqueue, CountTotal, QueueFull,
         RemoveRefused, SendOnClosedQueue, TypeOK
  <1>4. activeJobs' \subseteq activeJobs \cup {j}
    BY DEF HandlerStarts, HandlerStep, RateLimited, Register, ScheduleInRedis,
         ScheduleInPostgres, Store, Enqueue, CountTotal, QueueFull,
         RemoveRefused, SendOnClosedQueue
  <1>5. j \in activeJobs' => phase'[j] \notin {"new", "refused"}
    BY DEF HandlerStarts, HandlerStep, RateLimited, Register, ScheduleInRedis,
         ScheduleInPostgres, Store, Enqueue, CountTotal, QueueFull,
         RemoveRefused, SendOnClosedQueue, TypeOK, ActiveKnown
  <1>6. phase'[j] \in Launch =>
           \/ Enqueue(j)
           \/ phase[j] \in Launch /\ activeJobs' = activeJobs
    BY DEF HandlerStarts, HandlerStep, RateLimited, Register, ScheduleInRedis,
         ScheduleInPostgres, Store, CountTotal, QueueFull, RemoveRefused,
         SendOnClosedQueue, TypeOK, Launch
  <1>7. j \in timers => activeJobs' \subseteq activeJobs
    <2>1. j \in timers => phase[j] \in Launch
      BY DEF Custody, Launched, InFlight
    <2> QED
      BY <2>1 DEF HandlerStarts, HandlerStep, RateLimited, Register,
           ScheduleInRedis, ScheduleInPostgres, Store, Enqueue, CountTotal,
           QueueFull, RemoveRefused, SendOnClosedQueue, Launch
  <1>8. \A k \in activeJobs' : phase'[k] \notin {"new", "refused"}
    BY <1>1, <1>3, <1>4, <1>5 DEF ActiveKnown
  <1>9. \A k \in activeJobs' :
           phase'[k] \in Launch => k \in InFlight' \/ Concluding(k)
    BY <1>1, <1>2, <1>3, <1>4, <1>6 DEF ActiveKnown
  <1>10. \A k \in activeJobs' \cap timers' : Concluding(k) /\ proc.st = "forgetting"
    BY <1>1, <1>3, <1>4, <1>7 DEF ActiveKnown
  <1> QED
    BY <1>1, <1>8, <1>9, <1>10 DEF ActiveKnown, Concluding

LEMMA WorkerActive ==
    ASSUME TypeOK, Custody, ActiveKnown, NEW w \in Workers, WorkerStep(w)
    PROVE  ActiveKnown'
  <1>1. UNCHANGED <<activeJobs, phase, proc, timers>>
    BY DEF WorkerStep, Take, Send, Report, WorkerExit, jobVars
  <1>2. InFlight \subseteq InFlight'
    <2>1. CASE Take(w)
      <3>1. QueuedJobs \subseteq QueuedJobs' \cup HeldJobs' /\ HeldJobs \subseteq HeldJobs'
        BY <2>1, TakeMoves
      <3> QED
        BY <2>1, <3>1 DEF Take, InFlight, ReportedJobs, HandledJobs
    <2>2. CASE Report(w)
      <3>1. /\ HeldJobs \subseteq HeldJobs' \cup ReportedJobs'
            /\ ReportedJobs \subseteq ReportedJobs'
        BY <2>2, ReportMoves
      <3> QED
        BY <2>2, <3>1 DEF Report, InFlight, QueuedJobs, HandledJobs
    <2>3. CASE Send(w) \/ WorkerExit(w)
      <3>0. worker \in [Workers -> WorkerState]
        BY DEF TypeOK
      <3>1. \A v \in Workers : worker'[v].job = worker[v].job
        BY <2>3, <3>0 DEF Send, WorkerExit, Idle, Gone, WorkerState
      <3>2. HeldJobs' = HeldJobs
        BY <3>1 DEF HeldJobs
      <3> QED
        BY <2>3, <3>2
           DEF Send, WorkerExit, InFlight, QueuedJobs, ReportedJobs, HandledJobs
    <2> QED
      BY <2>1, <2>2, <2>3 DEF WorkerStep
  <1> QED
    BY <1>1, <1>2, ActiveStays

LEMMA ProcActive ==
    ASSUME TypeOK, Custody, ActiveKnown, ProcStep
    PROVE  ActiveKnown'
  <1> USE DEF Concluding
  <1>1. CASE PickResult
    <2> DEFINE h == Head(results).job
    <2>1. ReportedJobs' = ReportedJobs \ {h} /\ HandledJobs = {}
      BY <1>1, PickMoves
    <2>2. /\ UNCHANGED <<queue, worker, timers, phase, activeJobs>>
          /\ proc.st = "waiting"
          /\ h \in activeJobs => HandledJobs' = {h}
      BY <1>1 DEF PickResult, jobVars, Waiting, HandledJobs
    <2> HIDE DEF h
    <2>3. /\ \A j \in InFlight \cap activeJobs : j \in InFlight'
      BY <2>1, <2>2 DEF InFlight, QueuedJobs, HeldJobs
    <2> QED
      BY <2>2, <2>3 DEF ActiveKnown
  <1>2. CASE CountSuccess \/ CountFailure \/ StartRetry
    <2>1. /\ UNCHANGED <<queue, worker, results, phase, activeJobs>>
          /\ proc.st = "handling" /\ proc'.job = proc.job
          /\ proc'.st \in {"recording", "forgetting"}
          /\ \/ timers' = timers
             \/ timers' = timers \cup {proc.job} /\ proc'.st = "forgetting"
      BY <1>2 DEF CountSuccess, CountFailure, StartRetry, jobVars, TypeOK,
           ProcState
    <2>2. \A j \in InFlight : j \in InFlight' \/ proc'.job = j
      BY <2>1 DEF InFlight, QueuedJobs, HeldJobs, ReportedJobs, HandledJobs
    <2> QED
      BY <2>1, <2>2 DEF ActiveKnown
  <1>3. CASE RecordHistory
    <2>1. /\ UNCHANGED <<queue, worker, results, timers, phase, activeJobs>>
          /\ proc.st = "recording" /\ proc'.job = proc.job
          /\ proc'.st = "forgetting"
      BY <1>3 DEF RecordHistory, jobVars, TypeOK, ProcState
    <2>2. InFlight' = InFlight
      BY <2>1 DEF InFlight, QueuedJobs, HeldJobs, ReportedJobs, HandledJobs
    <2> QED
      BY <2>1, <2>2 DEF ActiveKnown
  <1>4. CASE Forget
    <2>1. /\ UNCHANGED <<queue, worker, results, timers, phase>>
          /\ proc.st = "forgetting" /\ activeJobs' = activeJobs \ {proc.job}
          /\ HandledJobs' = HandledJobs
      BY <1>4 DEF Forget, Waiting, HandledJobs
    <2>2. InFlight' = InFlight
      BY <2>1 DEF InFlight, QueuedJobs, HeldJobs, ReportedJobs
    <2> QED
      BY <2>1, <2>2 DEF ActiveKnown
  <1>5. CASE ProcEnd
    <2>1. /\ UNCHANGED <<queue, worker, results, timers, phase, activeJobs>>
          /\ proc.st = "waiting" /\ HandledJobs' = HandledJobs
      BY <1>5 DEF ProcEnd, jobVars, Waiting, Ended, HandledJobs
    <2>2. InFlight' = InFlight
      BY <2>1 DEF InFlight, QueuedJobs, HeldJobs, ReportedJobs
    <2> QED
      BY <2>1, <2>2 DEF ActiveKnown
  <1> QED
    BY <1>1, <1>2, <1>3, <1>4, <1>5 DEF ProcStep

LEMMA TimerActive ==
    ASSUME TypeOK, Custody, ActiveKnown, NEW j \in Jobs, TimerStep(j)
    PROVE  ActiveKnown'
  <1>1. /\ j \in timers /\ timers' = timers \ {j}
        /\ UNCHANGED <<proc, activeJobs, phase>>
    BY DEF TimerStep, RetryEnqueue, RetryPanics, jobVars
  <1>2. QueuedJobs \subseteq QueuedJobs'
    BY TimerMoves
  <1>3. /\ HeldJobs' = HeldJobs /\ ReportedJobs' = ReportedJobs
        /\ HandledJobs' = HandledJobs
    BY DEF TimerStep, RetryEnqueue, RetryPanics, HeldJobs, ReportedJobs,
         HandledJobs
  <1>4. InFlight \ {j} \subseteq InFlight'
    BY <1>1, <1>2, <1>3 DEF InFlight
  <1>5. j \in activeJobs => Concluding(j)
    BY <1>1 DEF ActiveKnown
  <1> QED
    BY <1>1, <1>4, <1>5 DEF ActiveKnown, Concluding

LEMMA ActiveStep == TypeOK /\ Custody /\ ActiveKnown /\ [Next]_vars => ActiveKnown'
  <1> SUFFICES ASSUME TypeOK, Custody, ActiveKnown, [Next]_vars PROVE ActiveKnown'
    OBVIOUS
  <1>1. CASE Cancel \/ StopStep \/ Dead \/ UNCHANGED vars
    <2>1. UNCHANGED <<phase, activeJobs, queue, worker, results, proc, timers>>
      BY <1>1 DEF Cancel, StopStep, CloseQueue, CloseResults, ExitGracefully,
           ExitForced, SetStage, Dead, vars, jobVars
    <2>2. InFlight' = InFlight
      BY <2>1 DEF InFlight, QueuedJobs, HeldJobs, ReportedJobs, HandledJobs
    <2> QED
      BY <2>1, <2>2, ActiveStays
  <1> QED
    BY <1>1, HandlerActive, TimerActive, WorkerActive, ProcActive DEF Next

LEMMA SettledActive ==
    TypeOK /\ ActiveKnown => OnlyUnsentStayActive
  <1> SUFFICES ASSUME TypeOK, ActiveKnown, Settled, NEW j \in activeJobs
               PROVE  phase[j] \in {"scheduled", "unscheduled", "panicked"}
    BY DEF OnlyUnsentStayActive
  <1>1. proc = Waiting
    BY DEF Settled
  <1>2. InFlight = {} /\ ~Concluding(j)
    BY <1>1 DEF Settled, Waiting, Concluding, InFlight, QueuedJobs, HeldJobs,
         ReportedJobs, HandledJobs
  <1>3. j \in Jobs /\ phase[j] \in Phases /\ ~InHandler(j)
    BY DEF TypeOK, Settled
  <1> QED
    BY <1>2, <1>3 DEF ActiveKnown, Launch, Phases, InHandler

(* activeJobs has no leak but two: once nothing is in flight, what it      *)
(* holds are jobs scheduleJob kept and jobs whose handler died in a panic  *)
(* (dispatcher.go:134-165, 182-212), whatever was retried before.          *)
THEOREM NothingSentStaysActive == Spec => []OnlyUnsentStayActive
  <1>1. Spec => []ActiveKnown
    BY InitActive, ActiveStep, CustodyInvariant, PTL DEF Spec
  <1>2. Spec => []TypeOK
    BY TypeCorrect
  <1> QED
    BY <1>1, <1>2, SettledActive, PTL

-----------------------------------------------------------------------------
(* What a job's counters say before a provider call and after it.          *)
Untried(j) ==
    outcome[j] = "none" /\ attempts[j] = retryCount[j] /\ j \notin delivered
Tried(j, ok) ==
    /\ outcome[j] = "none"
    /\ attempts[j] = retryCount[j] + 1
    /\ ok <=> j \in delivered

(* Each place holds jobs that have come as far as the place says.          *)
Faithful ==
    /\ \A j \in Jobs : phase[j] \notin Launch => Untried(j)
    /\ \A j \in QueuedJobs \cup timers : Untried(j)
    /\ \A w \in Workers :
         /\ worker[w].st = "sending" => Untried(worker[w].job)
         /\ worker[w].st = "reporting" => Tried(worker[w].job, worker[w].ok)
    /\ \A r \in Image(results) : Tried(r.job, r.ok)
    /\ proc.st = "handling" => Tried(proc.job, proc.ok)

LEMMA InitFaithful == Init => Faithful
  <1> SUFFICES ASSUME Init PROVE Faithful
    OBVIOUS
  <1>1. QueuedJobs = {} /\ timers = {} /\ Image(results) = {}
    BY DEF Init, QueuedJobs, Image
  <1> QED
    BY <1>1 DEF Faithful, Untried, Init, Idle, Waiting

(* The same after a step, for jobs named before it.                        *)
UntriedNext(j) ==
    outcome'[j] = "none" /\ attempts'[j] = retryCount'[j] /\ j \notin delivered'
TriedNext(j, ok) ==
    /\ outcome'[j] = "none"
    /\ attempts'[j] = retryCount'[j] + 1
    /\ ok <=> j \in delivered'

LEMMA FaithfulNext ==
    ASSUME \A j \in Jobs : phase'[j] \notin Launch => UntriedNext(j),
           \A j \in QueuedJobs' \cup timers' : UntriedNext(j),
           \A w \in Workers :
             /\ worker'[w].st = "sending" => UntriedNext(worker'[w].job)
             /\ worker'[w].st = "reporting" =>
                  TriedNext(worker'[w].job, worker'[w].ok),
           \A r \in Image(results') : TriedNext(r.job, r.ok),
           proc'.st = "handling" => TriedNext(proc'.job, proc'.ok)
    PROVE  Faithful'
  BY DEF Faithful, Untried, Tried, UntriedNext, TriedNext, Image

(* Steps that leave the counters alone, and take no job to a place of      *)
(* another kind.                                                           *)
Counters == <<outcome, attempts, retryCount, delivered>>

LEMMA FaithfulStays ==
    ASSUME Faithful, UNCHANGED Counters,
           \A j \in Jobs : phase'[j] \notin Launch => phase[j] \notin Launch,
           \A j \in QueuedJobs' \cup timers' : Untried(j),
           \A w \in Workers :
             /\ worker'[w].st = "sending" => Untried(worker'[w].job)
             /\ worker'[w].st = "reporting" => Tried(worker'[w].job, worker'[w].ok),
           \A r \in Image(results') : Tried(r.job, r.ok),
           proc'.st = "handling" => Tried(proc'.job, proc'.ok)
    PROVE  Faithful'
  <1>1. /\ \A j : Untried(j) => UntriedNext(j)
        /\ \A j, ok : Tried(j, ok) => TriedNext(j, ok)
    BY DEF Counters, Untried, Tried, UntriedNext, TriedNext
  <1>2. \A j \in Jobs : phase[j] \notin Launch => Untried(j)
    BY DEF Faithful
  <1> QED
    BY <1>1, <1>2, FaithfulNext

(* Steps that change the counters of one job, which is in no place whose   *)
(* jobs have to stay as they are.                                          *)
LEMMA OthersStay ==
    ASSUME TypeOK, Custody, Faithful, NEW j \in Jobs,
           \A k \in Jobs : k # j =>
             /\ outcome'[k] = outcome[k] /\ attempts'[k] = attempts[k]
             /\ retryCount'[k] = retryCount[k]
             /\ k \in delivered' <=> k \in delivered
    PROVE  /\ \A k \in Jobs : k # j /\ phase[k] \notin Launch => UntriedNext(k)
           /\ \A k \in QueuedJobs \cup timers : k # j => UntriedNext(k)
           /\ \A w \in Workers : worker[w].job # j =>
                /\ worker[w].st = "sending" => UntriedNext(worker[w].job)
                /\ worker[w].st = "reporting" =>
                     TriedNext(worker[w].job, worker[w].ok)
           /\ j \notin ReportedJobs =>
                \A r \in Image(results) : TriedNext(r.job, r.ok)
           /\ proc.st = "handling" /\ proc.job # j =>
                TriedNext(proc.job, proc.ok)
  <1>1. /\ \A k \in Jobs : k # j /\ Untried(k) => UntriedNext(k)
        /\ \A k \in Jobs : \A ok : k # j /\ Tried(k, ok) => TriedNext(k, ok)
    BY DEF Untried, Tried, UntriedNext, TriedNext
  <1>2. QueuedJobs \cup timers \subseteq Jobs
    BY InFlightJobs DEF InFlight
  <1>3. \A w \in Workers :
           worker[w].st \in {"sending", "reporting"} => worker[w].job \in Jobs
    BY DEF TypeOK, WorkerState, JobOrNone
  <1>4. \A r \in Image(results) : r.job \in Jobs /\ r.job \in ReportedJobs
    <2>1. \A i \in DOMAIN results : results[i] \in Result
      BY DEF TypeOK
    <2> QED
      BY <2>1 DEF Image, Result, ReportedJobs
  <1>5. proc.st = "handling" => proc.job \in Jobs
    BY DEF TypeOK, ProcState, JobOrNone
  <1> QED
    BY <1>1, <1>2, <1>3, <1>4, <1>5 DEF Faithful

LEMMA HandlerFaithful ==
    ASSUME TypeOK, Custody, Faithful, NEW j \in Jobs,
           HandlerStarts(j) \/ HandlerStep(j)
    PROVE  Faithful'
  <1> USE DEF SetPhase
  <1>1. UNCHANGED <<worker, results, proc, timers, outcome, attempts,
                    retryCount, delivered>>
    BY DEF HandlerStarts, HandlerStep, RateLimited, Register, ScheduleInRedis,
         ScheduleInPostgres, Store, Enqueue, CountTotal, QueueFull,
         RemoveRefused, SendOnClosedQueue, ghosts
  <1>2. \A k \in QueuedJobs' : Untried(k)
    <2>1. CASE Enqueue(j)
      <3>1. QueuedJobs' = QueuedJobs \cup {j}
        BY <2>1, EnqueueMoves
      <3>2. phase[j] \notin Launch
        BY <2>1 DEF Enqueue, Launch
      <3> QED
        BY <3>1, <3>2 DEF Faithful
    <2>2. CASE ~Enqueue(j)
      <3>1. queue' = queue
        BY <2>2 DEF HandlerStarts, HandlerStep, RateLimited, Register,
             ScheduleInRedis, ScheduleInPostgres, Store, CountTotal, QueueFull,
             RemoveRefused, SendOnClosedQueue
      <3> QED
        BY <3>1 DEF Faithful, QueuedJobs
    <2> QED
      BY <2>1, <2>2
  <1>3. \A k \in Jobs : phase'[k] \notin Launch => phase[k] \notin Launch
    BY DEF HandlerStarts, HandlerStep, RateLimited, Register, ScheduleInRedis,
         ScheduleInPostgres, Store, Enqueue, CountTotal, QueueFull,
         RemoveRefused, SendOnClosedQueue, Launch, TypeOK
  <1>4. /\ \A k \in timers' : Untried(k)
        /\ \A w \in Workers :
             /\ worker'[w].st = "sending" => Untried(worker'[w].job)
             /\ worker'[w].st = "reporting" => Tried(worker'[w].job, worker'[w].ok)
        /\ \A r \in Image(results') : Tried(r.job, r.ok)
        /\ proc'.st = "handling" => Tried(proc'.job, proc'.ok)
    BY <1>1 DEF Faithful
  <1> QED
    BY <1>1, <1>2, <1>3, <1>4, FaithfulStays DEF Counters

LEMMA SendFaithful ==
    ASSUME TypeOK, Custody, Faithful, NEW w \in Workers, Send(w)
    PROVE  Faithful'
  <1>1. PICK j \in Jobs : j = worker[w].job
    BY EngineAssumption DEF Send, TypeOK, WorkerState, JobOrNone
  <1>2. Untried(j) /\ j \in HeldJobs
    BY <1>1, EngineAssumption DEF Send, Faithful, HeldJobs
  <1>3. /\ j \notin QueuedJobs \cup timers \cup ReportedJobs \cup HandledJobs
        /\ phase[j] \in Launch
        /\ \A v \in Workers : v # w => worker[v].job # j
    BY <1>1, <1>2, EngineAssumption
       DEF Custody, PlacesApart, HoldersApart, Launched, InFlight
  <1>4. PICK ok \in BOOLEAN :
          /\ worker' = [worker EXCEPT ![w] =
                          [st |-> "reporting", job |-> j, ok |-> ok]]
          /\ delivered' = IF ok THEN delivered \cup {j} ELSE delivered
    BY <1>1 DEF Send
  <1>5. /\ attempts' = [attempts EXCEPT ![j] = @ + 1]
        /\ UNCHANGED <<phase, queue, results, proc, timers, retryCount, outcome>>
    BY <1>1 DEF Send, jobVars
  <1>6. TriedNext(j, ok)
    BY <1>2, <1>4, <1>5 DEF TriedNext, Untried, TypeOK
  <1>7. \A k \in Jobs : k # j =>
          /\ outcome'[k] = outcome[k] /\ attempts'[k] = attempts[k]
          /\ retryCount'[k] = retryCount[k]
          /\ k \in delivered' <=> k \in delivered
    BY <1>4, <1>5 DEF TypeOK
  <1>8. \A v \in Workers :
          /\ worker'[v].st = "sending" => UntriedNext(worker'[v].job)
          /\ worker'[v].st = "reporting" =>
               TriedNext(worker'[v].job, worker'[v].ok)
    <2> TAKE v \in Workers
    <2>1. CASE v = w
      BY <1>4, <1>6, <2>1 DEF TypeOK
    <2>2. CASE v # w
      <3>1. worker'[v] = worker[v] /\ worker[v].job # j
        BY <1>3, <1>4, <2>2 DEF TypeOK
      <3> QED
        BY <1>7, <3>1, OthersStay
    <2> QED
      BY <2>1, <2>2
  <1>9. /\ QueuedJobs' = QueuedJobs /\ j \notin ReportedJobs
        /\ proc.st = "handling" => proc.job # j
    BY <1>3, <1>5 DEF QueuedJobs, HandledJobs
  <1>10. /\ \A k \in Jobs : phase'[k] \notin Launch => UntriedNext(k)
         /\ \A k \in QueuedJobs' \cup timers' : UntriedNext(k)
         /\ \A r \in Image(results') : TriedNext(r.job, r.ok)
         /\ proc'.st = "handling" => TriedNext(proc'.job, proc'.ok)
    BY <1>3, <1>5, <1>7, <1>9, OthersStay
  <1> QED
    BY <1>8, <1>10, FaithfulNext

(* Take, Report, WorkerExit, PickResult and the timers move jobs and leave *)
(* the counters alone.                                                     *)
LEMMA ListImages ==
    ASSUME NEW S, NEW q \in Seq(S)
    PROVE  /\ \A x \in S : Image(Append(q, x)) \subseteq Image(q) \cup {x}
           /\ q # <<>> => Head(q) \in Image(q) /\ Image(Tail(q)) \subseteq Image(q)
  <1>1. ASSUME NEW x \in S PROVE Image(Append(q, x)) \subseteq Image(q) \cup {x}
    <2> DEFINE g == Append(q, x)
    <2>1. /\ DOMAIN q = 1 .. Len(q) /\ Len(q) \in Nat
          /\ DOMAIN g = 1 .. Len(q) + 1 /\ g[Len(q) + 1] = x
          /\ \A i \in 1 .. Len(q) : g[i] = q[i]
      BY <1>1
    <2> HIDE DEF g
    <2>2. \A i \in DOMAIN g : i \in DOMAIN q \/ i = Len(q) + 1
      BY <2>1
    <2>3. Image(g) \subseteq Image(q) \cup {x}
      BY <2>1, <2>2 DEF Image
    <2> QED
      BY <2>3 DEF g
  <1>2. ASSUME q # <<>>
        PROVE  Head(q) \in Image(q) /\ Image(Tail(q)) \subseteq Image(q)
    <2>1. 1 \in DOMAIN q /\ Head(q) = q[1]
      BY <1>2
    <2>2. \A i \in DOMAIN Tail(q) : i + 1 \in DOMAIN q /\ Tail(q)[i] = q[i + 1]
      BY <1>2
    <2> QED
      BY <2>1, <2>2 DEF Image
  <1> QED
    BY <1>1, <1>2

LEMMA WorkerFaithful ==
    ASSUME TypeOK, Custody, Faithful, NEW w \in Workers,
           Take(w) \/ Report(w) \/ WorkerExit(w)
    PROVE  Faithful'
  <1>1. UNCHANGED Counters /\ UNCHANGED <<phase, proc, timers>>
    BY DEF Take, Report, WorkerExit, Counters, ghosts, jobVars
  <1>2. worker \in [Workers -> WorkerState]
    BY DEF TypeOK
  <1>3. \A v \in Workers : v # w => worker'[v] = worker[v]
    BY <1>2 DEF Take, Report, WorkerExit
  <1>4. \A k \in QueuedJobs' : Untried(k)
    <2>1. CASE Take(w)
      BY <2>1, TakeMoves DEF Faithful
    <2>2. CASE Report(w) \/ WorkerExit(w)
      BY <2>2 DEF Report, WorkerExit, QueuedJobs, Faithful
    <2> QED
      BY <2>1, <2>2
  <1>5. \A r \in Image(results') : Tried(r.job, r.ok)
    <2>1. CASE Report(w)
      <3> DEFINE x == [job |-> worker[w].job, ok |-> worker[w].ok]
      <3>1. Tried(x.job, x.ok)
        BY <2>1 DEF Report, Faithful
      <3>2. /\ x \in Result /\ results \in Seq(Result)
            /\ results' = Append(results, x)
        BY <2>1, ReportMoves DEF Report, Result, TypeOK, WorkerState
      <3> HIDE DEF x
      <3>3. Image(results') \subseteq Image(results) \cup {x}
        BY <3>2, ListImages
      <3> QED
        BY <3>1, <3>3 DEF Faithful
    <2>2. CASE Take(w) \/ WorkerExit(w)
      BY <2>2 DEF Take, WorkerExit, Faithful
    <2> QED
      BY <2>1, <2>2
  <1>6. \A v \in Workers :
          /\ worker'[v].st = "sending" => Untried(worker'[v].job)
          /\ worker'[v].st = "reporting" => Tried(worker'[v].job, worker'[v].ok)
    <2> TAKE v \in Workers
    <2>1. CASE v # w
      BY <1>3, <2>1 DEF Faithful
    <2>2. CASE v = w /\ Take(w)
      <3>1. Head(queue) \in QueuedJobs
        BY <2>2, TakeMoves
      <3>2. worker'[w] = [st |-> "sending", job |-> Head(queue), ok |-> FALSE]
        BY <1>2, <2>2 DEF Take
      <3> QED
        BY <2>2, <3>1, <3>2 DEF Faithful
    <2>3. CASE v = w /\ (Report(w) \/ WorkerExit(w))
      BY <1>2, <2>3 DEF Report, WorkerExit, Idle, Gone
    <2> QED
      BY <2>1, <2>2, <2>3
  <1>7. /\ \A k \in timers' : Untried(k)
        /\ proc'.st = "handling" => Tried(proc'.job, proc'.ok)
    BY <1>1 DEF Faithful
  <1> QED
    BY <1>1, <1>4, <1>5, <1>6, <1>7, FaithfulStays

LEMMA PickFaithful ==
    ASSUME TypeOK, Custody, Faithful, PickResult
    PROVE  Faithful'
  <1>1. /\ UNCHANGED Counters
        /\ UNCHANGED <<phase, queue, worker, timers>>
    BY DEF PickResult, Counters, jobVars
  <1>2. /\ results \in Seq(Result) /\ results # <<>> /\ results' = Tail(results)
    BY DEF PickResult, TypeOK
  <1>3. Head(results) \in Image(results) /\ Image(results') \subseteq Image(results)
    BY <1>2, ListImages
  <1>4. Tried(Head(results).job, Head(results).ok)
    BY <1>3 DEF Faithful
  <1>5. proc'.st = "handling" => Tried(proc'.job, proc'.ok)
    BY <1>4 DEF PickResult, Waiting
  <1>6. QueuedJobs' = QueuedJobs
    BY <1>1 DEF QueuedJobs
  <1> QED
    BY <1>1, <1>3, <1>5, <1>6, FaithfulStays DEF Faithful

LEMMA ProcFaithful ==
    ASSUME TypeOK, Custody, Faithful, ProcStep
    PROVE  Faithful'
  <1>1. CASE PickResult
    BY <1>1, PickFaithful
  <1>2. CASE CountSuccess \/ CountFailure \/ StartRetry
    <2>1. /\ UNCHANGED <<phase, queue, worker, results, attempts, delivered>>
          /\ proc.st = "handling" /\ proc'.st # "handling"
      BY <1>2 DEF CountSuccess, CountFailure, StartRetry, jobVars, ghosts,
           TypeOK, ProcState
    <2>2. PICK j \in Jobs : j = proc.job
      BY <2>1 DEF TypeOK, ProcState, JobOrNone
    <2>3. /\ j \notin QueuedJobs \cup timers \cup ReportedJobs \cup HeldJobs
          /\ phase[j] \in Launch
      BY <2>1, <2>2, EngineAssumption
         DEF Custody, PlacesApart, Launched, HandledJobs
    <2>4. \A k \in Jobs : k # j =>
            /\ outcome'[k] = outcome[k] /\ attempts'[k] = attempts[k]
            /\ retryCount'[k] = retryCount[k]
            /\ k \in delivered' <=> k \in delivered
      BY <1>2, <2>1, <2>2
         DEF CountSuccess, CountFailure, StartRetry, ghosts, TypeOK
    <2>5. \A w \in Workers :
             worker[w].st \in {"sending", "reporting"} => worker[w].job # j
      BY <2>2, <2>3, EngineAssumption DEF HeldJobs
    <2>6. \A k \in timers' : k \in timers \/ (k = j /\ UntriedNext(j))
      <3>1. CASE StartRetry
        <4>1. /\ timers' = timers \cup {j} /\ ~proc.ok
              /\ retryCount' = [retryCount EXCEPT ![j] = @ + 1]
              /\ UNCHANGED <<outcome, attempts, delivered>>
          BY <2>2, <3>1 DEF StartRetry, ghosts
        <4>2. Tried(j, FALSE)
          BY <2>1, <2>2, <4>1 DEF Faithful, TypeOK, ProcState
        <4>3. UntriedNext(j)
          BY <4>1, <4>2 DEF Tried, UntriedNext, TypeOK
        <4> QED
          BY <4>1, <4>3
      <3>2. CASE CountSuccess \/ CountFailure
        BY <3>2 DEF CountSuccess, CountFailure
      <3> QED
        BY <1>2, <3>1, <3>2
    <2>7. QueuedJobs' = QueuedJobs
      BY <2>1 DEF QueuedJobs
    <2> QED
      BY <2>1, <2>3, <2>4, <2>5, <2>6, <2>7, OthersStay, FaithfulNext
  <1>3. CASE RecordHistory \/ Forget \/ ProcEnd
    <2>1. /\ UNCHANGED Counters
          /\ UNCHANGED <<phase, queue, worker, timers, results>>
          /\ proc'.st # "handling"
      BY <1>3 DEF RecordHistory, Forget, ProcEnd, Counters, ghosts, jobVars,
           Waiting, Ended, TypeOK, ProcState
    <2>2. QueuedJobs' = QueuedJobs
      BY <2>1 DEF QueuedJobs
    <2> QED
      BY <2>1, <2>2, FaithfulStays DEF Faithful
  <1> QED
    BY <1>1, <1>2, <1>3 DEF ProcStep

LEMMA TimerFaithful ==
    ASSUME TypeOK, Custody, Faithful, NEW j \in Jobs, TimerStep(j)
    PROVE  Faithful'
  <1>1. /\ j \in timers /\ timers' \subseteq timers
        /\ QueuedJobs' \subseteq QueuedJobs \cup {j}
    BY TimerMoves
  <1>2. UNCHANGED Counters /\ UNCHANGED <<phase, worker, results, proc>>
    BY DEF TimerStep, RetryEnqueue, RetryPanics, Counters, ghosts, jobVars
  <1> QED
    BY <1>1, <1>2, FaithfulStays DEF Faithful

LEMMA FaithfulStep == TypeOK /\ Custody /\ Faithful /\ [Next]_vars => Faithful'
  <1> SUFFICES ASSUME TypeOK, Custody, Faithful, [Next]_vars PROVE Faithful'
    OBVIOUS
  <1>1. CASE Cancel \/ StopStep \/ Dead \/ UNCHANGED vars
    <2>1. UNCHANGED Counters
          /\ UNCHANGED <<phase, queue, worker, results, proc, timers>>
      BY <1>1 DEF Cancel, StopStep, CloseQueue, CloseResults, ExitGracefully,
           ExitForced, SetStage, Dead, vars, jobVars, ghosts, Counters
    <2>2. QueuedJobs' = QueuedJobs
      BY <2>1 DEF QueuedJobs
    <2> QED
      BY <2>1, <2>2, FaithfulStays DEF Faithful
  <1>2. ASSUME NEW w \in Workers, WorkerStep(w) PROVE Faithful'
    BY <1>2, SendFaithful, WorkerFaithful DEF WorkerStep
  <1> QED
    BY <1>1, <1>2, HandlerFaithful, TimerFaithful, ProcFaithful DEF Next

LEMMA FaithfulInvariant == Spec => []Faithful
  BY InitFaithful, FaithfulStep, CustodyInvariant, PTL DEF Spec

-----------------------------------------------------------------------------
(* The refinement.                                                         *)
Status == [j \in Jobs |-> JobStatus(j)]

LEMMA StatusValues ==
    ASSUME TypeOK, NEW j \in Jobs
    PROVE  /\ outcome[j] \in {"completed", "failed"} => Status[j] = outcome[j]
           /\ outcome[j] = "none" /\ phase[j] \in Launch => Status[j] = "pending"
           /\ outcome[j] = "none" /\ phase[j] \notin Launch =>
                Status[j] = "waiting"
  BY DEF Status, JobStatus, Launch

(* A step that changes the outcome and the phase of no job but j.          *)
LEMMA StatusChange ==
    ASSUME NEW j \in Jobs,
           \A k \in Jobs : k # j =>
             /\ outcome'[k] = outcome[k]
             /\ phase'[k] \in Launch <=> phase[k] \in Launch
    PROVE  Status' = [Status EXCEPT ![j] = Status'[j]]
  BY DEF Status, JobStatus, Launch

LEMMA StatusStays ==
    ASSUME outcome' = outcome,
           \A k \in Jobs : phase'[k] \in Launch <=> phase[k] \in Launch
    PROVE  Status' = Status
  BY DEF Status, JobStatus, Launch

LEMMA InitRefines == Init => Lifecycle!Init
  BY DEF Init, Lifecycle!Init, JobStatus

LEMMA EnqueueRefines ==
    ASSUME TypeOK, TypeOK', Custody, Faithful, NEW j \in Jobs, Enqueue(j)
    PROVE  Lifecycle!Next
  <1>1. /\ phase[j] \notin Launch /\ phase' = [phase EXCEPT ![j] = "counting"]
        /\ UNCHANGED <<outcome, attempts, delivered>>
    BY DEF Enqueue, SetPhase, Launch, ghosts
  <1>2. outcome[j] = "none"
    BY <1>1 DEF Faithful, Untried
  <1>3. phase'[j] \in Launch /\ outcome'[j] = "none"
    BY <1>1, <1>2 DEF TypeOK, Launch
  <1>4. Status[j] = "waiting" /\ Status'[j] = "pending"
    BY <1>1, <1>2, <1>3, StatusValues DEF Status, JobStatus, Launch
  <1>5. \A k \in Jobs : k # j =>
          /\ outcome'[k] = outcome[k]
          /\ phase'[k] \in Launch <=> phase[k] \in Launch
    BY <1>1 DEF TypeOK
  <1>6. Status' = [Status EXCEPT ![j] = "pending"]
    BY <1>4, <1>5, StatusChange
  <1>7. Lifecycle!Submit(j)
    BY <1>1, <1>4, <1>6 DEF Lifecycle!Submit, Status
  <1> QED
    BY <1>7 DEF Lifecycle!Next

LEMMA SendRefines ==
    ASSUME TypeOK, TypeOK', Custody, Faithful, NEW w \in Workers, Send(w)
    PROVE  Lifecycle!Next
  <1>1. PICK j \in Jobs : j = worker[w].job
    BY EngineAssumption DEF Send, TypeOK, WorkerState, JobOrNone
  <1>2. Untried(j) /\ phase[j] \in Launch
    BY <1>1, EngineAssumption
       DEF Send, Faithful, Custody, Launched, InFlight, HeldJobs
  <1>3. /\ attempts' = [attempts EXCEPT ![j] = @ + 1]
        /\ delivered' \in {delivered, delivered \cup {j}}
        /\ UNCHANGED <<outcome, phase>>
    BY <1>1 DEF Send, jobVars
  <1>4. Status[j] = "pending"
    BY <1>2, StatusValues DEF Untried
  <1>5. Status' = Status
    BY <1>3, StatusStays
  <1>6. attempts[j] < RetryAttempts + 1
    BY <1>2, EngineAssumption DEF Untried, TypeOK
  <1>7. Lifecycle!Try(j)
    BY <1>3, <1>4, <1>5, <1>6 DEF Lifecycle!Try, Status
  <1> QED
    BY <1>7 DEF Lifecycle!Next

LEMMA CountRefines ==
    ASSUME TypeOK, TypeOK', Custody, Faithful, CountSuccess \/ CountFailure
    PROVE  Lifecycle!Next
  <1>1. PICK j \in Jobs : j = proc.job
    BY DEF CountSuccess, CountFailure, TypeOK, ProcState, JobOrNone
  <1>2. Tried(j, proc.ok) /\ phase[j] \in Launch
    BY <1>1, EngineAssumption
       DEF CountSuccess, CountFailure, Faithful, Custody, Launched
  <1>3. Status[j] = "pending"
    BY <1>2, StatusValues DEF Tried
  <1>4. UNCHANGED <<attempts, delivered, phase>>
    BY DEF CountSuccess, CountFailure, jobVars
  <1>5. CASE CountSuccess
    <2>1. outcome' = [outcome EXCEPT ![j] = "completed"] /\ j \in delivered
      BY <1>1, <1>2, <1>5 DEF CountSuccess, Tried
    <2>2. Status'[j] = "completed"
      BY <2>1 DEF TypeOK, Status, JobStatus
    <2>3. Status' = [Status EXCEPT ![j] = "completed"]
      BY <1>4, <2>1, <2>2, StatusChange DEF TypeOK
    <2>4. Lifecycle!Complete(j)
      BY <1>3, <1>4, <2>1, <2>3 DEF Lifecycle!Complete, Status
    <2> QED
      BY <2>4 DEF Lifecycle!Next
  <1>6. CASE CountFailure
    <2>1. /\ outcome' = [outcome EXCEPT ![j] = "failed"] /\ j \notin delivered
          /\ attempts[j] = RetryAttempts + 1
      BY <1>1, <1>2, <1>6, EngineAssumption DEF CountFailure, Tried, TypeOK
    <2>2. Status'[j] = "failed"
      BY <2>1 DEF TypeOK, Status, JobStatus
    <2>3. Status' = [Status EXCEPT ![j] = "failed"]
      BY <1>4, <2>1, <2>2, StatusChange DEF TypeOK
    <2>4. Lifecycle!Fail(j)
      BY <1>3, <1>4, <2>1, <2>3 DEF Lifecycle!Fail, Status
    <2> QED
      BY <2>4 DEF Lifecycle!Next
  <1> QED
    BY <1>5, <1>6

LEMMA HandlerRefines ==
    ASSUME TypeOK, TypeOK', Custody, Faithful, NEW j \in Jobs,
           HandlerStarts(j) \/ HandlerStep(j)
    PROVE  [Lifecycle!Next]_(Lifecycle!vars)
  <1>1. CASE ~Enqueue(j)
    <2>1. UNCHANGED <<outcome, attempts, delivered>>
      BY <1>1 DEF HandlerStarts, HandlerStep, RateLimited, Register,
           ScheduleInRedis, ScheduleInPostgres, Store, CountTotal, QueueFull,
           RemoveRefused, SendOnClosedQueue, ghosts
    <2>2. \A k \in Jobs : phase'[k] \in Launch <=> phase[k] \in Launch
      BY <1>1 DEF HandlerStarts, HandlerStep, RateLimited, Register,
           ScheduleInRedis, ScheduleInPostgres, Store, CountTotal, QueueFull,
           RemoveRefused, SendOnClosedQueue, SetPhase, Launch, TypeOK
    <2>3. Status' = Status
      BY <2>1, <2>2, StatusStays
    <2> QED
      BY <2>1, <2>3 DEF Lifecycle!vars, Status
  <1> QED
    BY <1>1, EnqueueRefines

LEMMA StepRefines ==
    TypeOK /\ TypeOK' /\ Custody /\ Faithful /\ [Next]_vars
      => [Lifecycle!Next]_(Lifecycle!vars)
  <1> SUFFICES ASSUME TypeOK, TypeOK', Custody, Faithful, [Next]_vars
               PROVE  [Lifecycle!Next]_(Lifecycle!vars)
    OBVIOUS
  <1>1. ASSUME UNCHANGED <<outcome, attempts, delivered, phase>>
        PROVE  UNCHANGED Lifecycle!vars
    BY <1>1, StatusStays DEF Lifecycle!vars, Status
  <1>2. ASSUME NEW j \in Jobs, HandlerStarts(j) \/ HandlerStep(j)
        PROVE  [Lifecycle!Next]_(Lifecycle!vars)
    BY <1>2, HandlerRefines
  <1>3. ASSUME NEW j \in Jobs, TimerStep(j) PROVE UNCHANGED Lifecycle!vars
    BY <1>1, <1>3 DEF TimerStep, RetryEnqueue, RetryPanics, ghosts, jobVars
  <1>4. ASSUME NEW w \in Workers, WorkerStep(w)
        PROVE  [Lifecycle!Next]_(Lifecycle!vars)
    <2>1. CASE Send(w)
      BY <2>1, SendRefines
    <2>2. CASE Take(w) \/ Report(w) \/ WorkerExit(w)
      BY <1>1, <2>2 DEF Take, Report, WorkerExit, ghosts, jobVars
    <2> QED
      BY <1>4, <2>1, <2>2 DEF WorkerStep
  <1>5. CASE ProcStep
    <2>1. CASE CountSuccess \/ CountFailure
      BY <2>1, CountRefines
    <2>2. CASE \/ PickResult    \/ StartRetry
               \/ RecordHistory \/ Forget \/ ProcEnd
      BY <1>1, <2>2 DEF PickResult, StartRetry, RecordHistory, Forget, ProcEnd,
           ghosts, jobVars
    <2> QED
      BY <1>5, <2>1, <2>2 DEF ProcStep
  <1>6. CASE Cancel \/ StopStep \/ Dead \/ UNCHANGED vars
    BY <1>1, <1>6 DEF Cancel, StopStep, CloseQueue, CloseResults,
         ExitGracefully, ExitForced, SetStage, Dead, vars, ghosts, jobVars
  <1> QED
    BY <1>2, <1>3, <1>4, <1>5, <1>6 DEF Next

(* The engine implements the life of a job stated in JobLifecycle: at most *)
(* RetryAttempts + 1 provider calls, one verdict, "completed" only for a   *)
(* job a provider took, "failed" only after the last try (dispatcher.go:   *)
(* 128-212, worker.go:43-110).                                             *)
THEOREM EngineImplementsLifecycle == Spec => ImplementsLifecycle
  <1>1. Spec => [](TypeOK /\ Custody /\ Faithful)
    BY CustodyInvariant, FaithfulInvariant, PTL
  <1> QED
    BY <1>1, InitRefines, StepRefines, PTL
       DEF Spec, ImplementsLifecycle, Lifecycle!Spec

-----------------------------------------------------------------------------
(* A job the metrics have counted is in none of the places where its       *)
(* counters could still change.                                            *)
Kept(j) ==
    /\ attempts'[j] = attempts[j] /\ outcome'[j] = outcome[j]
    /\ j \in delivered' <=> j \in delivered

LEMMA ConcludedStep ==
    ASSUME TypeOK, Custody, Faithful, [Next]_vars, NEW j \in Jobs,
           outcome[j] # "none"
    PROVE  Kept(j)
  <1>1. ASSUME NEW w \in Workers, Send(w)
        PROVE  Kept(j)
    <2>1. worker[w].job \in Jobs /\ worker[w].job # j
      BY <1>1, EngineAssumption
         DEF Send, Faithful, Untried, TypeOK, WorkerState, JobOrNone
    <2> QED
      BY <1>1, <2>1 DEF Send, TypeOK, Kept
  <1>2. CASE CountSuccess \/ CountFailure
    <2>1. proc.job \in Jobs /\ proc.job # j
      BY <1>2 DEF CountSuccess, CountFailure, Faithful, Tried, TypeOK,
           ProcState, JobOrNone
    <2> QED
      BY <1>2, <2>1 DEF CountSuccess, CountFailure, TypeOK, Kept
  <1>3. CASE UNCHANGED <<attempts, outcome, delivered>>
    BY <1>3 DEF Kept
  <1>4. ASSUME NEW k \in Jobs, HandlerStarts(k) \/ HandlerStep(k) \/ TimerStep(k)
        PROVE  UNCHANGED <<attempts, outcome, delivered>>
    BY <1>4 DEF HandlerStarts, HandlerStep, RateLimited, Register,
         ScheduleInRedis, ScheduleInPostgres, Store, Enqueue, CountTotal,
         QueueFull, RemoveRefused, SendOnClosedQueue, TimerStep, RetryEnqueue,
         RetryPanics, ghosts
  <1>5. ASSUME NEW w \in Workers, Take(w) \/ Report(w) \/ WorkerExit(w)
        PROVE  UNCHANGED <<attempts, outcome, delivered>>
    BY <1>5 DEF Take, Report, WorkerExit, ghosts
  <1>6. CASE \/ PickResult    \/ StartRetry
             \/ RecordHistory \/ Forget \/ ProcEnd
    BY <1>3, <1>6 DEF PickResult, StartRetry, RecordHistory, Forget, ProcEnd,
         ghosts
  <1>7. CASE Cancel \/ StopStep \/ Dead \/ UNCHANGED vars
    BY <1>3, <1>7 DEF Cancel, StopStep, CloseQueue, CloseResults,
         ExitGracefully, ExitForced, SetStage, Dead, vars, ghosts
  <1> QED
    BY <1>1, <1>2, <1>3, <1>4, <1>5, <1>6, <1>7 DEF Next, WorkerStep, ProcStep

(* Once a job is counted as completed or failed no provider is called for  *)
(* it again and the verdict stays (dispatcher.go:182-212).                 *)
THEOREM VerdictIsFinal == Spec => ConcludedForGood
  <1>1. Spec => [](TypeOK /\ Custody /\ Faithful)
    BY CustodyInvariant, FaithfulInvariant, PTL
  <1>2. TypeOK /\ Custody /\ Faithful /\ [Next]_vars =>
          [\A j \in Jobs : outcome[j] # "none" =>
             attempts'[j] = attempts[j] /\ outcome'[j] = outcome[j]]_vars
    BY ConcludedStep DEF Kept
  <1> QED
    BY <1>1, <1>2, PTL DEF Spec, ConcludedForGood

(* Between the count and the INSERT processResults knows the verdict.      *)
Verdict(ok) == IF ok THEN "completed" ELSE "failed"

Recorded ==
    /\ HistoryTruthful
    /\ proc.st = "recording" =>
         /\ outcome[proc.job] = Verdict(proc.ok)
         /\ proc.ok <=> proc.job \in delivered

LEMMA RecordedStep ==
    TypeOK /\ Custody /\ Faithful /\ Recorded /\ [Next]_vars => Recorded'
  <1> SUFFICES ASSUME TypeOK, Custody, Faithful, Recorded, [Next]_vars
               PROVE  Recorded'
    OBVIOUS
  <1>1. \A j \in Jobs : outcome[j] # "none" => Kept(j)
    BY ConcludedStep
  <1>2. \A row \in history :
          /\ row[1] \in Jobs /\ outcome[row[1]] # "none"
          /\ outcome'[row[1]] = row[2]
          /\ row[2] = "completed" <=> row[1] \in delivered'
    <2> TAKE row \in history
    <2>1. row[1] \in Jobs /\ outcome[row[1]] # "none"
      BY DEF TypeOK, Recorded, HistoryTruthful
    <2> QED
      BY <1>1, <2>1 DEF Recorded, HistoryTruthful, Kept
  <1>3. CASE history' = history /\ proc'.st # "recording"
    BY <1>2, <1>3 DEF Recorded, HistoryTruthful
  <1>4. CASE history' = history /\ proc' = proc
    <2>1. proc.st = "recording" => proc.job \in Jobs /\ outcome[proc.job] # "none"
      BY DEF TypeOK, ProcState, JobOrNone, Recorded, Verdict
    <2> QED
      BY <1>1, <1>2, <1>4, <2>1 DEF Recorded, HistoryTruthful, Kept
  <1>5. CASE CountSuccess \/ CountFailure
    <2>1. /\ proc.job \in Jobs /\ history' = history /\ delivered' = delivered
          /\ proc'.job = proc.job /\ proc'.ok = proc.ok
          /\ outcome' = [outcome EXCEPT ![proc.job] = Verdict(proc.ok)]
      BY <1>5 DEF CountSuccess, CountFailure, TypeOK, ProcState, JobOrNone,
           Verdict
    <2>2. proc.ok <=> proc.job \in delivered
      BY <1>5 DEF CountSuccess, CountFailure, Faithful, Tried
    <2>3. outcome'[proc.job] = Verdict(proc.ok)
      BY <2>1 DEF TypeOK
    <2> QED
      BY <1>2, <2>1, <2>2, <2>3 DEF Recorded, HistoryTruthful
  <1>6. CASE RecordHistory
    <2>1. /\ proc.job \in Jobs /\ proc'.st # "recording"
          /\ history' \subseteq history \cup {<<proc.job, Verdict(proc.ok)>>}
          /\ UNCHANGED <<outcome, delivered>>
      BY <1>6 DEF RecordHistory, TypeOK, ProcState, JobOrNone, Verdict, ghosts
    <2>2. /\ outcome[proc.job] = Verdict(proc.ok)
          /\ proc.ok <=> proc.job \in delivered
          /\ proc.ok \in BOOLEAN
      BY <1>6 DEF RecordHistory, Recorded, TypeOK, ProcState
    <2> QED
      BY <1>2, <2>1, <2>2 DEF Recorded, HistoryTruthful, Verdict
  <1>7. ASSUME NEW j \in Jobs, HandlerStarts(j) \/ HandlerStep(j) \/ TimerStep(j)
        PROVE  history' = history /\ proc' = proc
    BY <1>7 DEF HandlerStarts, HandlerStep, RateLimited, Register,
         ScheduleInRedis, ScheduleInPostgres, Store, Enqueue, CountTotal,
         QueueFull, RemoveRefused, SendOnClosedQueue, TimerStep, RetryEnqueue,
         RetryPanics, records
  <1>8. ASSUME NEW w \in Workers, WorkerStep(w)
        PROVE  history' = history /\ proc' = proc
    BY <1>8 DEF WorkerStep, Take, Send, Report, WorkerExit, records
  <1>9. CASE PickResult \/ StartRetry \/ Forget \/ ProcEnd
    <2>1. history' = history /\ proc'.st # "recording"
      BY <1>9 DEF PickResult, StartRetry, Forget, ProcEnd, records, Waiting,
           Ended, TypeOK, ProcState
    <2> QED
      BY <1>3, <2>1
  <1>10. CASE Cancel \/ StopStep \/ Dead \/ UNCHANGED vars
    BY <1>4, <1>10 DEF Cancel, StopStep, CloseQueue, CloseResults,
         ExitGracefully, ExitForced, SetStage, Dead, vars, records
  <1> QED
    BY <1>4, <1>5, <1>6, <1>7, <1>8, <1>9, <1>10 DEF Next, ProcStep

(* A job_history row tells what happened: the counted outcome, "completed" *)
(* if and only if a provider took the job (dispatcher.go:186-208, 244-249).*)
THEOREM HistoryIsTrue == Spec => []HistoryTruthful
  <1>1. Init => Recorded
    BY DEF Init, Recorded, HistoryTruthful, Waiting
  <1>2. Spec => []Recorded
    BY <1>1, RecordedStep, CustodyInvariant, FaithfulInvariant, PTL DEF Spec
  <1> QED
    BY <1>2, PTL DEF Recorded

-----------------------------------------------------------------------------
(* The counters of metrics are the sizes of three sets of jobs, each of    *)
(* which only grows, by one job at a time.                                 *)
Accepted     == {j \in Jobs : phase[j] = "accepted"}
Concluded(o) == {j \in Jobs : outcome[j] = o}

Counts(n, S) == IsFiniteSet(S) /\ n = Cardinality(S)

Counted ==
    /\ Counts(metrics.total, Accepted)
    /\ Counts(metrics.success, Concluded("completed"))
    /\ Counts(metrics.failed, Concluded("failed"))

LEMMA OneMoreCounted ==
    ASSUME NEW n, NEW S, NEW x, Counts(n, S), x \notin S
    PROVE  Counts(n + 1, S \cup {x})
  BY FS_AddElement DEF Counts

LEMMA InitCounted == Init => Counted
  <1> SUFFICES ASSUME Init PROVE Counted
    OBVIOUS
  <1>1. Accepted = {} /\ Concluded("completed") = {} /\ Concluded("failed") = {}
    BY DEF Init, Accepted, Concluded
  <1>2. metrics.total = 0 /\ metrics.success = 0 /\ metrics.failed = 0
    BY DEF Init
  <1> QED
    BY <1>1, <1>2, FS_EmptySet DEF Counted, Counts

LEMMA CountedStays ==
    ASSUME Counted, UNCHANGED <<metrics, outcome>>,
           \A j \in Jobs : phase'[j] = "accepted" <=> phase[j] = "accepted"
    PROVE  Counted'
  <1>1. Accepted' = Accepted
    BY DEF Accepted
  <1>2. \A o : Concluded(o)' = Concluded(o)
    BY DEF Concluded
  <1> QED
    BY <1>1, <1>2 DEF Counted

LEMMA CountTotalCounted ==
    ASSUME TypeOK, Counted, NEW j \in Jobs, CountTotal(j)
    PROVE  Counted'
  <1>1. /\ metrics'.total = metrics.total + 1
        /\ metrics'.success = metrics.success /\ metrics'.failed = metrics.failed
        /\ outcome' = outcome
    BY DEF CountTotal, TypeOK, ghosts
  <1>2. phase[j] = "counting" /\ phase' = [phase EXCEPT ![j] = "accepted"]
    BY DEF CountTotal, SetPhase
  <1>3. j \notin Accepted /\ Accepted' = Accepted \cup {j}
    BY <1>2 DEF Accepted, TypeOK
  <1>4. \A o : Concluded(o)' = Concluded(o)
    BY <1>1 DEF Concluded
  <1>5. Counts(metrics'.total, Accepted')
    BY <1>1, <1>3, OneMoreCounted DEF Counted
  <1> QED
    BY <1>1, <1>4, <1>5 DEF Counted

LEMMA VerdictCounted ==
    ASSUME TypeOK, Faithful, Counted, CountSuccess \/ CountFailure
    PROVE  Counted'
  <1>1. proc.job \in Jobs /\ outcome[proc.job] = "none" /\ phase' = phase
    BY DEF CountSuccess, CountFailure, TypeOK, ProcState, JobOrNone, Faithful,
         Tried, jobVars
  <1>2. Accepted' = Accepted
    BY <1>1 DEF Accepted
  <1>3. CASE CountSuccess
    <2>1. /\ metrics'.success = metrics.success + 1
          /\ metrics'.total = metrics.total /\ metrics'.failed = metrics.failed
          /\ outcome' = [outcome EXCEPT ![proc.job] = "completed"]
      BY <1>3 DEF CountSuccess, TypeOK
    <2>2. /\ proc.job \notin Concluded("completed")
          /\ Concluded("completed")' = Concluded("completed") \cup {proc.job}
          /\ Concluded("failed")' = Concluded("failed")
      BY <1>1, <2>1 DEF Concluded, TypeOK
    <2>3. Counts(metrics'.success, Concluded("completed")')
      BY <2>1, <2>2, OneMoreCounted DEF Counted
    <2> QED
      BY <1>2, <2>1, <2>2, <2>3 DEF Counted
  <1>4. CASE CountFailure
    <2>1. /\ metrics'.failed = metrics.failed + 1
          /\ metrics'.total = metrics.total /\ metrics'.success = metrics.success
          /\ outcome' = [outcome EXCEPT ![proc.job] = "failed"]
      BY <1>4 DEF CountFailure, TypeOK
    <2>2. /\ proc.job \notin Concluded("failed")
          /\ Concluded("failed")' = Concluded("failed") \cup {proc.job}
          /\ Concluded("completed")' = Concluded("completed")
      BY <1>1, <2>1 DEF Concluded, TypeOK
    <2>3. Counts(metrics'.failed, Concluded("failed")')
      BY <2>1, <2>2, OneMoreCounted DEF Counted
    <2> QED
      BY <1>2, <2>1, <2>2, <2>3 DEF Counted
  <1> QED
    BY <1>3, <1>4

LEMMA CountedStep ==
    TypeOK /\ Faithful /\ Counted /\ [Next]_vars => Counted'
  <1> SUFFICES ASSUME TypeOK, Faithful, Counted, [Next]_vars PROVE Counted'
    OBVIOUS
  <1>1. ASSUME NEW j \in Jobs, HandlerStarts(j) \/ HandlerStep(j), ~CountTotal(j)
        PROVE  Counted'
    <2>1. UNCHANGED <<metrics, outcome>>
      BY <1>1 DEF HandlerStarts, HandlerStep, RateLimited, Register,
           ScheduleInRedis, ScheduleInPostgres, Store, Enqueue, QueueFull,
           RemoveRefused, SendOnClosedQueue, records, ghosts
    <2>2. \A k \in Jobs : phase'[k] = "accepted" <=> phase[k] = "accepted"
      BY <1>1 DEF HandlerStarts, HandlerStep, RateLimited, Register,
           ScheduleInRedis, ScheduleInPostgres, Store, Enqueue, QueueFull,
           RemoveRefused, SendOnClosedQueue, SetPhase, TypeOK
    <2> QED
      BY <2>1, <2>2, CountedStays
  <1>2. ASSUME NEW j \in Jobs, TimerStep(j) PROVE Counted'
    BY <1>2, CountedStays
       DEF TimerStep, RetryEnqueue, RetryPanics, jobVars, records, ghosts
  <1>3. ASSUME NEW w \in Workers, WorkerStep(w) PROVE Counted'
    BY <1>3, CountedStays
       DEF WorkerStep, Take, Send, Report, WorkerExit, jobVars, records, ghosts
  <1>4. CASE \/ PickResult    \/ StartRetry
             \/ RecordHistory \/ Forget \/ ProcEnd
    BY <1>4, CountedStays DEF PickResult, StartRetry, RecordHistory, Forget,
         ProcEnd, jobVars, records, ghosts
  <1>5. CASE Cancel \/ StopStep \/ Dead \/ UNCHANGED vars
    BY <1>5, CountedStays DEF Cancel, StopStep, CloseQueue, CloseResults,
         ExitGracefully, ExitForced, SetStage, Dead, vars, jobVars, records,
         ghosts
  <1> QED
    BY <1>1, <1>2, <1>3, <1>4, <1>5, CountTotalCounted, VerdictCounted
       DEF Next, ProcStep

(* TotalJobs counts each job Dispatch has accepted once, however often it  *)
(* is retried, SuccessJobs and FailedJobs count no job twice, and none     *)
(* that was not queued (dispatcher.go:151-154, 186-208).                   *)
THEOREM MetricsAddUp == Spec => []CountersAddUp
  <1>1. Spec => []Counted
    BY InitCounted, CountedStep, CustodyInvariant, FaithfulInvariant, PTL
       DEF Spec
  <1>2. Counted /\ Faithful => CountersAddUp
    BY DEF Counted, Counts, Accepted, Concluded, Faithful, Untried, Launch,
         CountersAddUp
  <1> QED
    BY <1>1, <1>2, FaithfulInvariant, PTL

=============================================================================
