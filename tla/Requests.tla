------------------------------ MODULE Requests ------------------------------
(***************************************************************************)
(* The dispatch, batch and scheduled handlers (main.go, and their second   *)
(* version in api/handler.go) over the rendering of templates: the file    *)
(* half of TemplateManager, the TemplateEngine it falls back to, and the   *)
(* two caches of parsed files.  Requests run beside each other and beside  *)
(* deployments of template files and the hourly cleanups.                  *)
(*                                                                         *)
(* A template is the set of data parts without which its execution fails;  *)
(* what it can do without it shows when it is given.  The request's map    *)
(* holds "user" and "app" or not; "now" is added by the manager only.      *)
(***************************************************************************)
EXTENDS Naturals

CONSTANTS Rs,        \* concurrent requests
          Serves,    \* [Rs -> SUBSET Kinds]: the handlers a request may reach
          Bodies,    \* what the data map of an entry may hold
          Names,     \* actions, which name the template files
          Demands,   \* what templates may demand: a set of sets of parts
          MaxBatch   \* bound on the entries of a batch

Kinds == [call : {"dispatch", "scheduled", "batch"}, side : {"main", "api"}]
Parts == {"user", "app", "now"}
NoTemplate == {"none"}       \* a missing file, an empty place in a cache
Garbage == {"garbage"}       \* a file that does not parse
NoMail == {"no mail"}        \* no execution has succeeded for the entry

ASSUME RequestsAssumption ==
    /\ Serves \in [Rs -> SUBSET Kinds]
    /\ Bodies \subseteq SUBSET {"user", "app"}
    /\ Demands \subseteq SUBSET Parts
    /\ MaxBatch \in Nat \ {0}

VARIABLES
    file,       \* [Names -> Files]: templates/<action>.html
    fileCache,  \* [Names -> Cached]: TemplateManager.fileCache
    engCache,   \* [Names -> Cached]: TemplateEngine.cache
    kind,       \* [Rs -> Kinds]: which handler serves the request
    pc,         \* [Rs -> Steps]
    size,       \* [Rs -> 1 .. MaxBatch]: len(req.Jobs)
    at,         \* the entry being worked on, then the job being dispatched
    name,       \* [Rs -> Names]: the entry's action
    data,       \* [Rs -> SUBSET Parts]: what is left in the entry's map
    tmpl,       \* [Rs -> Cached]: a parsed template not executed yet
    jobs,       \* [Rs -> [1 .. MaxBatch -> 0 .. MaxBatch]]: the entry each
                \* element of the jobs slice is for, 0 for nil
    njobs,      \* [Rs -> 0 .. MaxBatch]: len(jobs)
    result,     \* [Rs -> [1 .. MaxBatch -> Results]]: the results slice
    status,     \* [Rs -> Codes]: the answer, 0 before there is one
    closed,     \* Stop has closed the engine's queue
    given,      \* observation: what the entry's map held at first
    shown,      \* observation: the parts the entry's mail shows
    failures,   \* observation: who has failed to execute a template for it
    byManager,  \* observation: the manager rendered the entry's mail
    healthy,    \* observation: the entry's file has been free of demands
                \* ever since the entry was begun
    skipped,    \* observation: entries left without a job
    taken       \* observation: entries whose job the engine has accepted

caches == <<fileCache, engCache>>
rendering == <<data, tmpl, shown, failures, byManager>>
entry == <<name, given, rendering, healthy>>
outcome == <<jobs, njobs, result, skipped>>
vars == <<file, caches, kind, pc, size, at, entry, outcome, status, taken,
          closed>>

Cached == Demands \cup {NoTemplate}
Files == Cached \cup {Garbage}
Results == {"none", "queued", "template", "user", "failed"}
Codes == {0, 202, 404, 500, 503}
Executors == {"manager", "engine"}
RenderSteps == {"custom", "fileLook", "fileMiss", "fileParse", "fileStore",
                "engLook", "engParse", "engStore"}
Steps == {"idle", "entry", "user", "add", "queue", "answered"} \cup RenderSteps

Nowhere == [i \in 1 .. MaxBatch |-> 0]
NoResults == [i \in 1 .. MaxBatch |-> "none"]

Init ==
    /\ file \in [Names -> Files]
    /\ fileCache = [n \in Names |-> NoTemplate]
    /\ engCache = [n \in Names |-> NoTemplate]
    /\ kind = [r \in Rs |-> [call |-> "dispatch", side |-> "main"]]
    /\ pc = [r \in Rs |-> "idle"]
    /\ size = [r \in Rs |-> 1]
    /\ at = [r \in Rs |-> 1]
    /\ name \in [Rs -> Names]
    /\ data = [r \in Rs |-> {}]
    /\ tmpl = [r \in Rs |-> NoTemplate]
    /\ jobs = [r \in Rs |-> Nowhere]
    /\ njobs = [r \in Rs |-> 0]
    /\ result = [r \in Rs |-> NoResults]
    /\ status = [r \in Rs |-> 0]
    /\ given = [r \in Rs |-> {}]
    /\ shown = [r \in Rs |-> NoMail]
    /\ failures = [r \in Rs |-> {}]
    /\ byManager = [r \in Rs |-> FALSE]
    /\ healthy = [r \in Rs |-> FALSE]
    /\ skipped = [r \in Rs |-> {}]
    /\ taken = [r \in Rs |-> {}]
    /\ closed = FALSE

-----------------------------------------------------------------------------
(* The handlers.                                                           *)

To(r, step) == pc' = [pc EXCEPT ![r] = step]

(* ShouldBindJSON has accepted the body of a request.                      *)
Begin(r) ==
    /\ pc[r] = "idle"
    /\ \E k \in Serves[r], n \in 1 .. MaxBatch :
         /\ k.call # "batch" => n = 1
         /\ kind' = [kind EXCEPT ![r] = k]
         /\ size' = [size EXCEPT ![r] = n]
    /\ To(r, "entry")
    /\ UNCHANGED <<file, closed, caches, at, entry, outcome, status, taken>>

Sound(f) == f = {}

(* An entry of the request: main.go renders first, api/handler.go looks    *)
(* the user up first.                                                      *)
Entry(r) ==
    /\ pc[r] = "entry"
    /\ \E n \in Names, d \in Bodies :
         /\ name' = [name EXCEPT ![r] = n]
         /\ data' = [data EXCEPT ![r] = d]
         /\ given' = [given EXCEPT ![r] = d]
         /\ healthy' = [healthy EXCEPT ![r] = Sound(file[n])]
    /\ To(r, IF kind[r].side = "main" THEN "custom" ELSE "user")
    /\ UNCHANGED <<file, closed, caches, kind, size, at, tmpl, shown, failures,
                   byManager, outcome, status, taken>>

(* Mutant of NextEntry: one entry too many.                                *)
NextEntryPast(r) ==
    IF at[r] > size[r]
    THEN /\ at' = [at EXCEPT ![r] = 1]
         /\ To(r, "queue")
    ELSE /\ at' = [at EXCEPT ![r] = @ + 1]
         /\ To(r, "entry")

(* After the last entry BatchDispatch, or the one Dispatch, begins.        *)
NextEntry(r) ==
    IF at[r] = size[r]
    THEN /\ at' = [at EXCEPT ![r] = 1]
         /\ To(r, "queue")
    ELSE /\ at' = [at EXCEPT ![r] = @ + 1]
         /\ To(r, "entry")

(* The entry is behind the handler.                                        *)
LeaveEntry(r) ==
    /\ data' = [data EXCEPT ![r] = {}]
    /\ tmpl' = [tmpl EXCEPT ![r] = NoTemplate]
    /\ given' = [given EXCEPT ![r] = {}]
    /\ shown' = [shown EXCEPT ![r] = NoMail]
    /\ failures' = [failures EXCEPT ![r] = {}]
    /\ byManager' = [byManager EXCEPT ![r] = FALSE]
    /\ healthy' = [healthy EXCEPT ![r] = FALSE]
    /\ UNCHANGED name

AddJob(r) ==
    /\ jobs' = [jobs EXCEPT ![r][njobs[r] + 1] = at[r]]
    /\ njobs' = [njobs EXCEPT ![r] = @ + 1]
    /\ result' = [result EXCEPT ![r][at[r]] = "queued"]
    /\ NextEntry(r)
    /\ LeaveEntry(r)
    /\ UNCHANGED <<skipped, status>>

(* An entry without template or user: the answer of a single request, a    *)
(* nil left in the slice of main.go's batch, no job at all in api's.       *)
FailEntry(r, why) ==
    /\ result' = [result EXCEPT ![r][at[r]] = why]
    /\ skipped' = [skipped EXCEPT ![r] = @ \cup {at[r]}]
    /\ njobs' = [njobs EXCEPT ![r] =
                   IF kind[r].side = "main" THEN @ + 1 ELSE @]
    /\ IF kind[r].call = "batch"
       THEN NextEntry(r) /\ UNCHANGED status
       ELSE /\ status' = [status EXCEPT ![r] =
                            IF why = "user" THEN 404 ELSE 500]
            /\ To(r, "answered")
            /\ UNCHANGED at
    /\ LeaveEntry(r)
    /\ UNCHANGED jobs

(* GetUserEmail finds an active user, or not, or fails.                    *)
FindUser(r) ==
    /\ pc[r] = "user"
    /\ \/ FailEntry(r, "user")
       \/ IF kind[r].side = "main"
          THEN AddJob(r)
          ELSE To(r, "custom") /\ UNCHANGED <<at, entry, outcome, status>>
    /\ UNCHANGED <<file, closed, caches, kind, size, taken>>

(* api/handler.go has both now.                                            *)
HaveMail(r) ==
    /\ pc[r] = "add"
    /\ AddJob(r)
    /\ UNCHANGED <<file, closed, caches, kind, size, taken>>

-----------------------------------------------------------------------------
(* Rendering: ProcessTemplate, and ProcessTemplateFile if it fails.        *)

Move(r, step) == To(r, step) /\ UNCHANGED <<at, outcome, status>>

(* prepareData of the manager: a map with the user, the time and the rest. *)
(* "user" is taken out of the request's own map; "app" stays in it and is  *)
(* not handed on as the template's App.                                    *)
ManagerParts(r) == (data[r] \cap {"user"}) \cup {"now"}

(* Mutant of ManagerTakes: both are taken out, one is handed on.           *)
ManagerTakesBoth == {"user", "app"}

ManagerTakes == {"user"}

(* prepareData of the TemplateEngine: a struct without "now".              *)
EngineParts(r) == data[r] \cap {"user", "app"}
EngineTakes == {"user", "app"}

(* tmpl.Execute succeeds with the given parts: a mail.                     *)
Render(r, t, parts, takes, manager) ==
    /\ t \subseteq parts
    /\ data' = [data EXCEPT ![r] = @ \ takes]
    /\ tmpl' = [tmpl EXCEPT ![r] = NoTemplate]
    /\ shown' = [shown EXCEPT ![r] = parts \cap given[r]]
    /\ byManager' = [byManager EXCEPT ![r] = manager]
    /\ Move(r, IF kind[r].side = "main" THEN "user" ELSE "add")
    /\ UNCHANGED <<name, given, failures, healthy>>

(* It fails: the parts are gone from the map all the same.                 *)
Stumble(r, t, parts, takes, who, step) ==
    /\ ~ t \subseteq parts
    /\ data' = [data EXCEPT ![r] = @ \ takes]
    /\ tmpl' = [tmpl EXCEPT ![r] = NoTemplate]
    /\ failures' = [failures EXCEPT ![r] = @ \cup {who}]
    /\ Move(r, step)
    /\ UNCHANGED <<name, given, shown, byManager, healthy>>

Hold(r, t) ==
    /\ tmpl' = [tmpl EXCEPT ![r] = t]
    /\ UNCHANGED <<data, shown, failures, byManager, name, given, healthy>>

(* RenderTemplate; ProcessTemplateFile comes next when it fails.           *)
ByManager(r, t) ==
    \/ Render(r, t, ManagerParts(r), ManagerTakes, TRUE)
    \/ Stumble(r, t, ManagerParts(r), ManagerTakes, "manager", "engLook")

(* getFromDB (see TemplateStore) has a template that parses, or nothing.   *)
Custom(r) ==
    /\ pc[r] = "custom"
    /\ \/ \E t \in Demands : ByManager(r, t)
       \/ Move(r, "fileLook") /\ UNCHANGED entry
    /\ UNCHANGED <<file, closed, caches, kind, size, taken>>

(* getFromFile: the entry of fileCache is never compared with the file.    *)
FileLook(r) ==
    /\ pc[r] = "fileLook"
    /\ LET t == fileCache[name[r]] IN
         IF t # NoTemplate
         THEN ByManager(r, t)
         ELSE Move(r, "fileMiss") /\ UNCHANGED entry
    /\ UNCHANGED <<file, closed, caches, kind, size, taken>>

(* GetFileTemplate: the engine's cache first, then ParseFiles.  It does    *)
(* not fill the engine's cache.                                            *)
FileMiss(r) ==
    /\ pc[r] = "fileMiss"
    /\ LET t == engCache[name[r]] IN
         IF t # NoTemplate
         THEN Hold(r, t) /\ Move(r, "fileStore")
         ELSE UNCHANGED entry /\ Move(r, "fileParse")
    /\ UNCHANGED <<file, closed, caches, kind, size, taken>>

FileParse(r) ==
    /\ pc[r] = "fileParse"
    /\ LET f == file[name[r]] IN
         IF f \in Demands
         THEN Hold(r, f) /\ Move(r, "fileStore")
         ELSE UNCHANGED entry /\ Move(r, "engLook")
    /\ UNCHANGED <<file, closed, caches, kind, size, taken>>

FileStore(r) ==
    /\ pc[r] = "fileStore"
    /\ fileCache' = [fileCache EXCEPT ![name[r]] = tmpl[r]]
    /\ ByManager(r, tmpl[r])
    /\ UNCHANGED <<file, closed, engCache, kind, size, taken>>

(* Mutant of EngLook: a cached template that fails is final.               *)
EngLookOnce(r) ==
    /\ pc[r] = "engLook"
    /\ LET t == engCache[name[r]] IN
         IF t = NoTemplate
         THEN Move(r, "engParse") /\ UNCHANGED entry
         ELSE \/ Render(r, t, EngineParts(r), EngineTakes, FALSE)
              \/ ~ t \subseteq EngineParts(r) /\ FailEntry(r, "template")
    /\ UNCHANGED <<file, closed, caches, kind, size, taken>>

(* renderFileTemplate: a cached template that fails is read again from the *)
(* file and executed with what prepareData has left of the map.            *)
EngLook(r) ==
    /\ pc[r] = "engLook"
    /\ LET t == engCache[name[r]] IN
         IF t # NoTemplate
         THEN \/ Render(r, t, EngineParts(r), EngineTakes, FALSE)
              \/ Stumble(r, t, EngineParts(r), EngineTakes, "engine", "engParse")
         ELSE Move(r, "engParse") /\ UNCHANGED entry
    /\ UNCHANGED <<file, closed, caches, kind, size, taken>>

EngParse(r) ==
    /\ pc[r] = "engParse"
    /\ LET f == file[name[r]] IN
         IF f \in Demands
         THEN Hold(r, f) /\ Move(r, "engStore")
         ELSE FailEntry(r, "template")
    /\ UNCHANGED <<file, closed, caches, kind, size, taken>>

(* ReadFile, for the hash, may find the file gone by now.                  *)
EngStore(r) ==
    /\ pc[r] = "engStore"
    /\ IF file[name[r]] = NoTemplate
       THEN FailEntry(r, "template") /\ UNCHANGED engCache
       ELSE /\ engCache' = [engCache EXCEPT ![name[r]] = tmpl[r]]
            /\ IF tmpl[r] \subseteq EngineParts(r)
               THEN Render(r, tmpl[r], EngineParts(r), EngineTakes, FALSE)
               ELSE FailEntry(r, "template")
    /\ UNCHANGED <<file, closed, fileCache, kind, size, taken>>

-----------------------------------------------------------------------------
(* Dispatch and BatchDispatch: one job after the other.                    *)

Answer(r, code) ==
    /\ status' = [status EXCEPT ![r] = code]
    /\ To(r, "answered")

(* Mutant of Refused: a batch does not look at the errors.                 *)
RefusedUnnoticed(r) ==
    IF kind[r].call = "batch"
    THEN /\ at' = [at EXCEPT ![r] = @ + 1]
         /\ UNCHANGED <<pc, result, status, taken>>
    ELSE /\ Answer(r, IF kind[r].call = "scheduled" THEN 500 ELSE 503)
         /\ UNCHANGED <<at, result, taken>>

(* Mutant of Refused: a batch ends with the first refusal.                 *)
RefusedAtOnce(r) ==
    /\ Answer(r, IF kind[r].call = "scheduled" THEN 500 ELSE 503)
    /\ UNCHANGED <<at, result, taken>>

(* The engine refuses a job (rate limit, full queue, failed scheduleJob).  *)
(* A batch notes that at the job's place in the jobs slice.                *)
Refused(r) ==
    IF kind[r].call = "batch"
    THEN /\ result' = [result EXCEPT ![r][at[r]] = "failed"]
         /\ at' = [at EXCEPT ![r] = @ + 1]
         /\ UNCHANGED <<pc, status, taken>>
    ELSE /\ Answer(r, IF kind[r].call = "scheduled" THEN 500 ELSE 503)
         /\ UNCHANGED <<at, result, taken>>

Accepted(r) ==
    /\ taken' = [taken EXCEPT ![r] = @ \cup {jobs[r][at[r]]}]
    /\ IF kind[r].call = "batch"
       THEN at' = [at EXCEPT ![r] = @ + 1] /\ UNCHANGED <<pc, status>>
       ELSE Answer(r, 202) /\ UNCHANGED at
    /\ UNCHANGED result

(* A send on the queue that Stop has closed panics, in a select too;       *)
(* gin.Recovery answers 500, and the jobs behind it are not dispatched.    *)
Panics(r) ==
    /\ Answer(r, 500)
    /\ UNCHANGED <<at, result, taken>>

(* Stop cancels the engine's context before it closes the queue, so that   *)
(* scheduleJob fails from then on too: nothing more is accepted.           *)
DispatchJob(r) ==
    /\ pc[r] = "queue"
    /\ at[r] <= njobs[r]
    /\ jobs[r][at[r]] # 0
    /\ \/ Refused(r)
       \/ ~closed /\ Accepted(r)
       \/ closed /\ Panics(r)
    /\ UNCHANGED <<file, closed, caches, kind, size, entry, jobs, njobs,
                   skipped>>

(* Dispatch(nil) dereferences the job; gin.Recovery answers 500.           *)
DispatchNil(r) ==
    /\ pc[r] = "queue"
    /\ at[r] <= njobs[r]
    /\ jobs[r][at[r]] = 0
    /\ Answer(r, 500)
    /\ UNCHANGED <<file, closed, caches, kind, size, at, entry, outcome,
                   taken>>

BatchDone(r) ==
    /\ pc[r] = "queue"
    /\ at[r] > njobs[r]
    /\ Answer(r, 202)
    /\ UNCHANGED <<file, closed, caches, kind, size, at, entry, outcome,
                   taken>>

(* The answer has been sent; another request may come.                     *)
Finish(r) ==
    /\ pc[r] = "answered"
    /\ To(r, "idle")
    /\ kind' = [kind EXCEPT ![r] = [call |-> "dispatch", side |-> "main"]]
    /\ size' = [size EXCEPT ![r] = 1]
    /\ at' = [at EXCEPT ![r] = 1]
    /\ jobs' = [jobs EXCEPT ![r] = Nowhere]
    /\ njobs' = [njobs EXCEPT ![r] = 0]
    /\ result' = [result EXCEPT ![r] = NoResults]
    /\ skipped' = [skipped EXCEPT ![r] = {}]
    /\ taken' = [taken EXCEPT ![r] = {}]
    /\ status' = [status EXCEPT ![r] = 0]
    /\ UNCHANGED <<file, closed, caches, entry>>

-----------------------------------------------------------------------------
(* Around the requests.                                                    *)

(* Somebody puts another file in place, a broken one, or removes it.       *)
Deploy(n) ==
    /\ \E f \in Files \ {file[n]} :
         /\ file' = [file EXCEPT ![n] = f]
         /\ healthy' = [r \in Rs |->
                          healthy[r] /\ (name[r] = n => Sound(f))]
    /\ UNCHANGED <<caches, closed, kind, pc, size, at, name, given, rendering,
                   outcome, status, taken>>

(* The hourly cleanups drop what has not been used for a day.  LastUsed is *)
(* written outside the lock, so a cleanup may also miss a use; time is     *)
(* left out, and any entry may be found old.                               *)
CleanManager(n) ==
    /\ fileCache[n] # NoTemplate
    /\ fileCache' = [fileCache EXCEPT ![n] = NoTemplate]
    /\ UNCHANGED <<file, closed, engCache, kind, pc, size, at, entry,
                   outcome, status, taken>>

CleanEngine(n) ==
    /\ engCache[n] # NoTemplate
    /\ engCache' = [engCache EXCEPT ![n] = NoTemplate]
    /\ UNCHANGED <<file, closed, fileCache, kind, pc, size, at, entry,
                   outcome, status, taken>>

(* Stop, which main calls before it shuts the server down: requests still  *)
(* come and go (see Engine for what else it does).                         *)
CloseQueue ==
    /\ ~closed
    /\ closed' = TRUE
    /\ UNCHANGED <<file, caches, kind, pc, size, at, entry, outcome, status,
                   taken>>

Step(r) ==
    \/ Entry(r) \/ FindUser(r) \/ HaveMail(r)
    \/ Custom(r) \/ FileLook(r) \/ FileMiss(r) \/ FileParse(r) \/ FileStore(r)
    \/ EngLook(r) \/ EngParse(r) \/ EngStore(r)
    \/ DispatchJob(r) \/ DispatchNil(r) \/ BatchDone(r)

(* The handlers: a lower-case name is main.go's, the other api/handler.go's. *)
Serving(r, call, side) == kind[r] = [call |-> call, side |-> side] /\ Step(r)

handleUltraDispatch(r) == Serving(r, "dispatch", "main")
handleBatchDispatch(r) == Serving(r, "batch", "main")
handleScheduledDispatch(r) == Serving(r, "scheduled", "main")
HandleUltraDispatch(r) == Serving(r, "dispatch", "api")
HandleBatchDispatch(r) == Serving(r, "batch", "api")
HandleScheduledDispatch(r) == Serving(r, "scheduled", "api")

Handle(r) ==
    \/ Begin(r) \/ Finish(r)
    \/ handleUltraDispatch(r) \/ HandleUltraDispatch(r)
    \/ handleBatchDispatch(r) \/ HandleBatchDispatch(r)
    \/ handleScheduledDispatch(r) \/ HandleScheduledDispatch(r)

Next ==
    \/ \E r \in Rs : Handle(r)
    \/ \E n \in Names : Deploy(n) \/ CleanManager(n) \/ CleanEngine(n)
    \/ CloseQueue

Spec == Init /\ [][Next]_vars

-----------------------------------------------------------------------------
(* Every variable has its type: a batch has a result for each entry and no *)
(* more jobs than entries.                                                 *)
TypeOK ==
    /\ file \in [Names -> Files]
    /\ fileCache \in [Names -> Cached]
    /\ engCache \in [Names -> Cached]
    /\ kind \in [Rs -> Kinds]
    /\ pc \in [Rs -> Steps]
    /\ size \in [Rs -> 1 .. MaxBatch]
    /\ at \in [Rs -> 1 .. MaxBatch + 1]
    /\ name \in [Rs -> Names]
    /\ data \in [Rs -> SUBSET Parts]
    /\ tmpl \in [Rs -> Cached]
    /\ jobs \in [Rs -> [1 .. MaxBatch -> 0 .. MaxBatch]]
    /\ njobs \in [Rs -> 0 .. MaxBatch]
    /\ result \in [Rs -> [1 .. MaxBatch -> Results]]
    /\ status \in [Rs -> Codes]
    /\ given \in [Rs -> SUBSET Parts]
    /\ shown \in [Rs -> (SUBSET Parts) \cup {NoMail}]
    /\ failures \in [Rs -> SUBSET Executors]
    /\ byManager \in [Rs -> BOOLEAN]
    /\ healthy \in [Rs -> BOOLEAN]
    /\ skipped \in [Rs -> SUBSET (1 .. MaxBatch)]
    /\ taken \in [Rs -> SUBSET (1 .. MaxBatch)]
    /\ closed \in BOOLEAN

(* An answer 202 says of each entry whether its job is in the engine.  Of  *)
(* main.go's handlers that holds always.  The batch of api/handler.go      *)
(* notes refusals by their place among the jobs, which is the entry's      *)
(* place only as long as no entry before it has been left out.             *)
AnswerTruthful ==
    \A r \in Rs : status[r] = 202 =>
       \A i \in 1 .. size[r] :
          (kind[r].side = "api" => \A s \in skipped[r] : i <= s)
             => (i \in taken[r] <=> result[r][i] = "queued")

(* An error answer means that nothing was sent, but for a batch that a     *)
(* panic has cut off: at a nil that main.go left for an entry without a    *)
(* job, or, in both versions, at the queue that Stop has closed.  The      *)
(* error answer then covers up that jobs before the cut are queued.        *)
ErrorCutsBatch ==
    \A r \in Rs : status[r] \in {404, 500, 503} /\ taken[r] # {} =>
       /\ kind[r].call = "batch"
       /\ \A i \in taken[r] : \E k \in 1 .. at[r] - 1 : jobs[r][k] = i
       /\ \/ closed
          \/ kind[r].side = "main" /\ at[r] \in skipped[r]

(* What the request gave and a mail does not show was lost to a failed     *)
(* execution: the user to one, the application's data to one by the        *)
(* TemplateEngine, or because the manager never hands it on.               *)
PartsLostByFailure ==
    \A r \in Rs : shown[r] # NoMail =>
       /\ "user" \in given[r] \ shown[r] => failures[r] # {}
       /\ "app" \in given[r] \ shown[r] => byManager[r] \/ "engine" \in failures[r]

(* While the deployed file parses and demands nothing, no request is       *)
(* turned down for its template, whatever older versions the two caches    *)
(* hold: a cached template that fails is read anew.                        *)
HealthyFileIsEnough ==
    [][\A r \in Rs, i \in 1 .. MaxBatch :
         result'[r][i] = "template" /\ result[r][i] # "template"
           => ~healthy[r]]_vars

=============================================================================
