------------------------------- MODULE Client -------------------------------
(***************************************************************************)
(* The client SDKs of VoidSend (sdk/web, sdk/android, sdk/flutter,         *)
(* sdk/ios): a dispatch is saved in a store that outlives the program,     *)
(* sent, and sent again a few times if that fails; initialize sends what   *)
(* an earlier session left in the store.  The four SDKs follow one plan    *)
(* and differ in what is one step: the two on event loops (web, Flutter)   *)
(* save and remove one key, the two on threads (Android, iOS) write the    *)
(* disk later, and iOS rewrites a whole dictionary.                        *)
(*                                                                         *)
(* The server (POST /ultra-dispatch) and the network are outside: a        *)
(* request is accepted or refused, and its answer can be lost.  The        *)
(* program can stop at any time.  Every dispatch is given a callback.      *)
(***************************************************************************)
EXTENDS Naturals, FiniteSets

CONSTANTS Jobs,       \* the dispatches, by the UUID each gets
          Platforms,  \* the SDKs to look at
          MaxRetries, \* maxRetries
          MaxInits,   \* bound: calls of initialize
          MaxRestarts \* bound: stops of the program

ASSUME ClientAssumption ==
    /\ Platforms \subseteq {"web", "android", "flutter", "ios"}
    /\ IsFiniteSet(Jobs)
    /\ MaxRetries \in Nat /\ MaxInits \in Nat /\ MaxRestarts \in Nat

VARIABLES
    platform,  \* the SDK at work; never changes
    ready,     \* isInitialized
    pending,   \* the jobs in the store, as the running program reads it
    disk,      \* the jobs that the next start would read
    loaded,    \* iOS: pendingJobs, read at the start and never updated
    callbacks, \* the keys of dispatchCallbacks
    chain,     \* [Chains -> ChainState]: the executeDispatch calls of a job
    inits, restarts, \* the bounded counters
    \* Observations, read by no action:
    copies,    \* [Jobs -> 0 .. 2]: times the server accepted the job, 2 for more
    told,      \* [Jobs -> Tellings]: what the application last heard of it
    befell     \* [Jobs -> SUBSET Mishaps]

ghosts == <<copies, told, befell>>
vars == <<platform, ready, pending, disk, loaded, callbacks, chain, inits,
          restarts, copies, told, befell>>

(* Chain 0 of a job is started by dispatch, chain g by the g-th initialize. *)
Chains == Jobs \X (0 .. MaxInits)
Steps  == {"idle", "saving", "sent", "answered", "removing", "waiting"}
ChainState == [at : Steps, tries : 0 .. MaxRetries, copy : SUBSET Jobs]
Idle == [at |-> "idle", tries |-> 0, copy |-> {}]
Sent == [at |-> "sent", tries |-> 0, copy |-> {}]

(* "new": not dispatched yet.  What can happen to a job: an acceptance the  *)
(* SDK did not learn of or did not get to note ("unread"), a second chain   *)
(* beside a live one or after the job was done ("doubled"), a stop before   *)
(* the disk was written ("cut"), and the write of an outdated dictionary    *)
(* over the job's entry ("raced").                                          *)
Tellings == {"new", "nothing", "success", "error"}
Mishaps  == {"unread", "doubled", "cut", "raced"}

Threaded == platform \in {"android", "ios"}
At(c, step) == chain[c].at = step
Active(j)   == \E c \in Chains : c[1] = j /\ ~At(c, "idle")

Init ==
    /\ platform \in Platforms
    /\ ready = FALSE
    /\ pending = {} /\ disk = {} /\ loaded = {} /\ callbacks = {}
    /\ chain = [c \in Chains |-> Idle]
    /\ inits = 0 /\ restarts = 0
    /\ copies = [j \in Jobs |-> 0]
    /\ told = [j \in Jobs |-> "new"]
    /\ befell = [j \in Jobs |-> {}]

-----------------------------------------------------------------------------
(* Observations.                                                           *)
Copied(cs) == copies' =
    [j \in Jobs |-> LET n == copies[j] + Cardinality({c \in cs : c[1] = j})
                    IN IF n > 2 THEN 2 ELSE n]
Befalls(js, what) == befell' = [j \in Jobs |-> IF j \in js
                                               THEN befell[j] \cup {what}
                                               ELSE befell[j]]

(* The map of callbacks has no lock.  On threads an operation that meets    *)
(* another one may have no effect, find nothing, or lose entries.           *)
Racing(j) == Threaded /\ \E k \in Jobs \ {j} : Active(k)
Twins(c)  == Threaded /\ \E d \in Chains \ {c} : ~At(d, "idle")

Register(j) ==
    /\ told[j] = "new"
    /\ told' = [told EXCEPT ![j] = "nothing"]
    /\ callbacks' \in (IF Racing(j) THEN SUBSET (callbacks \cup {j})
                                    ELSE {callbacks \cup {j}})

(* Mutant of Tell: the callback is called and stays in the map.            *)
TellKeeps(c, verdict) ==
    \/ /\ c[1] \in callbacks
       /\ told' = [told EXCEPT ![c[1]] = verdict]
       /\ UNCHANGED callbacks
    \/ /\ c[1] \notin callbacks
       /\ UNCHANGED <<told, callbacks>>

(* dispatchCallbacks.remove(jobId), and the call of what it returned.       *)
Tell(c, verdict) ==
    \/ /\ c[1] \in callbacks
       /\ told' = [told EXCEPT ![c[1]] = verdict]
       /\ callbacks' \in (IF Twins(c) THEN SUBSET callbacks
                                      ELSE {callbacks \ {c[1]}})
    \/ /\ c[1] \notin callbacks \/ Twins(c)
       /\ UNCHANGED <<told, callbacks>>

Goes(c, step) == chain' = [chain EXCEPT ![c].at = step]
Ends(c) == chain' = [chain EXCEPT ![c] = Idle]

-----------------------------------------------------------------------------
(* dispatch and savePendingJob, up to the request.  localStorage can be     *)
(* full: then dispatch throws, with the job in memory and its callback      *)
(* registered.                                                              *)
WebDispatch(j) ==
    /\ platform = "web"
    /\ pending' = pending \cup {j}
    /\ \/ /\ disk' = disk \cup {j}
          /\ chain' = [chain EXCEPT ![<<j, 0>>] = Sent]
       \/ UNCHANGED <<disk, chain>>

(* apply() leaves the disk to a thread of its own.                         *)
AndroidDispatch(j) ==
    /\ platform = "android"
    /\ pending' = pending \cup {j}
    /\ chain' = [chain EXCEPT ![<<j, 0>>] = Sent]
    /\ UNCHANGED disk

(* Memory first; the request waits for the disk.                           *)
FlutterDispatch(j) ==
    /\ platform = "flutter"
    /\ pending' = pending \cup {j}
    /\ chain' = [chain EXCEPT ![<<j, 0>>].at = "saving"]
    /\ UNCHANGED disk

(* savePendingJob reads the dictionary here and writes it in IosSaved.     *)
IosDispatch(j) ==
    /\ platform = "ios"
    /\ chain' = [chain EXCEPT ![<<j, 0>>].at = "saving", ![<<j, 0>>].copy = pending]
    /\ UNCHANGED <<pending, disk>>

Dispatch(j) ==
    /\ ready
    /\ Register(j)
    /\ WebDispatch(j) \/ AndroidDispatch(j) \/ FlutterDispatch(j) \/ IosDispatch(j)
    /\ UNCHANGED <<platform, ready, loaded, inits, restarts, copies, befell>>

(* What the save throws ends dispatch, whether it was written or not.       *)
FlutterSaved(c) ==
    /\ platform = "flutter"
    /\ At(c, "saving")
    /\ \/ Goes(c, "sent") /\ disk' = disk \cup {c[1]}
       \/ Ends(c) /\ disk' \in {disk, disk \cup {c[1]}}
    /\ UNCHANGED <<platform, ready, pending, loaded, callbacks, inits,
                   restarts, copies, told, befell>>

(* The dictionary d is written over the store, where c changes only its    *)
(* own job's entry: what another thread wrote since the read is undone.    *)
Overwrite(c, d) ==
    /\ pending' = d
    /\ Befalls({k \in Jobs \ {c[1]} : (k \in pending) # (k \in d)}, "raced")

IosSaved(c) ==
    /\ platform = "ios"
    /\ At(c, "saving")
    /\ Overwrite(c, chain[c].copy \cup {c[1]})
    /\ chain' = [chain EXCEPT ![c] = Sent]
    /\ UNCHANGED <<platform, ready, disk, loaded, callbacks, inits, restarts,
                   copies, told>>

(* The system writes the preferences of Android and iOS to disk later.     *)
Flush ==
    /\ Threaded
    /\ disk # pending
    /\ disk' = pending
    /\ UNCHANGED <<platform, ready, pending, loaded, callbacks, chain, inits,
                   restarts, copies, told, befell>>

-----------------------------------------------------------------------------
(* initialize and processPendingJobs: a new chain for every job in the      *)
(* store, on iOS for every job that was there when the program started.     *)
ToProcess == IF platform = "ios" THEN loaded ELSE pending

(* Mutant of Initialize: a job leaves the store when its chain starts.      *)
InitializeTakes ==
    /\ inits < MaxInits
    /\ inits' = inits + 1
    /\ ready' = TRUE
    /\ chain' = [c \in Chains |-> IF c[2] = inits' /\ c[1] \in ToProcess
                                  THEN Sent ELSE chain[c]]
    /\ Befalls({j \in ToProcess : Active(j) \/ j \notin pending}, "doubled")
    /\ pending' = pending \ ToProcess
    /\ disk' = disk \ ToProcess
    /\ UNCHANGED <<platform, loaded, callbacks, restarts, copies, told>>

Initialize ==
    /\ inits < MaxInits
    /\ inits' = inits + 1
    /\ ready' = TRUE
    /\ chain' = [c \in Chains |-> IF c[2] = inits' /\ c[1] \in ToProcess
                                  THEN Sent ELSE chain[c]]
    /\ Befalls({j \in ToProcess : Active(j) \/ j \notin pending}, "doubled")
    /\ UNCHANGED <<platform, pending, disk, loaded, callbacks, restarts,
                   copies, told>>

-----------------------------------------------------------------------------
(* executeDispatch.  The server accepts the job and its answer arrives.     *)
Accept(c) ==
    /\ At(c, "sent")
    /\ Goes(c, "answered")
    /\ Copied({c})
    /\ UNCHANGED <<platform, ready, pending, disk, loaded, callbacks, inits,
                   restarts, told, befell>>

(* The next attempt, after a delay.                                         *)
Again(c) ==
    chain' = [chain EXCEPT ![c] = [at |-> "waiting", tries |-> @.tries + 1,
                                   copy |-> {}]]

(* The error callback after the last attempt; the job stays in the store.   *)
(* Mutants: not a word; the wrong callback.                                 *)
GiveUpSilently(c) == Ends(c) /\ UNCHANGED <<told, callbacks>>
GiveUpAsSuccess(c) == Ends(c) /\ Tell(c, "success")
GiveUp(c) == Ends(c) /\ Tell(c, "error")

(* Mutant of Failed: one attempt too many.                                  *)
FailedOneMore(c) ==
    \/ /\ chain[c].tries <= MaxRetries
       /\ Again(c)
       /\ UNCHANGED <<told, callbacks>>
    \/ /\ chain[c].tries > MaxRetries
       /\ GiveUp(c)

Failed(c) ==
    \/ /\ chain[c].tries < MaxRetries
       /\ Again(c)
       /\ UNCHANGED <<told, callbacks>>
    \/ /\ chain[c].tries = MaxRetries
       /\ GiveUp(c)

(* The request is refused or never arrives; or it is accepted, and the      *)
(* answer does not come back.                                               *)
Fail(c) ==
    /\ At(c, "sent")
    /\ Failed(c)
    /\ \/ UNCHANGED <<copies, befell>>
       \/ Copied({c}) /\ Befalls({c[1]}, "unread")
    /\ UNCHANGED <<platform, ready, pending, disk, loaded, inits, restarts>>

Resend(c) ==
    /\ At(c, "waiting")
    /\ Goes(c, "sent")
    /\ UNCHANGED <<platform, ready, pending, disk, loaded, callbacks, inits,
                   restarts, copies, told, befell>>

(* Mutant of AndroidAnswered: the job stays in the store.                   *)
AndroidAnsweredKeeps(c) ==
    /\ platform = "android"
    /\ \/ /\ Ends(c)
          /\ Tell(c, "success")
          /\ UNCHANGED befell
       \/ /\ Failed(c)
          /\ Befalls({c[1]}, "unread")
    /\ UNCHANGED <<pending, disk>>

(* A good answer.  Web: the job leaves the store at once, before the body   *)
(* is read.                                                                 *)
WebAnswered(c) ==
    /\ platform = "web"
    /\ pending' = pending \ {c[1]}
    /\ disk' = disk \ {c[1]}
    /\ Goes(c, "removing")
    /\ UNCHANGED <<callbacks, told, befell>>

(* Flutter: likewise, but the body waits for the disk.                      *)
FlutterAnswered(c) ==
    /\ platform = "flutter"
    /\ pending' = pending \ {c[1]}
    /\ Goes(c, "removing")
    /\ UNCHANGED <<disk, callbacks, told, befell>>

(* Android: the body first; if it is no JSON, the catch block retries.      *)
AndroidAnswered(c) ==
    /\ platform = "android"
    /\ \/ /\ pending' = pending \ {c[1]}
          /\ Ends(c)
          /\ Tell(c, "success")
          /\ UNCHANGED befell
       \/ /\ Failed(c)
          /\ Befalls({c[1]}, "unread")
          /\ UNCHANGED pending
    /\ UNCHANGED disk

(* iOS: the body first; if it is no JSON the callback hears of an error,    *)
(* and that is all.  Completion handlers run one at a time.                 *)
IosAnswered(c) ==
    /\ platform = "ios"
    /\ \A d \in Chains : ~At(d, "removing")
    /\ \/ /\ chain' = [chain EXCEPT ![c].at = "removing", ![c].copy = pending]
          /\ UNCHANGED <<callbacks, told, befell>>
       \/ /\ Ends(c)
          /\ Tell(c, "error")
          /\ Befalls({c[1]}, "unread")
    /\ UNCHANGED <<pending, disk>>

Answered(c) ==
    /\ At(c, "answered")
    /\ WebAnswered(c) \/ FlutterAnswered(c) \/ AndroidAnswered(c) \/ IosAnswered(c)
    /\ UNCHANGED <<platform, ready, loaded, inits, restarts, copies>>

(* The rest of the two event-loop SDKs: the body is read and the callback   *)
(* called.  What either throws reaches the catch block, which retries; the  *)
(* callback is spent by then.                                               *)
Read(c) ==
    \/ Ends(c) /\ Tell(c, "success") /\ UNCHANGED befell
    \/ Failed(c) /\ Befalls({c[1]}, "unread")
    \/ /\ c[1] \in callbacks
       /\ Tell(c, "success")
       /\ IF chain[c].tries < MaxRetries THEN Again(c) ELSE Ends(c)
       /\ Befalls({c[1]}, "unread")

WebRead(c) ==
    /\ platform = "web"
    /\ Read(c)
    /\ UNCHANGED <<pending, disk>>

(* A removal that throws is retried like the rest, and may have happened.   *)
FlutterRead(c) ==
    /\ platform = "flutter"
    /\ Read(c)
    /\ \/ disk' = disk \ {c[1]}
       \/ UNCHANGED disk /\ Failed(c) /\ Befalls({c[1]}, "unread")
    /\ UNCHANGED pending

(* removePendingJob writes the dictionary that IosAnswered read.            *)
IosRemoved(c) ==
    /\ platform = "ios"
    /\ Overwrite(c, chain[c].copy \ {c[1]})
    /\ Ends(c)
    /\ Tell(c, "success")
    /\ UNCHANGED disk

Finish(c) ==
    /\ At(c, "removing")
    /\ WebRead(c) \/ FlutterRead(c) \/ IosRemoved(c)
    /\ UNCHANGED <<platform, ready, loaded, inits, restarts, copies>>

-----------------------------------------------------------------------------
(* The constructor, or the start of initialize, reads the store.  iOS       *)
(* keeps what it read for processPendingJobs.                               *)
LoadPendingJobs ==
    /\ pending' = disk
    /\ loaded' = IF platform = "ios" THEN disk ELSE {}

(* The program stops, or crashes, and starts again: memory is what the      *)
(* constructor reads from disk.  Requests on their way may still arrive.    *)
Restart ==
    /\ restarts < MaxRestarts
    /\ restarts' = restarts + 1
    /\ ready' = FALSE
    /\ LoadPendingJobs
    /\ callbacks' = {}
    /\ chain' = [c \in Chains |-> Idle]
    /\ \E arrived \in SUBSET {c \in Chains : At(c, "sent")} :
         /\ Copied(arrived)
         /\ befell' = [j \in Jobs |->
              befell[j]
              \cup (IF \E c \in Chains :
                          /\ c[1] = j
                          /\ c \in arrived \/ At(c, "answered") \/ At(c, "removing")
                    THEN {"unread"} ELSE {})
              \cup (IF \/ (j \in pending) # (j \in disk)
                       \/ At(<<j, 0>>, "saving")
                    THEN {"cut"} ELSE {})]
    /\ UNCHANGED <<platform, disk, inits, told>>

-----------------------------------------------------------------------------
(* Nothing is on its way, and the application leaves the SDK alone.         *)
Quiet == (\A c \in Chains : At(c, "idle")) /\ UNCHANGED vars

ClientStep(c) == FlutterSaved(c) \/ IosSaved(c) \/ Resend(c) \/ Answered(c) \/ Finish(c)

Next ==
    \/ \E j \in Jobs : Dispatch(j)
    \/ \E c \in Chains : ClientStep(c) \/ Accept(c) \/ Fail(c)
    \/ Initialize \/ Flush \/ Restart
    \/ Quiet

(* The SDK's own steps happen; nothing is assumed of the network, the disk  *)
(* or the application.                                                      *)
Fairness == \A c \in Chains : WF_vars(ClientStep(c))
Spec == Init /\ [][Next]_vars /\ Fairness


-----------------------------------------------------------------------------
TypeOK ==
    /\ platform \in Platforms
    /\ ready \in BOOLEAN
    /\ pending \subseteq Jobs /\ disk \subseteq Jobs
    /\ loaded \subseteq Jobs /\ callbacks \subseteq Jobs
    /\ chain \in [Chains -> ChainState]
    /\ inits \in 0 .. MaxInits /\ restarts \in 0 .. MaxRestarts
    /\ copies \in [Jobs -> 0 .. 2]
    /\ told \in [Jobs -> Tellings]
    /\ befell \in [Jobs -> SUBSET Mishaps]

(* "Save for offline": a job that the server has not accepted is in the    *)
(* store, through every retry, error and restart.  It is lost only by a    *)
(* stop before the disk was written, or on iOS by a racing write.          *)
KeptUntilAccepted ==
    \A j \in Jobs :
      told[j] # "new" /\ copies[j] = 0 /\ befell[j] \cap {"cut", "raced"} = {}
      => j \in pending \/ At(<<j, 0>>, "saving")

(* A job is accepted twice only after an acceptance that was not noted, a   *)
(* second chain, or a removal that was undone: never because the SDK        *)
(* forgot to take it out of the store.                                      *)
DuplicateOnlyExplained ==
    \A j \in Jobs : copies[j] > 1 => befell[j] # {}

(* What the callback hears is true when it hears it: a success was          *)
(* accepted, and an error was not, unless the answer was lost or another    *)
(* chain got through.                                                       *)
ReportTruthful ==
    [][\A j \in Jobs : told'[j] # told[j] =>
         /\ told'[j] = "success" => copies'[j] > 0
         /\ told'[j] = "error" => copies'[j] = 0 \/ befell'[j] # {}]_vars

(* On an event loop a callback is called once, whatever initialize starts   *)
(* beside it and whatever the callback throws.                              *)
ToldOnce ==
    [][\A j \in Jobs : ~Threaded /\ told[j] \in {"success", "error"}
                       => told'[j] = told[j] /\ j \notin callbacks']_vars

(* On an event loop the callback of a job for which a request was made is   *)
(* called, by whichever chain made it, if every HTTP call ends: no path     *)
(* through the retries and the catch blocks forgets it.  A dispatch whose   *)
(* save throws makes no request, and its callback waits for the next        *)
(* initialize.                                                              *)
CallsEnd == \A c \in Chains : []<>~At(c, "sent")
Requested(j) == \E c \in Chains : c[1] = j /\ chain[c].at \notin {"idle", "saving"}
CallbackComes ==
    CallsEnd => \A j \in Jobs :
        (~Threaded /\ j \in callbacks /\ Requested(j)) ~> j \notin callbacks

=============================================================================
