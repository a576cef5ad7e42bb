---------------------------- MODULE JobLifecycle ----------------------------
(***************************************************************************)
(* What the dispatch engine promises about one job, without its channels,  *)
(* goroutines and locks.  A job is waiting until the engine takes it on,   *)
(* is then tried at most MaxTries times, and is concluded at most once:    *)
(* completed after a try a provider accepted, failed only when every try   *)
(* has been used up.  Module Engine is shown to implement it.              *)
(***************************************************************************)
EXTENDS Naturals

CONSTANTS Jobs,      \* the jobs clients submit
          MaxTries   \* 1 + RetryAttempts: the sends a job may cost

VARIABLES status,    \* [Jobs -> Statuses]
          tries,     \* [Jobs -> Nat]: provider calls made for the job
          taken      \* the jobs a provider has accepted

vars == <<status, tries, taken>>

Statuses == {"waiting", "pending", "completed", "failed"}

Init ==
    /\ status = [j \in Jobs |-> "waiting"]
    /\ tries = [j \in Jobs |-> 0]
    /\ taken = {}

Submit(j) ==
    /\ status[j] = "waiting"
    /\ status' = [status EXCEPT ![j] = "pending"]
    /\ UNCHANGED <<tries, taken>>

Try(j) ==
    /\ status[j] = "pending"
    /\ tries[j] < MaxTries
    /\ tries' = [tries EXCEPT ![j] = @ + 1]
    /\ taken' \in {taken, taken \cup {j}}
    /\ UNCHANGED status

Complete(j) ==
    /\ status[j] = "pending"
    /\ j \in taken
    /\ status' = [status EXCEPT ![j] = "completed"]
    /\ UNCHANGED <<tries, taken>>

Fail(j) ==
    /\ status[j] = "pending"
    /\ tries[j] = MaxTries
    /\ j \notin taken
    /\ status' = [status EXCEPT ![j] = "failed"]
    /\ UNCHANGED <<tries, taken>>

Next == \E j \in Jobs : Submit(j) \/ Try(j) \/ Complete(j) \/ Fail(j)

Spec == Init /\ [][Next]_vars

=============================================================================
