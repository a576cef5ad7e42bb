------------------------------- MODULE IpGate -------------------------------
(***************************************************************************)
(* The limit on requests of one address (RateLimitMiddleware): a token     *)
(* bucket in the process, in a map whose entry a goroutine deletes two     *)
(* windows after it was made, and behind it a sorted set in Redis.         *)
(* Addresses share only the mutex of the map, so one address is modelled.  *)
(*                                                                         *)
(* Time passes in ticks, Window of them to a window.  All deadlines are    *)
(* countdowns.  The bucket counts in units of 1/Window token, of which it  *)
(* gains Limit per tick.  A window of 0, which a configuration without     *)
(* rate_window has (validateConfig sets no default), makes the rate        *)
(* infinite and limits nothing: IpGateAssumption leaves it out.            *)
(***************************************************************************)
EXTENDS Integers, FiniteSets

CONSTANTS Rs,         \* requests of the address, concurrent ones included
          Limiters,   \* limiter objects
          NoLimiter,
          Limit,      \* requests per window
          Window      \* ticks of a window

ASSUME IpGateAssumption ==
    /\ Limit \in Nat \ {0}
    /\ Window \in Nat \ {0}
    /\ NoLimiter \notin Limiters
    /\ IsFiniteSet(Rs)

VARIABLES
    limiter,   \* ipLimiters[ip], or NoLimiter
    sweep,     \* ticks until the entry's goroutine deletes it
    bucket,    \* [Limiters -> 0 .. Full]
    members,   \* the members of the sorted set "rate:ip:<ip>", up to Many
    expiry,    \* ticks until Redis drops it; Never without EXPIRE
    pc,        \* [Rs -> Steps]
    mine,      \* [Rs -> Limiters or NoLimiter]: what getLimiterForIP returned
    unseen,    \* observation: requests whose ZADD or EXPIRE has failed
    left,      \* observation: what is left of the window under watch, 0 without
    letIn      \* observation: requests let in during it, but those unseen

watchVars == <<left, letIn>>
vars == <<limiter, sweep, bucket, members, expiry, pc, mine, unseen, watchVars>>

Full == Limit * Window
Many == Limit + 1
Never == Window + 1
Steps == {"idle", "limiter", "allow", "add", "expire", "count",
          "passed", "refused"}

Init ==
    /\ limiter = NoLimiter
    /\ sweep = 0
    /\ bucket = [l \in Limiters |-> Full]
    /\ members = 0
    /\ expiry = Never
    /\ pc = [r \in Rs |-> "idle"]
    /\ mine = [r \in Rs |-> NoLimiter]
    /\ unseen = {}
    /\ left = 0
    /\ letIn = 0

To(r, step) == pc' = [pc EXCEPT ![r] = step]

LetIn(r) ==
    /\ To(r, "passed")
    /\ letIn' = IF left > 0 /\ r \notin unseen THEN letIn + 1 ELSE letIn

(* isIPAllowed: "0.0.0.0/0" holds the IPv4 addresses; others get a 403.    *)
Arrive(r) ==
    /\ pc[r] = "idle"
    /\ \E ipv4 \in BOOLEAN : To(r, IF ipv4 THEN "limiter" ELSE "refused")
    /\ UNCHANGED <<limiter, sweep, bucket, members, expiry, mine, unseen, watchVars>>

Spare == Limiters \ ({limiter} \cup {mine[r] : r \in Rs})

(* Mutant of GetLimiter: a new bucket is empty.                            *)
GetLimiterEmpty(r) ==
    /\ pc[r] = "limiter"
    /\ IF limiter # NoLimiter
       THEN /\ mine' = [mine EXCEPT ![r] = limiter]
            /\ UNCHANGED <<limiter, sweep, bucket>>
       ELSE \E l \in Spare :
              /\ limiter' = l
              /\ bucket' = [bucket EXCEPT ![l] = 0]
              /\ sweep' = 2 * Window
              /\ mine' = [mine EXCEPT ![r] = l]
    /\ To(r, "allow")
    /\ UNCHANGED <<members, expiry, unseen, watchVars>>

(* getLimiterForIP: the entry, or a new one with a full bucket and its own *)
(* deletion under way.                                                     *)
GetLimiter(r) ==
    /\ pc[r] = "limiter"
    /\ IF limiter # NoLimiter
       THEN /\ mine' = [mine EXCEPT ![r] = limiter]
            /\ UNCHANGED <<limiter, sweep, bucket>>
       ELSE \E l \in Spare :
              /\ limiter' = l
              /\ bucket' = [bucket EXCEPT ![l] = Full]
              /\ sweep' = 2 * Window
              /\ mine' = [mine EXCEPT ![r] = l]
    /\ To(r, "allow")
    /\ UNCHANGED <<members, expiry, unseen, watchVars>>

(* Mutant of Allow: part of a token is enough.                             *)
AllowOverdrawn(r) ==
    /\ pc[r] = "allow"
    /\ IF bucket[mine[r]] > 0
       THEN /\ bucket' = [bucket EXCEPT ![mine[r]] = @ - Window]
            /\ LetIn(r)
       ELSE To(r, "add") /\ UNCHANGED <<bucket, letIn>>
    /\ mine' = [mine EXCEPT ![r] = NoLimiter]
    /\ UNCHANGED <<limiter, sweep, members, expiry, unseen, left>>

(* Mutant of Allow: the token is looked at, and not taken.                 *)
AllowUntaken(r) ==
    /\ pc[r] = "allow"
    /\ IF bucket[mine[r]] >= Window
       THEN LetIn(r)
       ELSE To(r, "add") /\ UNCHANGED letIn
    /\ mine' = [mine EXCEPT ![r] = NoLimiter]
    /\ UNCHANGED <<limiter, sweep, bucket, members, expiry, unseen, left>>

(* limiter.Allow, on the limiter the request holds.                        *)
Allow(r) ==
    /\ pc[r] = "allow"
    /\ IF bucket[mine[r]] >= Window
       THEN /\ bucket' = [bucket EXCEPT ![mine[r]] = @ - Window]
            /\ LetIn(r)
       ELSE To(r, "add") /\ UNCHANGED <<bucket, letIn>>
    /\ mine' = [mine EXCEPT ![r] = NoLimiter]
    /\ UNCHANGED <<limiter, sweep, members, expiry, unseen, left>>

(* RateLimitCheck.  ZREMRANGEBYSCORE gets string(rune(windowStart)), which *)
(* is no number or a single digit: nothing is ever removed.  Errors of the *)
(* three writing commands are dropped.                                     *)
Add(r) ==
    /\ pc[r] = "add"
    /\ \/ /\ members' = IF members = Many THEN Many ELSE members + 1
          /\ expiry' = IF members = 0 THEN Never ELSE expiry
          /\ UNCHANGED unseen
       \/ unseen' = unseen \cup {r} /\ UNCHANGED <<members, expiry>>
    /\ To(r, "expire")
    /\ UNCHANGED <<limiter, sweep, bucket, mine, watchVars>>

Expire(r) ==
    /\ pc[r] = "expire"
    /\ \/ /\ expiry' = IF members > 0 THEN Window ELSE expiry
          /\ UNCHANGED unseen
       \/ unseen' = unseen \cup {r} /\ UNCHANGED expiry
    /\ To(r, "count")
    /\ UNCHANGED <<limiter, sweep, bucket, members, mine, watchVars>>

Count(r) ==
    /\ pc[r] = "count"
    /\ \/ members <= Limit /\ LetIn(r)
       \/ To(r, "refused") /\ UNCHANGED letIn
    /\ unseen' = unseen \ {r}
    /\ UNCHANGED <<limiter, sweep, bucket, members, expiry, mine, left>>

Leave(r) ==
    /\ pc[r] \in {"passed", "refused"}
    /\ To(r, "idle")
    /\ UNCHANGED <<limiter, sweep, bucket, members, expiry, mine, unseen, watchVars>>

(* The goroutine of getLimiterForIP wakes up, at its time or later.        *)
Sweep ==
    /\ limiter # NoLimiter
    /\ sweep = 0
    /\ limiter' = NoLimiter
    /\ UNCHANGED <<sweep, bucket, members, expiry, pc, mine, unseen, watchVars>>

Less(n) == IF n = 0 THEN 0 ELSE n - 1

(* What a tick does in Redis and to the observations.                      *)
Age ==
    /\ members' = IF expiry = 1 THEN 0 ELSE members
    /\ expiry' = CASE expiry = Never -> Never
                   [] expiry = 1 -> Never
                   [] OTHER -> expiry - 1
    /\ left' = Less(left)
    /\ letIn' = IF left > 1 THEN letIn ELSE 0
    /\ unseen' = IF expiry = 1
                  THEN unseen \cup {r \in Rs : pc[r] \in {"expire", "count"}}
                  ELSE unseen

Tick ==
    /\ sweep' = Less(sweep)
    /\ bucket' = [l \in Limiters |-> IF bucket[l] + Limit > Full THEN Full
                                     ELSE bucket[l] + Limit]
    /\ Age
    /\ UNCHANGED <<limiter, pc, mine>>

(* Observation: from any moment on, the requests let in are counted for a  *)
(* window, which is Window intervals between ticks: in more of them a set  *)
(* that lives for Window ticks could be made and dropped.                  *)
Watch ==
    /\ left = 0
    /\ left' = Window
    /\ UNCHANGED <<limiter, sweep, bucket, members, expiry, pc, mine, unseen, letIn>>

Serve(r) == \/ GetLimiter(r) \/ Allow(r) \/ Add(r) \/ Expire(r) \/ Count(r)
            \/ Leave(r)

Next == \/ \E r \in Rs : Arrive(r) \/ Serve(r)
        \/ Sweep
        \/ Tick
        \/ Watch

Spec == Init /\ [][Next]_vars

(* Time passes, the goroutines run, and Redis answers, if with an error.   *)
(* Nobody is obliged to send requests.                                     *)
FairSpec == /\ Spec
            /\ WF_vars(Tick) /\ WF_vars(Sweep)
            /\ \A r \in Rs : WF_vars(Serve(r))

-----------------------------------------------------------------------------
(* Every variable has its type: a bucket is never overdrawn, nor does it    *)
(* hold more than the burst.                                               *)
TypeOK ==
    /\ limiter \in Limiters \cup {NoLimiter}
    /\ sweep \in 0 .. 2 * Window
    /\ bucket \in [Limiters -> 0 .. Full]
    /\ members \in 0 .. Many
    /\ expiry \in 1 .. Never
    /\ pc \in [Rs -> Steps]
    /\ mine \in [Rs -> Limiters \cup {NoLimiter}]
    /\ unseen \subseteq Rs
    /\ left \in 0 .. Window
    /\ letIn \in Nat

(* What one window lets in at most.  It is not the configured limit but    *)
(* four times that: the burst of the bucket that is swept, the burst of    *)
(* the one made in its place, a window's refill, and the members the       *)
(* sorted set admits on top; and the requests under way, once for those    *)
(* that hold a bucket swept before or are about to count the old set, and  *)
(* once more for those that hold the bucket that is swept.  Requests that  *)
(* Redis has not counted are left out (their number is not bounded).       *)
AdmissionsBounded == letIn <= 4 * Limit + 2 * Cardinality(Rs)

(* An address that never stops asking is let in again and again: the       *)
(* sorted set, which its refused requests keep alive and full, may refuse  *)
(* it for ever, but a bucket is full when it is made, and until then the   *)
(* old one refills whatever it refuses.                                    *)
NotShutOut ==
    (\E r \in Rs : []<>(pc[r] = "allow"))
        => []<>(\E r \in Rs : pc[r] = "passed")

=============================================================================
