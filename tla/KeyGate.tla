------------------------------ MODULE KeyGate -------------------------------
(***************************************************************************)
(* What stands between a request and the engine behind the limit on its    *)
(* address: APIKeyMiddleware with its cache of developers in Redis, and    *)
(* checkRateLimit with a counter in Redis for every user and clock hour.   *)
(* One key and one user; a key can be deactivated and activated in the     *)
(* database at any time, and every command to Redis can fail.              *)
(*                                                                         *)
(* Time passes in ticks, Hour of them to an hour, KeyTTL of them to the    *)
(* five minutes of a cached developer.  Only two clock hours matter: 0 is  *)
(* the present one, 1 the one before it.                                   *)
(***************************************************************************)
EXTENDS Naturals, FiniteSets

CONSTANTS Rs,       \* requests with the key, concurrent ones included
          KeyTTL,   \* life of a cached developer
          Hour,     \* ticks of an hour
          Quota     \* MaxConcurrent: jobs of one user in a clock hour

ASSUME KeyGateAssumption ==
    /\ KeyTTL \in Nat \ {0}
    /\ Hour \in Nat \ {0}
    /\ Quota \in Nat \ {0}
    /\ IsFiniteSet(Rs)

VARIABLES
    active,   \* developers.is_active of the key
    cached,   \* ticks until "apikey:<key>" expires, 0 without an entry
    minute,   \* ticks of the present clock hour gone by
    count,    \* [{0, 1} -> 0 .. Quota + 1]: the counters, up to the first refusal
    expiry,   \* [{0, 1} -> 1 .. Never]: ticks until they expire
    pc,       \* [Rs -> Steps]
    hour,     \* [Rs -> {0, 1}]: the hour in the name of the request's counter
    reply,    \* [Rs -> 0 .. Quota + 1]: what INCR has answered
    early,    \* observation: the requests about to cache a row that they
              \* have read while it was active
    quiet,    \* observation: ticks since the key was deactivated or, later
              \* than that, cached by such a request, up to KeyTTL; 0 while
              \* it is active
    left,     \* observation: what is left of the hour under watch, 0 without
    letIn     \* observation: jobs let in and counted in it

keyVars == <<active, cached, early, quiet>>
watchVars == <<left, letIn>>
counterVars == <<minute, count, expiry, hour, reply, watchVars>>
vars == <<keyVars, counterVars, pc>>

Never == Hour + 1
Hours == {0, 1}
Steps == {"idle", "look", "query", "store", "name", "incr", "expire",
          "compare", "in", "refused"}

Init ==
    /\ active \in BOOLEAN
    /\ cached = 0
    /\ minute = 0
    /\ count = [h \in Hours |-> 0]
    /\ expiry = [h \in Hours |-> Never]
    /\ pc = [r \in Rs |-> "idle"]
    /\ hour = [r \in Rs |-> 0]
    /\ reply = [r \in Rs |-> 0]
    /\ early = {}
    /\ quiet = 0
    /\ left = 0
    /\ letIn = 0

To(r, step) == pc' = [pc EXCEPT ![r] = step]

Arrive(r) ==
    /\ pc[r] = "idle"
    /\ To(r, "look")
    /\ UNCHANGED <<keyVars, counterVars>>

-----------------------------------------------------------------------------
(* APIKeyMiddleware.                                                       *)

(* getDeveloperFromCache: a failed GET is a miss.                          *)
Look(r) ==
    /\ pc[r] = "look"
    /\ \/ cached > 0 /\ To(r, "name")
       \/ To(r, "query")
    /\ UNCHANGED <<keyVars, counterVars>>

(* What the query has read, for Store.                                     *)
Reads(r) == early' = IF active THEN early \cup {r} ELSE early

(* Mutant of Query: is_active is forgotten.                                *)
QueryUnchecked(r) ==
    /\ pc[r] = "query"
    /\ \/ To(r, "store") /\ Reads(r)
       \/ To(r, "refused") /\ UNCHANGED early
    /\ UNCHANGED <<active, cached, quiet, counterVars>>

(* validateAPIKeyInDB: no row, an inactive one or an error is a 401.       *)
Query(r) ==
    /\ pc[r] = "query"
    /\ \/ active /\ To(r, "store") /\ Reads(r)
       \/ To(r, "refused") /\ UNCHANGED early
    /\ UNCHANGED <<active, cached, quiet, counterVars>>

(* cacheDeveloper, without a look at what has become of the row; the error *)
(* of SET is dropped.                                                      *)
Store(r) ==
    /\ pc[r] = "store"
    /\ \/ cached' = KeyTTL /\ quiet' = IF r \in early THEN 0 ELSE quiet
       \/ UNCHANGED <<cached, quiet>>
    /\ early' = early \ {r}
    /\ To(r, "name")
    /\ UNCHANGED <<active, counterVars>>

(* Somebody deactivates or activates the developer in the database.        *)
Toggle ==
    /\ active' = ~active
    /\ quiet' = 0
    /\ UNCHANGED <<cached, early, counterVars, pc>>

-----------------------------------------------------------------------------
(* checkRateLimit, called by Dispatch.                                     *)

(* The counter's name has the clock hour in it.                            *)
NameCounter(r) ==
    /\ pc[r] = "name"
    /\ hour' = [hour EXCEPT ![r] = 0]
    /\ To(r, "incr")
    /\ UNCHANGED <<keyVars, minute, count, expiry, reply, watchVars>>

OneMore(n) == IF n > Quota THEN n ELSE n + 1

(* A failed INCR lets the job in, although it may have counted it.         *)
Increment(r) ==
    /\ pc[r] = "incr"
    /\ LET h == hour[r] IN
         \/ /\ count' = [count EXCEPT ![h] = OneMore(@)]
            /\ reply' = [reply EXCEPT ![r] = OneMore(count[h])]
            /\ To(r, IF count[h] = 0 THEN "expire" ELSE "compare")
         \/ /\ count' \in {count, [count EXCEPT ![h] = OneMore(@)]}
            /\ To(r, "in")
            /\ UNCHANGED reply
    /\ UNCHANGED <<keyVars, minute, expiry, hour, watchVars>>

(* Mutant of Expire: the counter outlives its hour and the next.           *)
ExpireLate(r) ==
    /\ pc[r] = "expire"
    /\ expiry' = [expiry EXCEPT ![hour[r]] = 2 * Hour]
    /\ To(r, "compare")
    /\ UNCHANGED <<keyVars, minute, count, hour, reply, watchVars>>

(* The first of an hour sets the expiry, if the command gets through.      *)
Expire(r) ==
    /\ pc[r] = "expire"
    /\ \/ expiry' = [expiry EXCEPT ![hour[r]] =
                       IF count[hour[r]] > 0 THEN Hour ELSE @]
       \/ UNCHANGED expiry
    /\ To(r, "compare")
    /\ UNCHANGED <<keyVars, minute, count, hour, reply, watchVars>>

(* Mutant of Compare: one more is let in.                                  *)
CompareOneMore(r) ==
    /\ pc[r] = "compare"
    /\ IF reply[r] <= Quota + 1
       THEN To(r, "in") /\ letIn' = IF left > 0 THEN letIn + 1 ELSE letIn
       ELSE To(r, "refused") /\ UNCHANGED letIn
    /\ UNCHANGED <<keyVars, minute, count, expiry, hour, reply, left>>

Compare(r) ==
    /\ pc[r] = "compare"
    /\ IF reply[r] <= Quota
       THEN To(r, "in") /\ letIn' = IF left > 0 THEN letIn + 1 ELSE letIn
       ELSE To(r, "refused") /\ UNCHANGED letIn
    /\ UNCHANGED <<keyVars, minute, count, expiry, hour, reply, left>>

Leave(r) ==
    /\ pc[r] \in {"in", "refused"}
    /\ To(r, "idle")
    /\ hour' = [hour EXCEPT ![r] = 0]
    /\ reply' = [reply EXCEPT ![r] = 0]
    /\ UNCHANGED <<keyVars, minute, count, expiry, watchVars>>

-----------------------------------------------------------------------------
(* Time.                                                                   *)

Less(n) == IF n = 0 THEN 0 ELSE n - 1

(* Redis drops a counter whose time has come.                              *)
Runs(h) == expiry[h] = 1
CountLeft(h) == IF Runs(h) THEN 0 ELSE count[h]
ExpiryLeft(h) == IF Runs(h) \/ expiry[h] = Never THEN Never ELSE expiry[h] - 1

(* A new clock hour: the counter of this one becomes the last one's, and   *)
(* nobody will ask for the one before that again.                          *)
HourTurns ==
    /\ minute = Hour - 1
    /\ minute' = 0
    /\ count' = [h \in Hours |-> IF h = 0 THEN 0 ELSE CountLeft(0)]
    /\ expiry' = [h \in Hours |-> IF h = 0 THEN Never ELSE ExpiryLeft(0)]
    /\ hour' = [r \in Rs |-> IF pc[r] \in {"incr", "expire", "compare"}
                             THEN 1 ELSE hour[r]]

HourGoesOn ==
    /\ minute < Hour - 1
    /\ minute' = minute + 1
    /\ count' = [h \in Hours |-> CountLeft(h)]
    /\ expiry' = [h \in Hours |-> ExpiryLeft(h)]
    /\ UNCHANGED hour

(* A bound: no command takes so long that a second hour ends under it.     *)
InTime == \A r \in Rs : hour[r] = 0 \/ minute < Hour - 1

Tick ==
    /\ InTime
    /\ HourTurns \/ HourGoesOn
    /\ cached' = Less(cached)
    /\ quiet' = IF active \/ quiet = KeyTTL THEN quiet ELSE quiet + 1
    /\ left' = Less(left)
    /\ letIn' = IF left > 1 THEN letIn ELSE 0
    /\ UNCHANGED <<active, early, pc, reply>>

(* Observation: from any moment on, the jobs let in are counted for an     *)
(* hour.  So long a time has Hour ticks in it.                             *)
Watch ==
    /\ left = 0
    /\ left' = Hour + 1
    /\ UNCHANGED <<keyVars, minute, count, expiry, hour, reply, letIn, pc>>

Next ==
    \/ \E r \in Rs : \/ Arrive(r) \/ Look(r) \/ Query(r) \/ Store(r)
                     \/ NameCounter(r) \/ Increment(r) \/ Expire(r)
                     \/ Compare(r) \/ Leave(r)
    \/ Toggle
    \/ Tick
    \/ Watch

Spec == Init /\ [][Next]_vars

-----------------------------------------------------------------------------
(* Every variable has its type.                                            *)
TypeOK ==
    /\ active \in BOOLEAN
    /\ cached \in 0 .. KeyTTL
    /\ minute \in 0 .. Hour - 1
    /\ count \in [Hours -> 0 .. Quota + 1]
    /\ expiry \in [Hours -> 1 .. Never]
    /\ pc \in [Rs -> Steps]
    /\ hour \in [Rs -> Hours]
    /\ reply \in [Rs -> 0 .. Quota + 1]
    /\ early \subseteq Rs
    /\ quiet \in 0 .. KeyTTL
    /\ left \in 0 .. Hour + 1
    /\ letIn \in Nat

(* A deactivated key runs out of the cache: its entry is gone five minutes *)
(* after the deactivation, or after the last request that had read the row *)
(* while it was active and cached it afterwards.  No hit makes the entry   *)
(* last longer, and no request caches a row it has read inactive.          *)
RevokedKeyRunsOut == ~active => cached + quiet <= KeyTTL

(* One hour, wherever it begins, lets in at most twice what the limit      *)
(* allows for a clock hour, and twice the requests under way: those whose  *)
(* counter is named after an hour that is over may find it dropped, and    *)
(* start it again.                                                         *)
QuotaBounded == letIn <= 2 * (Quota + Cardinality(Rs))

=============================================================================
