--------------------------- MODULE RequestsProofs ---------------------------
(***************************************************************************)
(* Theorems about Requests, for every number of requests, templates and    *)
(* entries of a batch, and whatever templates may demand.                  *)
(*                                                                         *)
(* A request is in one of four phases.  While it works on its entries the  *)
(* jobs slice stands in a fixed relation to the entries behind it (Slice); *)
(* while it dispatches, the results and the accepted jobs do too (Sent).   *)
(* Both are stated of plain values first: J is the jobs slice, n its       *)
(* length, S the entries without a job, d the entries behind the handler.  *)
(***************************************************************************)
EXTENDS Requests, TLAPS

Places == 1 .. MaxBatch
Slices == [Places -> 0 .. MaxBatch]

(* The entries of which the answer is meant to be right.                   *)
DueOf(api, S, i) == api => \A s \in S : i <= s

Slice(api, J, n, S, d) ==
    /\ S \subseteq 1 .. d
    /\ n <= d
    /\ ~api \/ S = {} => n = d
    /\ \A k \in Places : k > n => J[k] = 0
    /\ \A k \in 1 .. n : J[k] = 0 => ~api /\ k \in S
    /\ \A k \in 1 .. n : J[k] # 0 =>
          /\ J[k] \in (1 .. d) \ S
          /\ DueOf(api, S, J[k]) => J[k] = k
    /\ \A i \in (1 .. d) \ S : DueOf(api, S, i) => i <= n /\ J[i] = i

(* With d entries, before the job at place a: T are the entries whose job  *)
(* is accepted, R the results.                                             *)
Sent(api, J, S, d, a, T, R) ==
    /\ \A i \in 1 .. d : DueOf(api, S, i) =>
          /\ i \in S => i \notin T /\ R[i] # "queued"
          /\ i \notin S /\ i < a => (i \in T <=> R[i] = "queued")
          /\ i \notin S /\ i >= a => i \notin T /\ R[i] = "queued"
    /\ \A i \in T : \E k \in 1 .. a - 1 : J[k] = i

-----------------------------------------------------------------------------
LEMMA SliceAdd ==
    ASSUME NEW api \in BOOLEAN, NEW J \in Slices, NEW n \in Nat, NEW d \in Nat,
           d < MaxBatch, NEW S, Slice(api, J, n, S, d)
    PROVE  Slice(api, [J EXCEPT ![n + 1] = d + 1], n + 1, S, d + 1)
  <1> DEFINE K == [J EXCEPT ![n + 1] = d + 1]
  <1>0. MaxBatch \in Nat
    BY RequestsAssumption
  <1>1. /\ n + 1 \in Places /\ K[n + 1] = d + 1
        /\ \A k \in Places : k # n + 1 => K[k] = J[k]
    BY <1>0 DEF Slice, Places, Slices
  <1>2. S \subseteq 1 .. d /\ n <= d /\ (~api \/ S = {} => n = d)
    BY DEF Slice
  <1>3. DueOf(api, S, d + 1) => n = d
    BY <1>2 DEF DueOf
  <1>4. \A k \in 1 .. n + 1 : k \in 1 .. n \/ k = n + 1
    OBVIOUS
  <1>5. \A k \in 1 .. n : k \in Places /\ K[k] = J[k]
    BY <1>0, <1>1, <1>2 DEF Places
  <1>6. \A k \in 1 .. n + 1 : K[k] # 0 =>
          /\ K[k] \in (1 .. d + 1) \ S
          /\ DueOf(api, S, K[k]) => K[k] = k
    BY <1>1, <1>2, <1>3, <1>4, <1>5 DEF Slice
  <1>7. \A i \in (1 .. d + 1) \ S : DueOf(api, S, i) => i <= n + 1 /\ K[i] = i
    <2>1. TAKE i \in (1 .. d + 1) \ S
    <2>2. CASE i = d + 1
      BY <2>2, <1>1, <1>3
    <2>3. CASE i \in 1 .. d
      BY <2>3, <1>5 DEF Slice
    <2> QED
      BY <2>1, <2>2, <2>3
  <1>8. \A k \in 1 .. n + 1 : K[k] = 0 => ~api /\ k \in S
    BY <1>1, <1>4, <1>5 DEF Slice
  <1>9. \A k \in Places : k > n + 1 => K[k] = 0
    BY <1>0, <1>1 DEF Slice, Places
  <1> QED
    BY <1>2, <1>6, <1>7, <1>8, <1>9 DEF Slice

LEMMA SliceFail ==
    ASSUME NEW api \in BOOLEAN, NEW J \in Slices, NEW n \in Nat, NEW d \in Nat,
           d < MaxBatch, NEW S, Slice(api, J, n, S, d)
    PROVE  Slice(api, J, IF api THEN n ELSE n + 1, S \cup {d + 1}, d + 1)
  <1> DEFINE m == IF api THEN n ELSE n + 1
             Z == S \cup {d + 1}
  <1>0. MaxBatch \in Nat /\ m \in Nat
    BY RequestsAssumption
  <1>1. S \subseteq 1 .. d /\ n <= d /\ (~api \/ S = {} => n = d)
    BY DEF Slice
  <1>2. \A i \in 1 .. d : DueOf(api, Z, i) => DueOf(api, S, i)
    BY DEF DueOf
  <1>3. Z \subseteq 1 .. d + 1 /\ m <= d + 1 /\ (~api \/ Z = {} => m = d + 1)
    BY <1>1
  <1>4. \A k \in Places : k > m => J[k] = 0
    BY <1>0 DEF Slice, Places
  <1>5. \A k \in 1 .. m : k \in 1 .. n \/ (~api /\ k = n + 1 /\ k = d + 1)
    BY <1>1
  <1>6. ~api => J[n + 1] = 0
    BY <1>0, <1>1 DEF Slice, Places
  <1>7. \A k \in 1 .. m : J[k] = 0 => ~api /\ k \in Z
    BY <1>5 DEF Slice
  <1>8. \A k \in 1 .. m : J[k] # 0 =>
          /\ J[k] \in (1 .. d + 1) \ Z
          /\ DueOf(api, Z, J[k]) => J[k] = k
    <2>1. TAKE k \in 1 .. m
    <2>2. HAVE J[k] # 0
    <2>3. k \in 1 .. n
      BY <2>1, <2>2, <1>5, <1>6
    <2>4. /\ J[k] \in (1 .. d) \ S
          /\ DueOf(api, S, J[k]) => J[k] = k
      BY <2>2, <2>3 DEF Slice
    <2> QED
      BY <2>4, <1>2
  <1>9. \A i \in (1 .. d + 1) \ Z : DueOf(api, Z, i) => i <= m /\ J[i] = i
    <2>1. TAKE i \in (1 .. d + 1) \ Z
    <2>2. i \in (1 .. d) \ S
      BY <2>1
    <2> QED
      BY <2>2, <1>2, <1>0 DEF Slice
  <1> QED
    BY <1>3, <1>4, <1>7, <1>8, <1>9 DEF Slice

(* The job at place a is refused, which is noted there, or accepted.       *)
LEMMA SentRefused ==
    ASSUME NEW api \in BOOLEAN, NEW J \in Slices, NEW n \in Nat, NEW S,
           NEW d \in 0 .. MaxBatch, Slice(api, J, n, S, d), NEW T,
           NEW R \in [Places -> Results], NEW a \in 1 .. n, J[a] # 0,
           Sent(api, J, S, d, a, T, R)
    PROVE  Sent(api, J, S, d, a + 1, T, [R EXCEPT ![a] = "failed"])
  <1> DEFINE Q == [R EXCEPT ![a] = "failed"]
  <1>0. /\ MaxBatch \in Nat /\ a \in 1 .. d /\ a \in Places
    BY RequestsAssumption DEF Slice, Places
  <1>1. Q[a] = "failed" /\ \A i \in 1 .. d : i # a => Q[i] = R[i]
    BY <1>0 DEF Places
  <1>2. ASSUME NEW i \in 1 .. d, DueOf(api, S, i)
        PROVE  /\ i \in S => i \notin T /\ Q[i] # "queued"
               /\ i \notin S /\ i < a + 1 => (i \in T <=> Q[i] = "queued")
               /\ i \notin S /\ i >= a + 1 => i \notin T /\ Q[i] = "queued"
    BY <1>0, <1>1, <1>2 DEF Sent
  <1>3. \A i \in T : \E k \in 1 .. (a + 1) - 1 : J[k] = i
    <2>1. \A k \in 1 .. a - 1 : k \in 1 .. (a + 1) - 1
      OBVIOUS
    <2> QED
      BY <2>1 DEF Sent
  <1> QED
    BY <1>2, <1>3 DEF Sent

LEMMA SentAccepted ==
    ASSUME NEW api \in BOOLEAN, NEW J \in Slices, NEW n \in Nat, NEW S,
           NEW d \in 0 .. MaxBatch, Slice(api, J, n, S, d), NEW T,
           NEW R \in [Places -> Results], NEW a \in 1 .. n, J[a] # 0,
           Sent(api, J, S, d, a, T, R)
    PROVE  Sent(api, J, S, d, a + 1, T \cup {J[a]}, R)
  <1> DEFINE U == T \cup {J[a]}
  <1>0. /\ a \in 1 .. d
        /\ J[a] \in (1 .. d) \ S
        /\ DueOf(api, S, J[a]) => J[a] = a
    BY RequestsAssumption DEF Slice
  <1>1. ASSUME NEW i \in 1 .. d, DueOf(api, S, i)
        PROVE  /\ i \in S => i \notin U /\ R[i] # "queued"
               /\ i \notin S /\ i < a + 1 => (i \in U <=> R[i] = "queued")
               /\ i \notin S /\ i >= a + 1 => i \notin U /\ R[i] = "queued"
    <2>1. i \in S => i # J[a]
      BY <1>0
    <2>2. i = J[a] => i = a
      BY <1>0, <1>1
    <2>3. i = a /\ i \notin S => i = J[a]
      BY <1>1 DEF Slice
    <2> QED
      BY <1>0, <1>1, <2>1, <2>2, <2>3 DEF Sent
  <1>2. \A i \in U : \E k \in 1 .. (a + 1) - 1 : J[k] = i
    <2>1. \A k \in 1 .. a - 1 : k \in 1 .. (a + 1) - 1
      OBVIOUS
    <2>2. a \in 1 .. (a + 1) - 1
      OBVIOUS
    <2> QED
      BY <2>1, <2>2 DEF Sent
  <1> QED
    BY <1>1, <1>2 DEF Sent

-----------------------------------------------------------------------------
(* The flow of a request from its entries to its answer.                   *)
Busy == {"entry", "user", "add"} \cup RenderSteps
Api(r) == kind[r].side = "api"
Single(r) == kind[r].call # "batch"

Collecting(r) ==
    /\ status[r] = 0 /\ taken[r] = {} /\ at[r] <= size[r]
    /\ Slice(Api(r), jobs[r], njobs[r], skipped[r], at[r] - 1)
    /\ \A i \in 1 .. at[r] - 1 : result[r][i] = "queued" <=> i \notin skipped[r]
    /\ Single(r) => size[r] = 1

Dispatching(r) ==
    /\ status[r] = 0 /\ at[r] <= njobs[r] + 1
    /\ Slice(Api(r), jobs[r], njobs[r], skipped[r], size[r])
    /\ Sent(Api(r), jobs[r], skipped[r], size[r], at[r], taken[r], result[r])
    /\ Single(r) => size[r] = 1 /\ skipped[r] = {} /\ at[r] = 1

Truthful(r) ==
    status[r] = 202 =>
       \A i \in 1 .. size[r] :
          DueOf(Api(r), skipped[r], i) => (i \in taken[r] <=> result[r][i] = "queued")

Cut(r) ==
    status[r] \in {404, 500, 503} /\ taken[r] # {} =>
       /\ kind[r].call = "batch"
       /\ \A i \in taken[r] : \E k \in 1 .. at[r] - 1 : jobs[r][k] = i
       /\ \/ closed
          \/ kind[r].side = "main" /\ at[r] \in skipped[r]

Flow(r) ==
    /\ pc[r] = "idle" => /\ status[r] = 0 /\ taken[r] = {} /\ skipped[r] = {}
                         /\ at[r] = 1 /\ njobs[r] = 0 /\ jobs[r] = Nowhere
    /\ pc[r] \in Busy => Collecting(r)
    /\ pc[r] = "queue" => Dispatching(r)
    /\ pc[r] = "answered" => Truthful(r) /\ Cut(r)

FlowType ==
    /\ kind \in [Rs -> Kinds]
    /\ pc \in [Rs -> Steps]
    /\ size \in [Rs -> Places]
    /\ at \in [Rs -> 1 .. MaxBatch + 1]
    /\ jobs \in [Rs -> Slices]
    /\ njobs \in [Rs -> 0 .. MaxBatch]
    /\ result \in [Rs -> [Places -> Results]]
    /\ status \in [Rs -> Codes]
    /\ skipped \in [Rs -> SUBSET Places]
    /\ taken \in [Rs -> SUBSET Places]

Untouched(q) ==
    /\ kind'[q] = kind[q] /\ pc'[q] = pc[q] /\ size'[q] = size[q]
    /\ at'[q] = at[q] /\ jobs'[q] = jobs[q] /\ njobs'[q] = njobs[q]
    /\ result'[q] = result[q] /\ status'[q] = status[q]
    /\ skipped'[q] = skipped[q] /\ taken'[q] = taken[q]

(* What a step of the request r does to the flow of all.                   *)
Flows(r) == FlowType' /\ Flow(r)' /\ \A q \in Rs \ {r} : Untouched(q)

LEMMA UntouchedFlow ==
    ASSUME NEW q \in Rs, Flow(q), Untouched(q), closed => closed'
    PROVE  Flow(q)'
  BY DEF Flow, Untouched, Collecting, Dispatching, Truthful, Cut, Api, Single

LEMMA BusySteps ==
    /\ Busy \subseteq Steps
    /\ \A step \in Busy : step \notin {"idle", "queue", "answered"}
  BY DEF Busy, Steps, RenderSteps

LEMMA MoveFlow ==
    ASSUME FlowType, NEW r \in Rs, Flow(r), pc[r] \in Busy, NEW step \in Busy,
           To(r, step), UNCHANGED <<at, outcome, status, kind, size, taken>>
    PROVE  Flows(r)
  <1>1. /\ pc'[r] = step /\ \A q \in Rs \ {r} : pc'[q] = pc[q]
        /\ pc' \in [Rs -> Steps]
    BY BusySteps DEF FlowType, To
  <1>2. Collecting(r)
    BY DEF Flow
  <1>3. Collecting(r)'
    BY <1>2 DEF Collecting, Api, Single, outcome
  <1>4. Flow(r)'
    BY <1>1, <1>3, BusySteps DEF Flow
  <1> QED
    BY <1>1, <1>4 DEF Flows, FlowType, Untouched, outcome

(* An entry is behind the handler: the next one, or the first job.         *)
LEMMA NextEntryFlow ==
    ASSUME FlowType, NEW r \in Rs, Collecting(r), NextEntry(r),
           UNCHANGED <<kind, size, taken, status>>,
           jobs'[r] \in Slices, njobs'[r] \in 0 .. MaxBatch,
           Slice(Api(r), jobs'[r], njobs'[r], skipped'[r], at[r]),
           \A i \in 1 .. at[r] : result'[r][i] = "queued" <=> i \notin skipped'[r],
           Single(r) => skipped'[r] = {}
    PROVE  Flow(r)' /\ pc' \in [Rs -> Steps] /\ at' \in [Rs -> 1 .. MaxBatch + 1]
  <1>0. MaxBatch \in Nat /\ at[r] \in 1 .. MaxBatch /\ at[r] <= size[r]
    BY RequestsAssumption DEF FlowType, Collecting, Places
  <1>1. CASE at[r] = size[r]
    <2>1. /\ at' = [at EXCEPT ![r] = 1]
          /\ pc' = [pc EXCEPT ![r] = "queue"]
      BY <1>1 DEF NextEntry, To
    <2>2. at'[r] = 1 /\ pc'[r] = "queue"
      BY <2>1 DEF FlowType
    <2>3. Sent(Api(r), jobs'[r], skipped'[r], size[r], 1, {}, result'[r])
      BY <1>0, <1>1 DEF Sent
    <2>4. Dispatching(r)'
      <3>1. /\ Api(r)' = Api(r) /\ Single(r)' = Single(r)
            /\ size'[r] = size[r] /\ taken'[r] = {} /\ status'[r] = 0
        BY DEF Collecting, Api, Single
      <3>2. at'[r] <= njobs'[r] + 1
        BY <2>2, <1>0
      <3>3. Slice(Api(r), jobs'[r], njobs'[r], skipped'[r], size'[r])
        BY <1>1, <3>1
      <3>4. Sent(Api(r), jobs'[r], skipped'[r], size'[r], at'[r], taken'[r], result'[r])
        BY <2>2, <2>3, <3>1
      <3>5. Single(r) => size'[r] = 1 /\ skipped'[r] = {} /\ at'[r] = 1
        BY <2>2, <3>1 DEF Collecting
      <3> QED
        BY <3>1, <3>2, <3>3, <3>4, <3>5 DEF Dispatching
    <2>5. Flow(r)'
      BY <2>2, <2>4, BusySteps DEF Flow
    <2> QED
      BY <2>1, <2>5, <1>0 DEF FlowType, Steps
  <1>2. CASE at[r] # size[r]
    <2>1. /\ at' = [at EXCEPT ![r] = @ + 1]
          /\ pc' = [pc EXCEPT ![r] = "entry"]
      BY <1>2 DEF NextEntry, To
    <2>2. at'[r] = at[r] + 1 /\ pc'[r] = "entry"
      BY <2>1 DEF FlowType
    <2>3. at'[r] - 1 = at[r] /\ at'[r] <= size[r] /\ at'[r] \in 1 .. MaxBatch + 1
      BY <2>2, <1>0, <1>2 DEF FlowType, Places
    <2>4. Collecting(r)'
      BY <2>3 DEF Collecting, Api, Single
    <2>5. "entry" \in Busy
      BY DEF Busy
    <2>6. Flow(r)'
      BY <2>2, <2>4, <2>5, BusySteps DEF Flow
    <2> QED
      BY <2>1, <2>3, <2>6 DEF FlowType, Steps
  <1> QED
    BY <1>1, <1>2

LEMMA AddJobFlow ==
    ASSUME FlowType, NEW r \in Rs, Flow(r), pc[r] \in Busy, AddJob(r),
           UNCHANGED <<kind, size, taken>>
    PROVE  Flows(r)
  <1>0. MaxBatch \in Nat /\ at[r] \in 1 .. MaxBatch /\ Collecting(r)
    BY RequestsAssumption DEF FlowType, Flow, Collecting, Places
  <1>1. /\ jobs'[r] = [jobs[r] EXCEPT ![njobs[r] + 1] = at[r]]
        /\ njobs'[r] = njobs[r] + 1
        /\ result'[r] = [result[r] EXCEPT ![at[r]] = "queued"]
        /\ skipped' = skipped /\ status' = status
    BY DEF AddJob, FlowType
  <1>2. njobs[r] \in Nat /\ njobs[r] <= at[r] - 1 /\ at[r] - 1 \in Nat
    BY <1>0 DEF FlowType, Collecting, Slice
  <1>3. Slice(Api(r), jobs'[r], njobs'[r], skipped'[r], at[r])
    <2>1. Slice(Api(r), [jobs[r] EXCEPT ![njobs[r] + 1] = (at[r] - 1) + 1],
                njobs[r] + 1, skipped[r], (at[r] - 1) + 1)
      <3>1. Api(r) \in BOOLEAN /\ jobs[r] \in Slices /\ at[r] - 1 < MaxBatch
        BY <1>0 DEF Api, FlowType
      <3>2. Slice(Api(r), jobs[r], njobs[r], skipped[r], at[r] - 1)
        BY <1>0 DEF Collecting
      <3> QED
        BY <1>2, <3>1, <3>2, SliceAdd
    <2>2. (at[r] - 1) + 1 = at[r]
      BY <1>0
    <2> QED
      BY <2>1, <2>2, <1>1
  <1>4. jobs'[r] \in Slices /\ njobs'[r] \in 0 .. MaxBatch /\ njobs[r] + 1 \in Places
    BY <1>0, <1>1, <1>2 DEF FlowType, Slices, Places
  <1>5. \A i \in 1 .. at[r] : result'[r][i] = "queued" <=> i \notin skipped'[r]
    <2>1. at[r] \notin skipped[r]
      BY <1>0 DEF Collecting, Slice
    <2>2. \A i \in 1 .. at[r] : i = at[r] \/ i \in 1 .. at[r] - 1
      BY <1>0
    <2>3. result'[r][at[r]] = "queued"
          /\ \A i \in 1 .. at[r] - 1 : result'[r][i] = result[r][i]
      BY <1>0, <1>1 DEF FlowType, Places
    <2> QED
      BY <2>1, <2>2, <2>3, <1>0, <1>1 DEF Collecting
  <1>6. Single(r) => skipped'[r] = {}
    BY <1>0, <1>1 DEF Collecting, Slice
  <1>7. Flow(r)' /\ pc' \in [Rs -> Steps] /\ at' \in [Rs -> 1 .. MaxBatch + 1]
    BY <1>0, <1>1, <1>3, <1>4, <1>5, <1>6, NextEntryFlow DEF AddJob
  <1>8. /\ jobs' \in [Rs -> Slices] /\ njobs' \in [Rs -> 0 .. MaxBatch]
        /\ result' \in [Rs -> [Places -> Results]]
    BY <1>0, <1>4 DEF AddJob, FlowType, Slices, Places, Results
  <1>9. ASSUME NEW q \in Rs \ {r} PROVE Untouched(q)
    BY DEF AddJob, NextEntry, To, FlowType, Untouched
  <1> QED
    BY <1>1, <1>7, <1>8, <1>9 DEF Flows, FlowType

LEMMA FailEntryFlow ==
    ASSUME FlowType, NEW r \in Rs, Flow(r), pc[r] \in Busy,
           NEW why \in {"user", "template"}, FailEntry(r, why),
           UNCHANGED <<kind, size, taken>>
    PROVE  Flows(r)
  <1>0. MaxBatch \in Nat /\ at[r] \in 1 .. MaxBatch /\ Collecting(r)
    BY RequestsAssumption DEF FlowType, Flow, Collecting, Places
  <1>1. /\ jobs' = jobs
        /\ njobs'[r] = IF Api(r) THEN njobs[r] ELSE njobs[r] + 1
        /\ result'[r] = [result[r] EXCEPT ![at[r]] = why]
        /\ skipped'[r] = skipped[r] \cup {at[r]}
    BY DEF FailEntry, FlowType, Api, Kinds
  <1>2. njobs[r] \in Nat /\ njobs[r] <= at[r] - 1 /\ at[r] - 1 \in Nat
    BY <1>0 DEF FlowType, Collecting, Slice
  <1>3. Slice(Api(r), jobs'[r], njobs'[r], skipped'[r], at[r])
    <2>1. Slice(Api(r), jobs[r], IF Api(r) THEN njobs[r] ELSE njobs[r] + 1,
                skipped[r] \cup {(at[r] - 1) + 1}, (at[r] - 1) + 1)
      <3>1. Api(r) \in BOOLEAN /\ jobs[r] \in Slices /\ at[r] - 1 < MaxBatch
        BY <1>0 DEF Api, FlowType
      <3>2. Slice(Api(r), jobs[r], njobs[r], skipped[r], at[r] - 1)
        BY <1>0 DEF Collecting
      <3> QED
        BY <1>2, <3>1, <3>2, SliceFail
    <2>2. (at[r] - 1) + 1 = at[r]
      BY <1>0
    <2> QED
      BY <2>1, <2>2, <1>1
  <1>4. jobs'[r] \in Slices /\ njobs'[r] \in 0 .. MaxBatch
    BY <1>0, <1>1, <1>2 DEF FlowType
  <1>5. \A i \in 1 .. at[r] : result'[r][i] = "queued" <=> i \notin skipped'[r]
    <2>1. \A i \in 1 .. at[r] : i = at[r] \/ i \in 1 .. at[r] - 1
      BY <1>0
    <2>2. result'[r][at[r]] = why
          /\ \A i \in 1 .. at[r] - 1 : result'[r][i] = result[r][i] /\ i # at[r]
      BY <1>0, <1>1 DEF FlowType, Places
    <2> QED
      BY <2>1, <2>2, <1>0, <1>1 DEF Collecting
  <1>6. /\ njobs' \in [Rs -> 0 .. MaxBatch]
        /\ result' \in [Rs -> [Places -> Results]]
        /\ skipped' \in [Rs -> SUBSET Places]
    BY <1>0, <1>1, <1>4 DEF FailEntry, FlowType, Places, Results
  <1>7. CASE kind[r].call = "batch"
    <2>1. NextEntry(r) /\ status' = status
      BY <1>7 DEF FailEntry
    <2>2. Flow(r)' /\ pc' \in [Rs -> Steps] /\ at' \in [Rs -> 1 .. MaxBatch + 1]
      BY <1>0, <1>3, <1>4, <1>5, <1>7, <2>1, NextEntryFlow DEF Single
    <2>3. ASSUME NEW q \in Rs \ {r} PROVE Untouched(q)
      BY <2>1 DEF FailEntry, NextEntry, To, FlowType, Untouched
    <2> QED
      BY <1>1, <1>6, <2>1, <2>2, <2>3 DEF Flows, FlowType
  <1>8. CASE kind[r].call # "batch"
    <2>1. /\ status' = [status EXCEPT ![r] = IF why = "user" THEN 404 ELSE 500]
          /\ pc' = [pc EXCEPT ![r] = "answered"]
          /\ at' = at
      BY <1>8 DEF FailEntry, To
    <2>2. pc'[r] = "answered" /\ status'[r] \in {404, 500} /\ taken'[r] = {}
      BY <2>1, <1>0 DEF FlowType, Collecting
    <2>3. Flow(r)'
      BY <2>2, BusySteps DEF Flow, Truthful, Cut
    <2>4. ASSUME NEW q \in Rs \ {r} PROVE Untouched(q)
      BY <2>1 DEF FailEntry, FlowType, Untouched
    <2> QED
      BY <1>1, <1>6, <2>1, <2>3, <2>4 DEF Flows, FlowType, Codes, Steps
  <1> QED
    BY <1>7, <1>8

(* Everything a request does while it works on its entries.                *)
LEMMA EntrySteps ==
    ASSUME NEW r \in Rs,
           \/ Entry(r) \/ FindUser(r) \/ HaveMail(r)
           \/ Custom(r) \/ FileLook(r) \/ FileMiss(r) \/ FileParse(r)
           \/ FileStore(r) \/ EngLook(r) \/ EngParse(r) \/ EngStore(r)
    PROVE  /\ pc[r] \in Busy
           /\ UNCHANGED <<kind, size, taken>>
           /\ \/ AddJob(r)
              \/ \E why \in {"user", "template"} : FailEntry(r, why)
              \/ \E step \in Busy : To(r, step) /\ UNCHANGED <<at, outcome, status>>
  <1>0. RenderSteps \subseteq Busy /\ {"entry", "user", "add"} \subseteq Busy
    BY DEF Busy
  <1>1. CASE Entry(r)
    BY <1>1, <1>0 DEF Entry, RenderSteps
  <1>2. CASE FindUser(r)
    BY <1>2, <1>0 DEF FindUser, RenderSteps
  <1>3. CASE HaveMail(r)
    BY <1>3, <1>0 DEF HaveMail
  <1>4. ASSUME NEW t, ByManager(r, t)
        PROVE  \E step \in Busy : To(r, step) /\ UNCHANGED <<at, outcome, status>>
    BY <1>0, <1>4 DEF ByManager, Render, Stumble, Move, RenderSteps
  <1>5. CASE Custom(r)
    BY <1>5, <1>0, <1>4 DEF Custom, Move, RenderSteps
  <1>6. CASE FileLook(r)
    BY <1>6, <1>0, <1>4 DEF FileLook, Move, RenderSteps
  <1>7. CASE FileMiss(r)
    BY <1>7, <1>0 DEF FileMiss, Move, RenderSteps
  <1>8. CASE FileParse(r)
    BY <1>8, <1>0 DEF FileParse, Move, RenderSteps
  <1>9. CASE FileStore(r)
    BY <1>9, <1>0, <1>4 DEF FileStore, RenderSteps
  <1>10. CASE EngLook(r)
    BY <1>10, <1>0 DEF EngLook, Render, Stumble, Move, RenderSteps
  <1>11. CASE EngParse(r)
    BY <1>11, <1>0 DEF EngParse, Move, RenderSteps
  <1>12. CASE EngStore(r)
    BY <1>12, <1>0 DEF EngStore, Render, Move, RenderSteps
  <1> QED
    BY <1>1, <1>2, <1>3, <1>5, <1>6, <1>7, <1>8, <1>9, <1>10, <1>11, <1>12

LEMMA EntryFlow ==
    ASSUME FlowType, NEW r \in Rs, Flow(r),
           \/ Entry(r) \/ FindUser(r) \/ HaveMail(r)
           \/ Custom(r) \/ FileLook(r) \/ FileMiss(r) \/ FileParse(r)
           \/ FileStore(r) \/ EngLook(r) \/ EngParse(r) \/ EngStore(r)
    PROVE  Flows(r)
  <1>1. /\ pc[r] \in Busy
        /\ UNCHANGED <<kind, size, taken>>
        /\ \/ AddJob(r)
           \/ \E why \in {"user", "template"} : FailEntry(r, why)
           \/ \E step \in Busy : To(r, step) /\ UNCHANGED <<at, outcome, status>>
    BY EntrySteps
  <1>2. CASE AddJob(r)
    BY <1>1, <1>2, AddJobFlow
  <1>3. CASE \E why \in {"user", "template"} : FailEntry(r, why)
    BY <1>1, <1>3, FailEntryFlow
  <1>4. CASE \E step \in Busy : To(r, step) /\ UNCHANGED <<at, outcome, status>>
    BY <1>1, <1>4, MoveFlow
  <1> QED
    BY <1>1, <1>2, <1>3, <1>4

LEMMA BeginFlow ==
    ASSUME FlowType, NEW r \in Rs, Flow(r), Begin(r)
    PROVE  Flows(r)
  <1>0. MaxBatch \in Nat /\ MaxBatch >= 1
    BY RequestsAssumption
  <1>1. PICK k \in Serves[r], n \in 1 .. MaxBatch :
          /\ k.call # "batch" => n = 1
          /\ kind' = [kind EXCEPT ![r] = k]
          /\ size' = [size EXCEPT ![r] = n]
    BY DEF Begin
  <1>2. pc' = [pc EXCEPT ![r] = "entry"]
        /\ UNCHANGED <<at, jobs, njobs, result, skipped, status, taken>>
    BY DEF Begin, To, outcome
  <1>3. k \in Kinds
    BY <1>1, RequestsAssumption
  <1>4. /\ pc'[r] = "entry" /\ kind'[r] = k /\ size'[r] = n
        /\ status'[r] = 0 /\ taken'[r] = {} /\ skipped'[r] = {}
        /\ at'[r] = 1 /\ njobs'[r] = 0 /\ jobs'[r] = Nowhere
    BY <1>1, <1>2 DEF Begin, Flow, FlowType
  <1>5. Slice(Api(r)', Nowhere, 0, {}, 0)
    BY <1>0 DEF Slice, Nowhere, Places
  <1>6. Collecting(r)'
    BY <1>1, <1>4, <1>5 DEF Collecting, Single
  <1>7. Flow(r)'
    BY <1>4, <1>6, BusySteps DEF Flow
  <1>8. FlowType'
    BY <1>1, <1>2, <1>3 DEF FlowType, Places, Steps
  <1>9. ASSUME NEW q \in Rs \ {r} PROVE Untouched(q)
    BY <1>1, <1>2 DEF FlowType, Untouched
  <1> QED
    BY <1>7, <1>8, <1>9 DEF Flows

LEMMA FinishFlow ==
    ASSUME FlowType, NEW r \in Rs, Flow(r), Finish(r)
    PROVE  Flows(r)
  <1>0. MaxBatch \in Nat /\ MaxBatch >= 1
    BY RequestsAssumption
  <1>1. Flow(r)'
    BY BusySteps DEF Finish, To, Flow, FlowType
  <1>2. NoResults \in [Places -> Results] /\ Nowhere \in Slices
    BY <1>0 DEF NoResults, Nowhere, Places, Slices, Results
  <1>3. FlowType'
    BY <1>0, <1>2 DEF Finish, To, FlowType, Steps, Kinds, Codes, Places
  <1>4. ASSUME NEW q \in Rs \ {r} PROVE Untouched(q)
    BY DEF Finish, To, FlowType, Untouched
  <1> QED
    BY <1>1, <1>3, <1>4 DEF Flows

(* The dispatch of a job: in a batch the next one, else an answer.         *)
LEMMA DispatchJobFlow ==
    ASSUME FlowType, NEW r \in Rs, Flow(r), DispatchJob(r)
    PROVE  Flows(r)
  <1> DEFINE api == Api(r)
             a == at[r]
             J == jobs[r]
  <1>0. /\ MaxBatch \in Nat /\ api \in BOOLEAN /\ J \in Slices /\ njobs[r] \in Nat
        /\ result[r] \in [Places -> Results] /\ size[r] \in 0 .. MaxBatch
        /\ a \in 1 .. njobs[r] /\ J[a] # 0
    BY RequestsAssumption DEF FlowType, DispatchJob, Api, Places
  <1>1. Dispatching(r)
    BY DEF DispatchJob, Flow
  <1>2. /\ Slice(api, J, njobs[r], skipped[r], size[r])
        /\ Sent(api, J, skipped[r], size[r], a, taken[r], result[r])
        /\ Single(r) => size[r] = 1 /\ skipped[r] = {} /\ a = 1
        /\ status[r] = 0
    BY <1>1 DEF Dispatching
  <1>3. /\ UNCHANGED <<kind, size, jobs, njobs, skipped>>
        /\ pc[r] = "queue"
    BY DEF DispatchJob
  <1>4. a \in Places /\ a \in 1 .. size[r] /\ J[a] \in Places
        /\ a + 1 \in 1 .. MaxBatch + 1
    BY <1>0, <1>2 DEF Slice, FlowType, Places
  <1>5. CASE Refused(r) /\ kind[r].call = "batch"
    <2>1. /\ result' = [result EXCEPT ![r][at[r]] = "failed"]
          /\ at' = [at EXCEPT ![r] = @ + 1]
          /\ UNCHANGED <<pc, status, taken>>
      BY <1>5 DEF Refused
    <2>2. result'[r] = [result[r] EXCEPT ![a] = "failed"] /\ at'[r] = a + 1
      BY <2>1 DEF FlowType
    <2>3. Sent(api, J, skipped[r], size[r], a + 1, taken[r],
               [result[r] EXCEPT ![a] = "failed"])
      BY <1>0, <1>2, SentRefused
    <2>4. Dispatching(r)'
      BY <1>0, <1>2, <1>3, <1>5, <2>1, <2>2, <2>3 DEF Dispatching, Api, Single
    <2>5. Flow(r)'
      BY <1>3, <2>1, <2>4, BusySteps DEF Flow
    <2>6. FlowType'
      BY <1>3, <1>4, <2>1 DEF FlowType, Results
    <2>7. ASSUME NEW q \in Rs \ {r} PROVE Untouched(q)
      BY <1>3, <2>1 DEF FlowType, Untouched
    <2> QED
      BY <2>5, <2>6, <2>7 DEF Flows
  <1>6. CASE Refused(r) /\ kind[r].call # "batch"
    <2>1. /\ Answer(r, IF kind[r].call = "scheduled" THEN 500 ELSE 503)
          /\ UNCHANGED <<at, result, taken>>
      BY <1>6 DEF Refused
    <2>2. a = 1
      BY <1>2, <1>6 DEF Single
    <2>3. \A i \in taken[r] : \E k \in 1 .. a - 1 : J[k] = i
      BY <1>2 DEF Sent
    <2>4. taken'[r] = {}
      BY <2>1, <2>2, <2>3
    <2>5. pc'[r] = "answered" /\ status'[r] \in {500, 503}
      BY <2>1 DEF Answer, To, FlowType
    <2>6. Flow(r)'
      BY <2>4, <2>5, BusySteps DEF Flow, Truthful, Cut
    <2>7. FlowType'
      BY <1>3, <2>1 DEF FlowType, Answer, To, Codes, Steps
    <2>8. ASSUME NEW q \in Rs \ {r} PROVE Untouched(q)
      BY <1>3, <2>1 DEF FlowType, Untouched, Answer, To
    <2> QED
      BY <2>6, <2>7, <2>8 DEF Flows
  <1>7. CASE Accepted(r)
    <2>1. /\ taken' = [taken EXCEPT ![r] = @ \cup {jobs[r][at[r]]}]
          /\ UNCHANGED result
      BY <1>7 DEF Accepted
    <2>2. taken'[r] = taken[r] \cup {J[a]} /\ taken' \in [Rs -> SUBSET Places]
      BY <2>1, <1>4 DEF FlowType
    <2>3. Sent(api, J, skipped[r], size[r], a + 1, taken[r] \cup {J[a]}, result[r])
      BY <1>0, <1>2, SentAccepted
    <2>4. CASE kind[r].call = "batch"
      <3>1. at' = [at EXCEPT ![r] = @ + 1] /\ UNCHANGED <<pc, status>>
        BY <1>7, <2>4 DEF Accepted
      <3>2. at'[r] = a + 1
        BY <3>1 DEF FlowType
      <3>3. Dispatching(r)'
        BY <1>0, <1>2, <1>3, <2>1, <2>2, <2>3, <2>4, <3>1, <3>2
           DEF Dispatching, Api, Single
      <3>4. Flow(r)'
        BY <1>3, <3>1, <3>3, BusySteps DEF Flow
      <3>5. FlowType'
        BY <1>3, <1>4, <2>1, <2>2, <3>1 DEF FlowType
      <3>6. ASSUME NEW q \in Rs \ {r} PROVE Untouched(q)
        BY <1>3, <2>1, <3>1 DEF FlowType, Untouched
      <3> QED
        BY <3>4, <3>5, <3>6 DEF Flows
    <2>5. CASE kind[r].call # "batch"
      <3>1. Answer(r, 202) /\ UNCHANGED at
        BY <1>7, <2>5 DEF Accepted
      <3>2. pc'[r] = "answered" /\ status'[r] = 202
        BY <3>1 DEF Answer, To, FlowType
      <3>3. size[r] = 1 /\ skipped[r] = {} /\ a = 1
        BY <1>2, <2>5 DEF Single
      <3>4. 1 \in taken'[r] <=> result[r][1] = "queued"
        BY <2>2, <2>3, <3>3 DEF Sent, DueOf
      <3>5. Truthful(r)' /\ Cut(r)'
        BY <1>3, <2>1, <3>2, <3>3, <3>4 DEF Truthful, Cut
      <3>6. Flow(r)'
        BY <3>2, <3>5, BusySteps DEF Flow
      <3>7. FlowType'
        BY <1>3, <2>1, <2>2, <3>1 DEF FlowType, Answer, To, Codes, Steps
      <3>8. ASSUME NEW q \in Rs \ {r} PROVE Untouched(q)
        BY <1>3, <2>1, <3>1 DEF FlowType, Untouched, Answer, To
      <3> QED
        BY <3>6, <3>7, <3>8 DEF Flows
    <2> QED
      BY <2>4, <2>5
  <1>8. CASE closed /\ Panics(r)
    <2>1. Answer(r, 500) /\ UNCHANGED <<at, result, taken>> /\ closed'
      BY <1>8 DEF Panics, DispatchJob
    <2>2. pc'[r] = "answered" /\ status'[r] = 500
      BY <2>1 DEF Answer, To, FlowType
    <2>3. \A i \in taken[r] : \E k \in 1 .. a - 1 : J[k] = i
      BY <1>2 DEF Sent
    <2>4. kind[r].call # "batch" => taken[r] = {}
      BY <1>2, <2>3 DEF Single
    <2>5. Truthful(r)' /\ Cut(r)'
      BY <1>3, <2>1, <2>2, <2>3, <2>4 DEF Truthful, Cut
    <2>6. Flow(r)'
      BY <2>2, <2>5, BusySteps DEF Flow
    <2>7. FlowType'
      BY <1>3, <2>1 DEF FlowType, Answer, To, Codes, Steps
    <2>8. ASSUME NEW q \in Rs \ {r} PROVE Untouched(q)
      BY <1>3, <2>1 DEF FlowType, Untouched, Answer, To
    <2> QED
      BY <2>6, <2>7, <2>8 DEF Flows
  <1> QED
    BY <1>5, <1>6, <1>7, <1>8 DEF DispatchJob

LEMMA BatchEndFlow ==
    ASSUME FlowType, NEW r \in Rs, Flow(r), DispatchNil(r) \/ BatchDone(r)
    PROVE  Flows(r)
  <1>0. Dispatching(r) /\ MaxBatch \in Nat /\ njobs[r] \in Nat /\ at[r] \in Nat \ {0}
    BY RequestsAssumption DEF DispatchNil, BatchDone, Flow, FlowType
  <1>1. /\ UNCHANGED <<kind, size, at, jobs, njobs, result, skipped, taken>>
        /\ pc' = [pc EXCEPT ![r] = "answered"]
        /\ \/ status' = [status EXCEPT ![r] = 202]
           \/ status' = [status EXCEPT ![r] = 500]
    BY DEF DispatchNil, BatchDone, Answer, To, outcome
  <1>2. ASSUME DispatchNil(r) PROVE Truthful(r)' /\ Cut(r)'
    <2>1. status'[r] = 500
      BY <1>2 DEF DispatchNil, Answer, FlowType
    <2>2. at[r] \in 1 .. njobs[r] /\ jobs[r][at[r]] = 0
      BY <1>0, <1>2 DEF DispatchNil
    <2>3. ~Api(r) /\ at[r] \in skipped[r]
      BY <1>0, <2>2 DEF Dispatching, Slice
    <2>4. kind[r].call = "batch" /\ kind[r].side = "main"
      BY <1>0, <2>3 DEF Dispatching, Single, Api, FlowType, Kinds
    <2>5. \A i \in taken[r] : \E k \in 1 .. at[r] - 1 : jobs[r][k] = i
      BY <1>0 DEF Dispatching, Sent
    <2> QED
      BY <1>1, <2>1, <2>3, <2>4, <2>5 DEF Cut, Truthful
  <1>3. ASSUME BatchDone(r) PROVE Truthful(r)' /\ Cut(r)'
    <2>1. status'[r] = 202
      BY <1>3 DEF BatchDone, Answer, FlowType
    <2>2. at[r] = njobs[r] + 1
      BY <1>0, <1>3 DEF BatchDone, Dispatching
    <2>3. ASSUME NEW i \in 1 .. size[r], DueOf(Api(r), skipped[r], i)
          PROVE  i \in taken[r] <=> result[r][i] = "queued"
      <3>1. i \notin skipped[r] => i < at[r]
        BY <1>0, <2>2, <2>3 DEF Dispatching, Slice
      <3> QED
        BY <1>0, <2>3, <3>1 DEF Dispatching, Sent
    <2> QED
      BY <1>1, <2>1, <2>3 DEF Cut, Truthful, Api
  <1>4. Truthful(r)' /\ Cut(r)'
    BY <1>2, <1>3
  <1>5. Flow(r)'
    BY <1>1, <1>4, BusySteps DEF Flow, FlowType
  <1>6. FlowType'
    BY <1>1 DEF FlowType, Codes, Steps
  <1>7. ASSUME NEW q \in Rs \ {r} PROVE Untouched(q)
    BY <1>1 DEF FlowType, Untouched
  <1> QED
    BY <1>5, <1>6, <1>7 DEF Flows

(* What Handle does is one of the following.                               *)
LEMMA HandleCases ==
    ASSUME NEW r \in Rs, Handle(r)
    PROVE  \/ Begin(r) \/ Finish(r)
           \/ DispatchJob(r) \/ DispatchNil(r) \/ BatchDone(r)
           \/ Entry(r) \/ FindUser(r) \/ HaveMail(r)
           \/ Custom(r) \/ FileLook(r) \/ FileMiss(r) \/ FileParse(r)
           \/ FileStore(r) \/ EngLook(r) \/ EngParse(r) \/ EngStore(r)
  <1>1. Begin(r) \/ Finish(r) \/ Step(r)
    BY DEF Handle, Serving, handleUltraDispatch, handleBatchDispatch,
           handleScheduledDispatch, HandleUltraDispatch, HandleBatchDispatch,
           HandleScheduledDispatch
  <1> QED
    BY <1>1 DEF Step

LEMMA HandleLeavesQueue ==
    ASSUME NEW r \in Rs, Handle(r)
    PROVE  closed' = closed
  <1>1. CASE Begin(r) \/ Finish(r) \/ DispatchJob(r) \/ DispatchNil(r) \/ BatchDone(r)
    BY <1>1 DEF Begin, Finish, DispatchJob, DispatchNil, BatchDone
  <1>2. CASE \/ Entry(r) \/ FindUser(r) \/ HaveMail(r) \/ Custom(r) \/ FileLook(r)
             \/ FileMiss(r) \/ FileParse(r) \/ FileStore(r)
             \/ EngLook(r) \/ EngParse(r) \/ EngStore(r)
    BY <1>2 DEF Entry, FindUser, HaveMail, Custom, FileLook, FileMiss, FileParse,
                FileStore, EngLook, EngParse, EngStore
  <1> QED
    BY <1>1, <1>2, HandleCases

LEMMA HandleFlow ==
    ASSUME FlowType, NEW r \in Rs, Flow(r), Handle(r)
    PROVE  Flows(r)
  BY HandleCases, BeginFlow, FinishFlow, DispatchJobFlow, BatchEndFlow, EntryFlow

-----------------------------------------------------------------------------
(* The mail of an entry.                                                   *)
EntryType ==
    /\ name \in [Rs -> Names]
    /\ data \in [Rs -> SUBSET Parts]
    /\ tmpl \in [Rs -> Cached]
    /\ given \in [Rs -> SUBSET Parts]
    /\ shown \in [Rs -> (SUBSET Parts) \cup {NoMail}]
    /\ failures \in [Rs -> SUBSET Executors]
    /\ byManager \in [Rs -> BOOLEAN]
    /\ healthy \in [Rs -> BOOLEAN]

FileType ==
    /\ file \in [Names -> Files]
    /\ fileCache \in [Names -> Cached]
    /\ engCache \in [Names -> Cached]

(* The entry waits for a mail: what its map has lost, an execution took.   *)
Waiting(r) == pc[r] \in RenderSteps \/ (pc[r] = "user" /\ Api(r))

Mail(r) ==
    /\ pc[r] \in {"idle", "entry", "queue", "answered"} => shown[r] = NoMail
    /\ Waiting(r) =>
          /\ "user" \in given[r] \ data[r] => failures[r] # {}
          /\ "app" \in given[r] \ data[r] => "engine" \in failures[r]
    /\ shown[r] # NoMail =>
          /\ "user" \in given[r] \ shown[r] => failures[r] # {}
          /\ "app" \in given[r] \ shown[r] =>
                byManager[r] \/ "engine" \in failures[r]

(* A file free of demands is what the engine has read of it.               *)
Health(r) ==
    healthy[r] => /\ file[name[r]] = {}
                  /\ pc[r] = "engStore" => tmpl[r] = {}

Apart(q) ==
    /\ name'[q] = name[q] /\ data'[q] = data[q] /\ tmpl'[q] = tmpl[q]
    /\ given'[q] = given[q] /\ shown'[q] = shown[q]
    /\ failures'[q] = failures[q] /\ byManager'[q] = byManager[q]
    /\ healthy'[q] = healthy[q]

(* What a step of the request r does to the mails of all.                  *)
Mails(r) == EntryType' /\ Mail(r)' /\ Health(r)' /\ \A q \in Rs \ {r} : Apart(q)

LEMMA LeaveMail ==
    ASSUME EntryType, NEW r \in Rs, LeaveEntry(r)
    PROVE  Mails(r)
  <1>1. shown'[r] = NoMail /\ given'[r] = {} /\ healthy'[r] = FALSE
    BY DEF LeaveEntry, EntryType
  <1>2. Mail(r)' /\ Health(r)'
    BY <1>1 DEF Mail, Health
  <1>3. EntryType'
    <2>1. NoTemplate \in Cached /\ NoMail \in (SUBSET Parts) \cup {NoMail}
      BY DEF Cached
    <2>2. {} \in SUBSET Parts /\ {} \in SUBSET Executors
      OBVIOUS
    <2> QED
      BY <2>1, <2>2 DEF LeaveEntry, EntryType
  <1>4. ASSUME NEW q \in Rs \ {r} PROVE Apart(q)
    BY DEF LeaveEntry, EntryType, Apart
  <1> QED
    BY <1>2, <1>3, <1>4 DEF Mails

LEMMA RenderMail ==
    ASSUME EntryType, pc \in [Rs -> Steps], NEW r \in Rs, Mail(r), Health(r),
           pc[r] \in RenderSteps, UNCHANGED <<file, kind>>, NEW t,
           NEW manager \in BOOLEAN, NEW parts, NEW takes,
           IF manager THEN parts = ManagerParts(r) /\ takes = ManagerTakes
                      ELSE parts = EngineParts(r) /\ takes = EngineTakes,
           Render(r, t, parts, takes, manager)
    PROVE  Mails(r)
  <1>1. /\ pc'[r] = IF kind[r].side = "main" THEN "user" ELSE "add"
        /\ shown'[r] = parts \cap given[r] /\ byManager'[r] = manager
        /\ UNCHANGED <<name, given, failures, healthy>>
    BY DEF Render, Move, To, EntryType
  <1>2. /\ "user" \in given[r] \ data[r] => failures[r] # {}
        /\ "app" \in given[r] \ data[r] => "engine" \in failures[r]
    BY DEF Mail, Waiting
  <1>3. /\ "user" \in data[r] => "user" \in parts
        /\ "app" \in data[r] => "app" \in parts \/ manager
    BY DEF ManagerParts, EngineParts
  <1>4. ~Waiting(r)'
    BY <1>1 DEF Waiting, Api, RenderSteps
  <1>5. Mail(r)'
    BY <1>1, <1>2, <1>3, <1>4 DEF Mail
  <1>6. Health(r)'
    BY <1>1 DEF Health
  <1>7. EntryType'
    BY DEF Render, EntryType, Cached
  <1>8. ASSUME NEW q \in Rs \ {r} PROVE Apart(q)
    BY DEF Render, EntryType, Apart
  <1> QED
    BY <1>5, <1>6, <1>7, <1>8 DEF Mails

LEMMA StumbleMail ==
    ASSUME EntryType, pc \in [Rs -> Steps], NEW r \in Rs, Mail(r), Health(r),
           pc[r] \in RenderSteps, UNCHANGED <<file, kind>>, NEW t, NEW parts,
           NEW step \in {"engLook", "engParse"}, NEW takes, NEW who,
           \/ takes = ManagerTakes /\ who = "manager"
           \/ takes = EngineTakes /\ who = "engine",
           Stumble(r, t, parts, takes, who, step)
    PROVE  Mails(r)
  <1>1. /\ pc'[r] = step
        /\ data'[r] = data[r] \ takes /\ failures'[r] = failures[r] \cup {who}
        /\ UNCHANGED <<name, given, shown, byManager, healthy>>
    BY DEF Stumble, Move, To, EntryType
  <1>2. /\ "user" \in given[r] \ data[r] => failures[r] # {}
        /\ "app" \in given[r] \ data[r] => "engine" \in failures[r]
    BY DEF Mail, Waiting
  <1>3. /\ "user" \in given[r] \ data'[r] => failures'[r] # {}
        /\ "app" \in given[r] \ data'[r] => "engine" \in failures'[r]
    BY <1>1, <1>2 DEF ManagerTakes, EngineTakes
  <1>4. /\ shown[r] # NoMail =>
             /\ "user" \in given[r] \ shown[r] => failures'[r] # {}
             /\ "app" \in given[r] \ shown[r] => byManager[r] \/ "engine" \in failures'[r]
    BY <1>1 DEF Mail
  <1>5. Mail(r)'
    BY <1>1, <1>3, <1>4 DEF Mail
  <1>6. Health(r)'
    BY <1>1 DEF Health
  <1>7. EntryType'
    BY DEF Stumble, EntryType, Cached, Executors
  <1>8. ASSUME NEW q \in Rs \ {r} PROVE Apart(q)
    BY DEF Stumble, EntryType, Apart
  <1> QED
    BY <1>5, <1>6, <1>7, <1>8 DEF Mails

LEMMA HoldMail ==
    ASSUME EntryType, pc \in [Rs -> Steps], NEW r \in Rs, Mail(r), Health(r),
           pc[r] \in RenderSteps, UNCHANGED <<file, kind>>, NEW t \in Cached,
           NEW step \in {"fileStore", "engStore"},
           step = "engStore" => t = file[name[r]], Hold(r, t), Move(r, step)
    PROVE  Mails(r)
  <1>1. /\ pc'[r] = step /\ tmpl'[r] = t
        /\ UNCHANGED <<data, shown, failures, byManager, name, given, healthy>>
    BY DEF Hold, Move, To, EntryType
  <1>2. Mail(r)'
    BY <1>1 DEF Mail, Waiting, Api
  <1>3. Health(r)'
    BY <1>1 DEF Health
  <1>4. EntryType'
    BY DEF Hold, EntryType
  <1>5. ASSUME NEW q \in Rs \ {r} PROVE Apart(q)
    BY DEF Hold, EntryType, Apart
  <1> QED
    BY <1>2, <1>3, <1>4, <1>5 DEF Mails

(* Steps that do not touch the entry.                                      *)
LEMMA StayMail ==
    ASSUME EntryType, pc \in [Rs -> Steps], NEW r \in Rs, Mail(r), Health(r),
           UNCHANGED <<file, entry>>, NEW step, pc'[r] = step,
           \/ /\ pc[r] \in {"idle", "queue", "answered"}
              /\ step \in {"idle", "entry", "queue", "answered"}
           \/ /\ Waiting(r) /\ UNCHANGED kind
              /\ step \in RenderSteps \ {"engStore"}
    PROVE  Mails(r)
  <1>1. UNCHANGED <<name, data, tmpl, given, shown, failures, byManager, healthy>>
    BY DEF entry, rendering
  <1>2. Mail(r)'
    BY <1>1 DEF Mail, Waiting, RenderSteps
  <1>3. Health(r)'
    BY <1>1 DEF Health
  <1> QED
    BY <1>1, <1>2, <1>3 DEF Mails, EntryType, Apart

LEMMA RenderStepFacts ==
    /\ RenderSteps \subseteq Steps
    /\ {"custom", "fileLook", "fileMiss", "fileParse", "fileStore", "engLook",
        "engParse", "engStore"} = RenderSteps
    /\ {"user", "add", "idle", "entry", "queue", "answered"} \cap RenderSteps = {}
  BY DEF RenderSteps, Steps

LEMMA ByManagerMail ==
    ASSUME EntryType, pc \in [Rs -> Steps], NEW r \in Rs, Mail(r), Health(r),
           pc[r] \in RenderSteps, UNCHANGED <<file, kind>>, NEW t, ByManager(r, t)
    PROVE  Mails(r)
  <1>1. CASE Render(r, t, ManagerParts(r), ManagerTakes, TRUE)
    BY <1>1, RenderMail
  <1>2. CASE Stumble(r, t, ManagerParts(r), ManagerTakes, "manager", "engLook")
    BY <1>2, StumbleMail
  <1> QED
    BY <1>1, <1>2 DEF ByManager

LEMMA EntryMail ==
    ASSUME EntryType, pc \in [Rs -> Steps], NEW r \in Rs, Mail(r), Health(r),
           Entry(r)
    PROVE  Mails(r)
  <1>1. PICK n \in Names, d \in Bodies :
          /\ name' = [name EXCEPT ![r] = n]
          /\ data' = [data EXCEPT ![r] = d]
          /\ given' = [given EXCEPT ![r] = d]
          /\ healthy' = [healthy EXCEPT ![r] = Sound(file[n])]
    BY DEF Entry
  <1>2. /\ pc' = [pc EXCEPT ![r] = IF kind[r].side = "main" THEN "custom" ELSE "user"]
        /\ UNCHANGED <<file, tmpl, shown, failures, byManager>>
        /\ pc[r] = "entry"
    BY DEF Entry, To
  <1>3. d \in SUBSET Parts
    BY RequestsAssumption DEF Parts
  <1>4. EntryType'
    BY <1>1, <1>2, <1>3 DEF EntryType, Sound
  <1>5. pc'[r] \in {"custom", "user"} /\ given'[r] = data'[r] /\ shown'[r] = NoMail
    BY <1>1, <1>2 DEF EntryType, Mail
  <1>6. Mail(r)'
    BY <1>5 DEF Mail
  <1>7. Health(r)'
    BY <1>1, <1>2, <1>5 DEF Health, Sound, EntryType
  <1>8. ASSUME NEW q \in Rs \ {r} PROVE Apart(q)
    BY <1>1, <1>2 DEF EntryType, Apart
  <1> QED
    BY <1>4, <1>6, <1>7, <1>8 DEF Mails

LEMMA HandleMail ==
    ASSUME EntryType, FileType, FlowType, NEW r \in Rs, Mail(r), Health(r), Handle(r)
    PROVE  Mails(r) /\ FileType' /\ UNCHANGED file
  <1>0. pc \in [Rs -> Steps] /\ pc[r] \in Steps /\ tmpl[r] \in Cached
        /\ Demands \subseteq Cached /\ name[r] \in Names
    BY DEF FlowType, EntryType, Cached
  <1>1. CASE Begin(r)
    BY <1>0, <1>1, StayMail DEF Begin, To, caches, FileType
  <1>2. CASE Finish(r)
    BY <1>0, <1>2, StayMail DEF Finish, To, caches, FileType
  <1>3. CASE DispatchJob(r)
    <2>1. pc[r] = "queue" /\ UNCHANGED <<file, caches, entry>>
      BY <1>3 DEF DispatchJob
    <2>2. pc'[r] \in {"queue", "answered"}
      BY <1>0, <1>3, <2>1 DEF DispatchJob, Refused, Accepted, Panics, Answer, To
    <2> QED
      BY <1>0, <2>1, <2>2, StayMail DEF caches, FileType
  <1>4. CASE DispatchNil(r) \/ BatchDone(r)
    BY <1>0, <1>4, StayMail DEF DispatchNil, BatchDone, Answer, To, caches, FileType
  <1>5. CASE Entry(r)
    BY <1>0, <1>5, EntryMail DEF Entry, caches, FileType
  <1>6. CASE FindUser(r)
    <2>1. pc[r] = "user" /\ UNCHANGED <<file, caches, kind>>
      BY <1>6 DEF FindUser
    <2>2. CASE FailEntry(r, "user") \/ AddJob(r)
      BY <2>1, <2>2, LeaveMail DEF FailEntry, AddJob, caches, FileType
    <2>3. CASE kind[r].side # "main" /\ To(r, "custom") /\ UNCHANGED entry
      <3>1. Api(r) /\ pc'[r] = "custom"
        BY <1>0, <2>3 DEF To, Api, FlowType, Kinds
      <3> QED
        BY <1>0, <2>1, <2>3, <3>1, StayMail, RenderStepFacts
           DEF Waiting, caches, FileType
    <2> QED
      BY <1>6, <2>2, <2>3 DEF FindUser
  <1>7. CASE HaveMail(r)
    BY <1>7, LeaveMail DEF HaveMail, AddJob, caches, FileType
  <1>8. CASE Custom(r)
    <2>1. pc[r] \in RenderSteps /\ UNCHANGED <<file, caches, kind>>
      BY <1>8, RenderStepFacts DEF Custom
    <2>2. CASE \E t \in Demands : ByManager(r, t)
      BY <1>0, <2>1, <2>2, ByManagerMail DEF caches, FileType
    <2>3. CASE Move(r, "fileLook") /\ UNCHANGED entry
      BY <1>0, <2>1, <2>3, StayMail, RenderStepFacts DEF Move, To, Waiting, caches, FileType
    <2> QED
      BY <1>8, <2>2, <2>3 DEF Custom
  <1>9. CASE FileLook(r)
    <2>1. pc[r] \in RenderSteps /\ UNCHANGED <<file, caches, kind>>
      BY <1>9, RenderStepFacts DEF FileLook
    <2>2. CASE ByManager(r, fileCache[name[r]])
      BY <1>0, <2>1, <2>2, ByManagerMail DEF caches, FileType
    <2>3. CASE Move(r, "fileMiss") /\ UNCHANGED entry
      BY <1>0, <2>1, <2>3, StayMail, RenderStepFacts DEF Move, To, Waiting, caches, FileType
    <2> QED
      BY <1>9, <2>2, <2>3 DEF FileLook
  <1>10. CASE FileMiss(r)
    <2>1. pc[r] \in RenderSteps /\ UNCHANGED <<file, caches, kind>>
      BY <1>10, RenderStepFacts DEF FileMiss
    <2>2. CASE Hold(r, engCache[name[r]]) /\ Move(r, "fileStore")
      BY <1>0, <2>1, <2>2, HoldMail DEF caches, FileType
    <2>3. CASE Move(r, "fileParse") /\ UNCHANGED entry
      BY <1>0, <2>1, <2>3, StayMail, RenderStepFacts DEF Move, To, Waiting, caches, FileType
    <2> QED
      BY <1>10, <2>2, <2>3 DEF FileMiss
  <1>11. CASE FileParse(r)
    <2>1. pc[r] \in RenderSteps /\ UNCHANGED <<file, caches, kind>>
      BY <1>11, RenderStepFacts DEF FileParse
    <2>2. CASE file[name[r]] \in Demands /\ Hold(r, file[name[r]]) /\ Move(r, "fileStore")
      BY <1>0, <2>1, <2>2, HoldMail DEF caches, FileType
    <2>3. CASE Move(r, "engLook") /\ UNCHANGED entry
      BY <1>0, <2>1, <2>3, StayMail, RenderStepFacts DEF Move, To, Waiting, caches, FileType
    <2> QED
      BY <1>11, <2>2, <2>3 DEF FileParse
  <1>12. CASE FileStore(r)
    <2>1. /\ pc[r] \in RenderSteps /\ UNCHANGED <<file, engCache, kind>>
          /\ fileCache' = [fileCache EXCEPT ![name[r]] = tmpl[r]]
          /\ ByManager(r, tmpl[r])
      BY <1>12, RenderStepFacts DEF FileStore
    <2>2. Mails(r)
      BY <1>0, <2>1, ByManagerMail
    <2> QED
      BY <1>0, <2>1, <2>2 DEF FileType
  <1>13. CASE EngLook(r)
    <2>1. pc[r] \in RenderSteps /\ UNCHANGED <<file, caches, kind>>
      BY <1>13, RenderStepFacts DEF EngLook
    <2>2. CASE Render(r, engCache[name[r]], EngineParts(r), EngineTakes, FALSE)
      BY <1>0, <2>1, <2>2, RenderMail DEF caches, FileType
    <2>3. CASE Stumble(r, engCache[name[r]], EngineParts(r), EngineTakes, "engine", "engParse")
      BY <1>0, <2>1, <2>3, StumbleMail DEF caches, FileType
    <2>4. CASE Move(r, "engParse") /\ UNCHANGED entry
      BY <1>0, <2>1, <2>4, StayMail, RenderStepFacts DEF Move, To, Waiting, caches, FileType
    <2> QED
      BY <1>13, <2>2, <2>3, <2>4 DEF EngLook
  <1>14. CASE EngParse(r)
    <2>1. pc[r] \in RenderSteps /\ UNCHANGED <<file, caches, kind>>
      BY <1>14, RenderStepFacts DEF EngParse
    <2>2. CASE file[name[r]] \in Demands /\ Hold(r, file[name[r]]) /\ Move(r, "engStore")
      BY <1>0, <2>1, <2>2, HoldMail DEF caches, FileType
    <2>3. CASE FailEntry(r, "template")
      BY <2>1, <2>3, LeaveMail DEF FailEntry, caches, FileType
    <2> QED
      BY <1>14, <2>2, <2>3 DEF EngParse
  <1>15. CASE EngStore(r)
    <2>1. pc[r] \in RenderSteps /\ UNCHANGED <<file, fileCache, kind>>
      BY <1>15, RenderStepFacts DEF EngStore
    <2>2. \/ UNCHANGED engCache
          \/ engCache' = [engCache EXCEPT ![name[r]] = tmpl[r]]
      BY <1>15 DEF EngStore
    <2>3. FileType'
      BY <1>0, <2>1, <2>2 DEF FileType
    <2>4. CASE Render(r, tmpl[r], EngineParts(r), EngineTakes, FALSE)
      BY <1>0, <2>1, <2>3, <2>4, RenderMail
    <2>5. CASE FailEntry(r, "template")
      BY <2>1, <2>3, <2>5, LeaveMail DEF FailEntry
    <2> QED
      BY <1>15, <2>4, <2>5 DEF EngStore
  <1> QED
    BY HandleCases, <1>1, <1>2, <1>3, <1>4, <1>5, <1>6, <1>7, <1>8, <1>9, <1>10,
       <1>11, <1>12, <1>13, <1>14, <1>15

-----------------------------------------------------------------------------
(* The inductive invariant.                                                *)
Inv ==
    /\ FlowType /\ EntryType /\ FileType /\ closed \in BOOLEAN
    /\ \A r \in Rs : Flow(r) /\ Mail(r) /\ Health(r)

LEMMA InitInv == Init => Inv
  <1> SUFFICES ASSUME Init PROVE Inv
    OBVIOUS
  <1>0. MaxBatch \in Nat /\ MaxBatch >= 1
    BY RequestsAssumption
  <1>1. NoResults \in [Places -> Results] /\ Nowhere \in Slices
    BY <1>0 DEF NoResults, Nowhere, Places, Slices, Results
  <1>2. FlowType
    BY <1>0, <1>1 DEF Init, FlowType, Kinds, Steps, Places, Codes
  <1>3. EntryType
    <2>1. NoTemplate \in Cached /\ NoMail \in (SUBSET Parts) \cup {NoMail}
      BY DEF Cached
    <2> QED
      BY <2>1 DEF Init, EntryType
  <1>4. FileType
    BY DEF Init, FileType, Cached
  <1>5. ASSUME NEW r \in Rs PROVE Flow(r) /\ Mail(r) /\ Health(r)
    <2>1. /\ pc[r] = "idle" /\ status[r] = 0 /\ taken[r] = {} /\ skipped[r] = {}
          /\ at[r] = 1 /\ njobs[r] = 0 /\ jobs[r] = Nowhere
          /\ shown[r] = NoMail /\ given[r] = {} /\ ~healthy[r]
      BY DEF Init
    <2> QED
      BY <2>1, BusySteps DEF Flow, Mail, Health
  <1> QED
    BY <1>2, <1>3, <1>4, <1>5 DEF Init, Inv

(* Nothing around a request touches it but its file's health.              *)
LEMMA AroundInv ==
    ASSUME Inv, NEW n \in Names, Deploy(n) \/ CleanManager(n) \/ CleanEngine(n)
    PROVE  Inv' /\ UNCHANGED result
  <1>0. closed' = closed
    BY DEF Deploy, CleanManager, CleanEngine
  <1>1. /\ UNCHANGED <<kind, pc, size, at, jobs, njobs, result, skipped, status, taken>>
        /\ UNCHANGED <<name, data, tmpl, given, shown, failures, byManager>>
    BY DEF Deploy, CleanManager, CleanEngine, outcome, entry, rendering
  <1>2. FlowType'
    BY <1>1 DEF Inv, FlowType
  <1>3. ASSUME NEW r \in Rs PROVE Flow(r)' /\ Mail(r)'
    <2>1. Untouched(r)
      BY <1>1 DEF Untouched
    <2>2. Flow(r)'
      BY <2>1, <1>0, UntouchedFlow DEF Inv
    <2>3. Mail(r)'
      BY <1>1 DEF Inv, Mail, Waiting, Api
    <2> QED
      BY <2>2, <2>3
  <1>4. CASE Deploy(n)
    <2>1. PICK f \in Files : /\ file' = [file EXCEPT ![n] = f]
                             /\ healthy' = [r \in Rs |->
                                  healthy[r] /\ (name[r] = n => Sound(f))]
      BY <1>4 DEF Deploy
    <2>2. EntryType' /\ FileType'
      <3>1. ASSUME NEW r \in Rs PROVE healthy'[r] \in BOOLEAN
        BY <2>1 DEF Inv, EntryType
      <3> QED
        BY <1>1, <1>4, <2>1, <3>1 DEF Inv, EntryType, FileType, Deploy, caches
    <2>3. ASSUME NEW r \in Rs PROVE Health(r)'
      BY <1>1, <2>1 DEF Inv, Health, EntryType, FileType, Sound
    <2> QED
      BY <1>0, <1>1, <1>2, <1>3, <2>2, <2>3 DEF Inv
  <1>5. CASE CleanManager(n) \/ CleanEngine(n)
    <2>1. UNCHANGED <<file, healthy>>
      BY <1>5 DEF CleanManager, CleanEngine, entry
    <2>2. EntryType' /\ FileType'
      BY <1>1, <1>5, <2>1 DEF Inv, EntryType, FileType, CleanManager, CleanEngine, Cached
    <2>3. ASSUME NEW r \in Rs PROVE Health(r)'
      BY <1>1, <2>1 DEF Inv, Health
    <2> QED
      BY <1>0, <1>1, <1>2, <1>3, <2>2, <2>3 DEF Inv
  <1> QED
    BY <1>4, <1>5

LEMMA CloseInv == Inv /\ CloseQueue => Inv' /\ UNCHANGED result
  <1> SUFFICES ASSUME Inv, CloseQueue PROVE Inv' /\ UNCHANGED result
    OBVIOUS
  <1>1. /\ UNCHANGED <<kind, pc, size, at, jobs, njobs, result, skipped, status, taken>>
        /\ UNCHANGED <<name, data, tmpl, given, shown, failures, byManager, healthy>>
        /\ UNCHANGED <<file, fileCache, engCache>> /\ closed'
    BY DEF CloseQueue, caches, outcome, entry, rendering
  <1>2. ASSUME NEW r \in Rs PROVE Flow(r)' /\ Mail(r)' /\ Health(r)'
    <2>1. Untouched(r)
      BY <1>1 DEF Untouched
    <2>2. Flow(r)'
      BY <1>1, <2>1, UntouchedFlow DEF Inv
    <2>3. Mail(r)' /\ Health(r)'
      BY <1>1 DEF Inv, Mail, Waiting, Api, Health
    <2> QED
      BY <2>2, <2>3
  <1>3. closed' \in BOOLEAN
    BY DEF CloseQueue
  <1> QED
    BY <1>1, <1>2, <1>3 DEF Inv, FlowType, EntryType, FileType

LEMMA NextInv == Inv /\ [Next]_vars => Inv'
  <1> SUFFICES ASSUME Inv, [Next]_vars PROVE Inv'
    OBVIOUS
  <1>1. ASSUME NEW r \in Rs, Handle(r) PROVE Inv'
    <2>1. Flows(r)
      BY <1>1, HandleFlow DEF Inv
    <2>2. Mails(r) /\ FileType' /\ UNCHANGED file
      BY <1>1, HandleMail DEF Inv
    <2>0. closed' = closed
      BY <1>1, HandleLeavesQueue
    <2>3. ASSUME NEW q \in Rs PROVE Flow(q)' /\ Mail(q)' /\ Health(q)'
      <3>1. CASE q = r
        BY <2>1, <2>2, <3>1 DEF Flows, Mails
      <3>2. CASE q # r
        <4>1. Untouched(q) /\ Apart(q)
          BY <2>1, <2>2, <3>2 DEF Flows, Mails
        <4>2. Flow(q)'
          BY <2>0, <4>1, UntouchedFlow DEF Inv
        <4>3. Mail(q)'
          BY <4>1 DEF Inv, Mail, Waiting, Api, Untouched, Apart
        <4>4. Health(q)'
          BY <2>2, <4>1 DEF Inv, Health, Untouched, Apart
        <4> QED
          BY <4>2, <4>3, <4>4
      <3> QED
        BY <3>1, <3>2
    <2> QED
      BY <2>0, <2>1, <2>2, <2>3 DEF Inv, Flows, Mails
  <1>2. CASE UNCHANGED vars
    <2>1. /\ UNCHANGED <<kind, pc, size, at, jobs, njobs, result, skipped, status, taken>>
          /\ UNCHANGED <<name, data, tmpl, given, shown, failures, byManager, healthy>>
          /\ UNCHANGED <<file, fileCache, engCache, closed>>
      BY <1>2 DEF vars, caches, outcome, entry, rendering
    <2>2. ASSUME NEW q \in Rs PROVE Flow(q)' /\ Mail(q)' /\ Health(q)'
      <3>1. Untouched(q)
        BY <2>1 DEF Untouched
      <3>2. Flow(q)'
        BY <2>1, <3>1, UntouchedFlow DEF Inv
      <3>3. Mail(q)' /\ Health(q)'
        BY <2>1 DEF Inv, Mail, Waiting, Api, Health
      <3> QED
        BY <3>2, <3>3
    <2> QED
      BY <2>1, <2>2 DEF Inv, FlowType, EntryType, FileType
  <1> QED
    BY <1>1, <1>2, AroundInv, CloseInv DEF Next

-----------------------------------------------------------------------------
LEMMA InvTypeOK == Inv => TypeOK
  BY DEF Inv, FlowType, EntryType, FileType, TypeOK, Places, Slices

LEMMA InvAnswers == Inv => AnswerTruthful /\ ErrorCutsBatch
  <1> SUFFICES ASSUME Inv, NEW r \in Rs PROVE Truthful(r) /\ Cut(r)
    BY DEF AnswerTruthful, ErrorCutsBatch, Truthful, Cut, DueOf, Api
  <1>1. Flow(r) /\ pc[r] \in Steps
    BY DEF Inv, FlowType
  <1>2. CASE pc[r] = "answered"
    BY <1>1, <1>2 DEF Flow
  <1>3. CASE pc[r] # "answered"
    <2>1. status[r] = 0
      BY <1>1, <1>3 DEF Flow, Steps, Busy, Collecting, Dispatching
    <2> QED
      BY <2>1 DEF Truthful, Cut
  <1> QED
    BY <1>2, <1>3

LEMMA InvParts == Inv => PartsLostByFailure
  BY DEF Inv, Mail, PartsLostByFailure

(* Only a template the engine has just read or failed to read ends an      *)
(* entry for its template's sake.                                          *)
LEMMA TemplateFailure ==
    ASSUME Inv, NEW r \in Rs, Handle(r), NEW i \in Places,
           result'[r][i] = "template", result[r][i] # "template"
    PROVE  ~healthy[r]
  <1>0. result[r] \in [Places -> Results] /\ r \in DOMAIN result
    BY DEF Inv, FlowType
  <1>1. ~AddJob(r) /\ ~FailEntry(r, "user") /\ result' # result
    BY <1>0 DEF Inv, FlowType, AddJob, FailEntry
  <1>2. ~Begin(r) /\ ~DispatchNil(r) /\ ~BatchDone(r) /\ ~HaveMail(r) /\ ~Entry(r)
    BY <1>1 DEF Begin, DispatchNil, BatchDone, HaveMail, Entry, outcome
  <1>3. ~Finish(r)
    <2>1. NoResults[i] = "none"
      BY DEF NoResults, Places
    <2>2. Finish(r) => result'[r] = NoResults
      BY <1>0 DEF Finish, Inv, FlowType
    <2> QED
      BY <2>1, <2>2
  <1>4. ~DispatchJob(r)
    <2>1. ASSUME Refused(r) \/ Accepted(r) \/ Panics(r) PROVE FALSE
      <3>1. result' = [result EXCEPT ![r][at[r]] = "failed"]
        BY <1>1, <2>1 DEF Refused, Accepted, Panics
      <3> QED
        BY <1>0, <3>1 DEF Inv, FlowType
    <2> QED
      BY <2>1 DEF DispatchJob
  <1>5. ~FindUser(r) /\ ~FileMiss(r) /\ ~FileParse(r)
    BY <1>1 DEF FindUser, FileMiss, FileParse, Move, outcome
  <1>6. \A t : ~ByManager(r, t)
    BY <1>1 DEF ByManager, Render, Stumble, Move, outcome
  <1>7. ~Custom(r) /\ ~FileLook(r) /\ ~FileStore(r) /\ ~EngLook(r)
    BY <1>1, <1>6 DEF Custom, FileLook, FileStore, EngLook, Render, Stumble, Move, outcome
  <1>8. Health(r) /\ name[r] \in Names /\ file[name[r]] \in Files
    BY DEF Inv, EntryType, FileType
  <1>9. CASE EngParse(r)
    <2>1. file[name[r]] \notin Demands
      BY <1>1, <1>9 DEF EngParse, Move, outcome
    <2>2. {} \in Files => {} \in Demands
      BY DEF Files, Cached, NoTemplate, Garbage
    <2> QED
      BY <1>8, <2>1, <2>2 DEF Health
  <1>10. CASE EngStore(r)
    <2>1. file[name[r]] = NoTemplate \/ ~ tmpl[r] \subseteq EngineParts(r)
      BY <1>1, <1>10 DEF EngStore, Render, Move, outcome
    <2>2. pc[r] = "engStore"
      BY <1>10 DEF EngStore
    <2> QED
      BY <1>8, <2>1, <2>2 DEF Health, NoTemplate
  <1> QED
    BY <1>2, <1>3, <1>4, <1>5, <1>7, <1>9, <1>10, HandleCases

LEMMA StepHealthy ==
    Inv /\ [Next]_vars =>
       [\A r \in Rs, i \in 1 .. MaxBatch :
          result'[r][i] = "template" /\ result[r][i] # "template"
            => ~healthy[r]]_vars
  <1> SUFFICES ASSUME Inv, [Next]_vars, NEW r \in Rs, NEW i \in Places,
                      result'[r][i] = "template", result[r][i] # "template"
               PROVE  ~healthy[r]
    BY DEF Places
  <1>1. ASSUME NEW q \in Rs, Handle(q) PROVE ~healthy[r]
    <2>1. Flows(q)
      BY <1>1, HandleFlow DEF Inv
    <2>2. q = r
      BY <2>1 DEF Flows, Untouched
    <2> QED
      BY <1>1, <2>2, TemplateFailure
  <1>2. ~ UNCHANGED result
    OBVIOUS
  <1>3. ~ UNCHANGED vars
    BY <1>2 DEF vars, outcome
  <1> QED
    BY <1>1, <1>2, <1>3, AroundInv, CloseInv DEF Next

(* Every variable of the handlers and the renderer keeps its type: no      *)
(* batch has more jobs than entries.                                       *)
THEOREM TypeCorrect == Spec => []TypeOK
  BY InitInv, NextInv, InvTypeOK, PTL DEF Spec

(* An answer 202 of any handler says of each entry whether its job is in   *)
(* the engine, up to the first entry that api/handler.go has left out.     *)
THEOREM AnswersTrue == Spec => []AnswerTruthful
  BY InitInv, NextInv, InvAnswers, PTL DEF Spec

(* After an error answer nothing has been sent, unless a panic has cut off *)
(* a batch: main.go's at an entry without a job, or any at the closed      *)
(* queue.  What was sent stands before the cut.                            *)
THEOREM ErrorsCut == Spec => []ErrorCutsBatch
  BY InitInv, NextInv, InvAnswers, PTL DEF Spec

(* A mail shows what the request gave for it unless an execution failed    *)
(* or the manager rendered it without the application's data.              *)
THEOREM PartsKept == Spec => []PartsLostByFailure
  BY InitInv, NextInv, InvParts, PTL DEF Spec

(* Whatever the caches hold, an entry is turned down for its template only *)
(* if the deployed file was broken, missing or in need of data meanwhile.  *)
THEOREM HealthyServed == Spec => HealthyFileIsEnough
  BY InitInv, NextInv, StepHealthy, PTL DEF Spec, HealthyFileIsEnough

=============================================================================
