--------------------------- MODULE KeyGateProofs ----------------------------
(***************************************************************************)
(* Theorems about KeyGate, for every number of requests, every quota and   *)
(* every length of the hour and of a cached developer's life.              *)
(***************************************************************************)
EXTENDS KeyGate, FiniteSetTheorems, TLAPS

-----------------------------------------------------------------------------
(* Types.                                                                  *)

LEMMA InitTyped == Init => TypeOK
  BY KeyGateAssumption DEF Init, TypeOK, Hours, Never, Steps

LEMMA OneMoreRange ==
    ASSUME NEW n \in 0 .. Quota + 1
    PROVE  OneMore(n) \in 0 .. Quota + 1 /\ (n <= Quota => OneMore(n) = n + 1)
  BY KeyGateAssumption DEF OneMore

LEMMA RequestTyped ==
    ASSUME TypeOK, NEW r \in Rs,
           \/ Arrive(r) \/ Look(r) \/ Query(r) \/ Store(r) \/ NameCounter(r)
           \/ Increment(r) \/ Expire(r) \/ Compare(r) \/ Leave(r)
    PROVE  TypeOK'
  <1> USE DEF TypeOK, To, keyVars, watchVars, counterVars
  <1>1. CASE Arrive(r) \/ Look(r) \/ Query(r)
    BY <1>1 DEF Arrive, Look, Query, Reads, Steps
  <1>2. CASE Store(r)
    BY <1>2, KeyGateAssumption DEF Store, Steps
  <1>3. CASE NameCounter(r) \/ Leave(r)
    BY <1>3, KeyGateAssumption DEF NameCounter, Leave, Steps, Hours
  <1>4. CASE Increment(r)
    <2>1. hour[r] \in Hours /\ count[hour[r]] \in 0 .. Quota + 1
      OBVIOUS
    <2>2. OneMore(count[hour[r]]) \in 0 .. Quota + 1
      BY <2>1, OneMoreRange
    <2> QED
      BY <1>4, <2>1, <2>2 DEF Increment, Steps
  <1>5. CASE Expire(r)
    <2>1. Hour \in 1 .. Never
      BY KeyGateAssumption DEF Never
    <2> QED
      BY <1>5, <2>1 DEF Expire, Steps
  <1>6. CASE Compare(r)
    BY <1>6 DEF Compare, Steps
  <1> QED
    BY <1>1, <1>2, <1>3, <1>4, <1>5, <1>6

LEMMA TickTyped == TypeOK /\ Tick => TypeOK'
  <1> SUFFICES ASSUME TypeOK, Tick PROVE TypeOK'
    OBVIOUS
  <1> USE DEF TypeOK
  <1>1. \A h \in Hours : CountLeft(h) \in 0 .. Quota + 1
    BY KeyGateAssumption DEF CountLeft
  <1>2. \A h \in Hours : ExpiryLeft(h) \in 1 .. Never
    BY KeyGateAssumption DEF ExpiryLeft, Runs, Never
  <1>3. /\ minute' \in 0 .. Hour - 1 /\ hour' \in [Rs -> Hours]
        /\ count' \in [Hours -> 0 .. Quota + 1]
        /\ expiry' \in [Hours -> 1 .. Never]
    <2>1. CASE HourTurns
      BY <2>1, <1>1, <1>2, KeyGateAssumption DEF HourTurns, Hours, Never
    <2>2. CASE HourGoesOn
      BY <2>2, <1>1, <1>2, KeyGateAssumption DEF HourGoesOn
    <2> QED
      BY <2>1, <2>2 DEF Tick
  <1>4. cached' \in 0 .. KeyTTL /\ quiet' \in 0 .. KeyTTL
    BY KeyGateAssumption DEF Tick, Less
  <1>5. left' \in 0 .. Hour + 1 /\ letIn' \in Nat
    BY KeyGateAssumption DEF Tick, Less
  <1> QED
    BY <1>3, <1>4, <1>5 DEF Tick

LEMMA NextTyped == TypeOK /\ [Next]_vars => TypeOK'
  <1> SUFFICES ASSUME TypeOK, [Next]_vars PROVE TypeOK'
    OBVIOUS
  <1>1. CASE UNCHANGED vars
    BY <1>1 DEF TypeOK, vars, keyVars, counterVars, watchVars
  <1>2. CASE Toggle
    BY <1>2, KeyGateAssumption DEF TypeOK, Toggle, counterVars, watchVars
  <1>3. CASE Watch
    BY <1>3, KeyGateAssumption DEF TypeOK, Watch, keyVars
  <1> QED
    BY <1>1, <1>2, <1>3, RequestTyped, TickTyped DEF Next

(* TypeOK is an invariant: the counters stay within their bounds, and each *)
(* of them lives for an hour at most once its expiry is set.               *)
THEOREM TypeCorrect == Spec => []TypeOK
  BY InitTyped, NextTyped, PTL DEF Spec

-----------------------------------------------------------------------------
(* The cached developer.                                                   *)

(* Who is about to cache the row has read it while it was active.          *)
ReadActive == \A r \in Rs : pc[r] = "store" => r \in early

LEMMA ReadActiveStep ==
    ASSUME TypeOK, ReadActive, [Next]_vars
    PROVE  ReadActive'
  <1> USE DEF ReadActive
  <1>1. CASE \E r \in Rs : Query(r) \/ Store(r)
    BY <1>1 DEF Query, Reads, Store, To, TypeOK
  <1>2. CASE \E r \in Rs : \/ Arrive(r) \/ Look(r) \/ NameCounter(r) \/ Increment(r)
                           \/ Expire(r) \/ Compare(r) \/ Leave(r)
    <2>1. early' = early /\ \A r \in Rs : pc'[r] = "store" => pc[r] = "store"
      BY <1>2 DEF Arrive, Look, NameCounter, Increment, Expire, Compare, Leave,
                  To, keyVars, TypeOK
    <2> QED
      BY <2>1
  <1>3. CASE Toggle \/ Tick \/ Watch \/ UNCHANGED vars
    BY <1>3 DEF Toggle, Tick, Watch, vars, keyVars
  <1> QED
    BY <1>1, <1>2, <1>3 DEF Next

LEMMA RevokedStep ==
    ASSUME TypeOK, ReadActive, RevokedKeyRunsOut, [Next]_vars
    PROVE  RevokedKeyRunsOut'
  <1> USE DEF RevokedKeyRunsOut
  <1>0. cached \in 0 .. KeyTTL /\ quiet \in 0 .. KeyTTL /\ KeyTTL \in Nat \ {0}
    BY KeyGateAssumption DEF TypeOK
  <1>1. CASE active' = active /\ cached' = cached /\ quiet' = quiet
    BY <1>1
  <1>2. CASE \E r \in Rs : Store(r)
    BY <1>2, <1>0 DEF Store, ReadActive
  <1>3. CASE Toggle
    BY <1>3, <1>0 DEF Toggle
  <1>4. CASE Tick
    BY <1>4, <1>0 DEF Tick, Less
  <1> QED
    BY <1>1, <1>2, <1>3, <1>4
       DEF Next, Arrive, Look, Query, NameCounter, Increment, Expire, Compare,
           Leave, Watch, vars, keyVars

(* A deactivated key is out of the cache five minutes after the            *)
(* deactivation, or after the last request that cached what it had read    *)
(* while the key was active: RevokedKeyRunsOut is an invariant.            *)
THEOREM RevocationTakesHold == Spec => []RevokedKeyRunsOut
  <1>1. Init => ReadActive /\ RevokedKeyRunsOut
    BY KeyGateAssumption DEF Init, ReadActive, RevokedKeyRunsOut
  <1> QED
    BY <1>1, ReadActiveStep, RevokedStep, TypeCorrect, PTL DEF Spec

-----------------------------------------------------------------------------
(* The jobs of an hour.  At every moment of the hour under watch, those    *)
(* let in and those who can still come are within the bound: requests      *)
(* whose answer was within the limit, requests that will count under the   *)
(* name of the last hour, whatever is left of the present hour's counter,  *)
(* which is not dropped before its hour is over, and, if another hour      *)
(* begins under watch, its limit and everybody who is then under way.      *)

Due  == {r \in Rs : pc[r] \in {"expire", "compare"} /\ reply[r] <= Quota}
Late == {r \in Rs : pc[r] = "incr" /\ hour[r] = 1}
Room == IF count[0] < Quota THEN Quota - count[0] ELSE 0

Spent == letIn + Cardinality(Due) + Cardinality(Late) + Room

Turning  == Hour - minute < left
NextHour == IF Turning THEN Cardinality(Rs) + Quota ELSE 0

Watched ==
    /\ expiry[0] + minute >= Hour
    /\ left = 0 => letIn = 0
    /\ left > 0 => Spent + NextHour <= 2 * (Quota + Cardinality(Rs))

LEMMA Numbers ==
    /\ IsFiniteSet(Rs) /\ IsFiniteSet(Due) /\ IsFiniteSet(Late)
    /\ Cardinality(Rs) \in Nat
    /\ Cardinality(Due) \in Nat
    /\ Cardinality(Late) \in Nat
  BY KeyGateAssumption, FS_Subset, FS_CardinalityType DEF Due, Late

LEMMA NumbersNext ==
    /\ IsFiniteSet(Due') /\ IsFiniteSet(Late')
    /\ Cardinality(Due') \in Nat
    /\ Cardinality(Late') \in Nat
  BY KeyGateAssumption, FS_Subset, FS_CardinalityType DEF Due, Late

LEMMA OneElement ==
    ASSUME NEW S, IsFiniteSet(S), NEW x
    PROVE  /\ Cardinality(S \cup {x}) <= Cardinality(S) + 1
           /\ Cardinality(S \ {x}) <= Cardinality(S)
  <1>1. Cardinality(S) \in Nat
    BY FS_CardinalityType
  <1>2. Cardinality(S \cup {x}) <= Cardinality(S) + 1
    <2>1. CASE x \in S
      <3>1. S \cup {x} = S
        BY <2>1
      <3> QED
        BY <3>1, <1>1
    <2>2. CASE x \notin S
      BY <2>2, <1>1, FS_AddElement
    <2> QED
      BY <2>1, <2>2
  <1>3. Cardinality(S \ {x}) <= Cardinality(S)
    <2>1. S \ {x} \in SUBSET S
      OBVIOUS
    <2> QED
      BY <2>1, FS_Subset
  <1> QED
    BY <1>2, <1>3

LEMMA RoomRange ==
    ASSUME TypeOK
    PROVE  Room \in 0 .. Quota
  BY KeyGateAssumption DEF TypeOK, Room, Hours

(* A step of a request spends nothing that was not there before.           *)
LEMMA IncrementSpends ==
    ASSUME TypeOK, NEW r \in Rs, Increment(r)
    PROVE  Spent' <= Spent
  <1>0. /\ pc[r] = "incr" /\ letIn' = letIn /\ hour' = hour
        /\ letIn \in Nat /\ hour[r] \in Hours /\ count[0] \in 0 .. Quota + 1
        /\ Quota \in Nat \ {0}
    BY KeyGateAssumption DEF TypeOK, Increment, counterVars, watchVars, Hours
  <1>1. CASE /\ To(r, "in") /\ reply' = reply
             /\ count' \in {count, [count EXCEPT ![hour[r]] = OneMore(count[hour[r]])]}
    <2>1. Due' = Due /\ Late' = Late \ {r}
      BY <1>0, <1>1 DEF Due, Late, To, TypeOK
    <2>2. Cardinality(Late') <= Cardinality(Late)
      BY <2>1, Numbers, OneElement
    <2>3. count'[0] \in {count[0], OneMore(count[0])}
      BY <1>0, <1>1 DEF TypeOK, Hours
    <2>4. Room' <= Room /\ Room' \in Nat
      BY <2>3, <1>0 DEF Room, OneMore
    <2> QED
      BY <2>1, <2>2, <2>4, <1>0, Numbers, NumbersNext, RoomRange DEF Spent
  <1>2. ASSUME count' = [count EXCEPT ![hour[r]] = OneMore(count[hour[r]])],
               reply' = [reply EXCEPT ![r] = OneMore(count[hour[r]])],
               To(r, IF count[hour[r]] = 0 THEN "expire" ELSE "compare")
        PROVE  Spent' <= Spent
    <2>0. /\ pc'[r] \in {"expire", "compare"}
          /\ reply'[r] = OneMore(count[hour[r]])
          /\ \A q \in Rs \ {r} : pc'[q] = pc[q] /\ reply'[q] = reply[q]
      BY <1>2 DEF To, TypeOK
    <2>1. CASE hour[r] = 1
      <3>1. r \in Late /\ Late' = Late \ {r}
        BY <2>0, <2>1, <1>0 DEF Late
      <3>2. Due' = Due \/ Due' = Due \cup {r}
        BY <2>0, <1>0 DEF Due
      <3>3. count'[0] = count[0]
        BY <1>2, <2>1 DEF TypeOK, Hours
      <3>4. Cardinality(Late') = Cardinality(Late) - 1
        BY <3>1, Numbers, FS_RemoveElement
      <3>5. Cardinality(Due') <= Cardinality(Due) + 1
        <4>1. CASE Due' = Due
          BY <4>1, Numbers
        <4>2. CASE Due' = Due \cup {r}
          BY <4>2, Numbers, OneElement
        <4> QED
          BY <3>2, <4>1, <4>2
      <3> QED
        BY <3>3, <3>4, <3>5, <1>0, Numbers, NumbersNext, RoomRange
           DEF Spent, Room
    <2>2. CASE hour[r] = 0
      <3>1. Late' = Late
        BY <2>0, <2>2, <1>0 DEF Late
      <3>2. count'[0] = OneMore(count[0]) /\ reply'[r] = OneMore(count[0])
        BY <1>2, <2>0, <2>2 DEF TypeOK, Hours
      <3>3. CASE count[0] < Quota
        <4>1. Due' = Due \cup {r}
          BY <2>0, <3>2, <3>3, <1>0, OneMoreRange DEF Due
        <4>2. Cardinality(Due') <= Cardinality(Due) + 1
          BY <4>1, Numbers, OneElement
        <4>3. Room' = Room - 1
          BY <3>2, <3>3, <1>0, OneMoreRange DEF Room
        <4> QED
          BY <3>1, <4>2, <4>3, <1>0, Numbers, NumbersNext, RoomRange DEF Spent
      <3>4. CASE ~(count[0] < Quota)
        <4>1. ~(OneMore(count[0]) <= Quota)
          BY <3>4, <1>0 DEF OneMore
        <4>2. Due' = Due
          BY <2>0, <3>2, <4>1, <1>0 DEF Due
        <4>3. Room' = 0 /\ Room = 0
          BY <3>2, <3>4, <4>1, <1>0, OneMoreRange DEF Room
        <4> QED
          BY <3>1, <4>2, <4>3, <1>0, Numbers, NumbersNext DEF Spent
      <3> QED
        BY <3>3, <3>4
    <2> QED
      BY <2>1, <2>2, <1>0 DEF Hours
  <1> QED
    BY <1>1, <1>2 DEF Increment

LEMMA CompareSpends ==
    ASSUME TypeOK, NEW r \in Rs, Compare(r)
    PROVE  Spent' <= Spent /\ (left = 0 => letIn' = letIn)
  <1>0. /\ pc[r] = "compare" /\ letIn \in Nat /\ left' = left
        /\ count' = count /\ hour' = hour /\ reply' = reply
        /\ pc'[r] \in {"in", "refused"}
        /\ \A q \in Rs \ {r} : pc'[q] = pc[q]
    BY DEF TypeOK, Compare, To
  <1>1. Late' = Late /\ Room' = Room
    BY <1>0 DEF Late, Room
  <1>2. Due' = Due \ {r}
    BY <1>0 DEF Due
  <1>3. CASE reply[r] <= Quota
    <2>1. letIn' = IF left > 0 THEN letIn + 1 ELSE letIn
      BY <1>3 DEF Compare
    <2>2. r \in Due
      BY <1>0, <1>3 DEF Due
    <2>3. Cardinality(Due') = Cardinality(Due) - 1
      BY <1>2, <2>2, Numbers, FS_RemoveElement
    <2> QED
      BY <2>1, <2>3, <1>0, <1>1, Numbers, RoomRange DEF Spent, TypeOK
  <1>4. CASE ~(reply[r] <= Quota)
    <2>1. letIn' = letIn
      BY <1>4 DEF Compare
    <2>2. Cardinality(Due') <= Cardinality(Due)
      BY <1>2, Numbers, OneElement
    <2> QED
      BY <2>1, <2>2, <1>0, <1>1, Numbers, NumbersNext, RoomRange DEF Spent
  <1> QED
    BY <1>3, <1>4

LEMMA OthersSpend ==
    ASSUME TypeOK, NEW r \in Rs,
           \/ Arrive(r) \/ Look(r) \/ Query(r) \/ Store(r) \/ NameCounter(r)
           \/ Expire(r) \/ Leave(r)
    PROVE  Spent' = Spent /\ letIn' = letIn
  <1>1. /\ letIn' = letIn /\ count' = count
        /\ \A q \in Rs \ {r} :
             pc'[q] = pc[q] /\ reply'[q] = reply[q] /\ hour'[q] = hour[q]
    BY DEF TypeOK, To, Arrive, Look, Query, Store, NameCounter, Expire, Leave,
           counterVars, watchVars
  <1>2. Due' = Due
    <2>1. \/ /\ pc[r] \notin {"expire", "compare"}
             /\ pc'[r] \notin {"expire", "compare"}
          \/ /\ pc[r] = "expire" /\ pc'[r] = "compare" /\ reply' = reply
      BY DEF TypeOK, To, Arrive, Look, Query, Store, NameCounter, Expire, Leave
    <2> QED
      BY <1>1, <2>1 DEF Due
  <1>3. Late' = Late
    <2>1. /\ pc[r] # "incr"
          /\ pc'[r] # "incr" \/ hour'[r] = 0
      BY DEF TypeOK, To, Arrive, Look, Query, Store, NameCounter, Expire, Leave
    <2> QED
      BY <1>1, <2>1 DEF Late
  <1> QED
    BY <1>1, <1>2, <1>3 DEF Spent, Room

LEMMA RequestWatched ==
    ASSUME TypeOK, Watched, NEW r \in Rs,
           \/ Arrive(r) \/ Look(r) \/ Query(r) \/ Store(r) \/ NameCounter(r)
           \/ Increment(r) \/ Expire(r) \/ Compare(r) \/ Leave(r)
    PROVE  Watched'
  <1>1. left' = left /\ minute' = minute
    BY DEF Arrive, Look, Query, Store, NameCounter, Increment, Expire, Compare,
           Leave, counterVars, watchVars
  <1>2. expiry'[0] \in {expiry[0], Hour}
    BY DEF TypeOK, Hours, Arrive, Look, Query, Store, NameCounter, Increment,
           Expire, Compare, Leave, counterVars
  <1>3. Spent' <= Spent /\ (left = 0 => letIn' = letIn)
    <2>1. CASE Increment(r)
      BY <2>1, IncrementSpends DEF Increment, watchVars
    <2>2. CASE Compare(r)
      BY <2>2, CompareSpends
    <2>3. CASE ~Increment(r) /\ ~Compare(r)
      <3>1. Spent \in Int
        BY Numbers, RoomRange DEF Spent, TypeOK
      <3> QED
        BY <2>3, <3>1, OthersSpend
    <2> QED
      BY <2>1, <2>2, <2>3
  <1>4. NextHour' = NextHour
    BY <1>1 DEF NextHour, Turning
  <1>5. /\ Spent \in Int /\ Spent' \in Int /\ NextHour \in Nat
        /\ Quota \in Nat /\ Cardinality(Rs) \in Nat
    <2>1. TypeOK'
      BY RequestTyped
    <2>2. Room' \in 0 .. Quota
      BY <2>1, KeyGateAssumption DEF TypeOK, Room, Hours
    <2> QED
      BY <2>1, <2>2, Numbers, NumbersNext, RoomRange, KeyGateAssumption
         DEF Spent, NextHour, TypeOK
  <1>6. expiry'[0] + minute' >= Hour
    BY <1>1, <1>2, KeyGateAssumption DEF Watched, TypeOK, Hours, Never
  <1> QED
    BY <1>1, <1>3, <1>4, <1>5, <1>6 DEF Watched

(* Time: the present counter is not dropped, and when the hour turns,      *)
(* nobody counts under the name of the hour before and all who are about   *)
(* to count do so under the name of the one that is over.                  *)
LEMMA TickWatched ==
    ASSUME TypeOK, TypeOK', Watched, Tick
    PROVE  Watched'
  <1>0. /\ Quota \in Nat \ {0} /\ Hour \in Nat \ {0} /\ letIn \in Nat
        /\ left \in 0 .. Hour + 1 /\ minute \in 0 .. Hour - 1
        /\ expiry[0] \in 1 .. Hour + 1 /\ count[0] \in 0 .. Quota + 1
        /\ left' = (IF left = 0 THEN 0 ELSE left - 1)
        /\ letIn' = (IF left > 1 THEN letIn ELSE 0)
        /\ pc' = pc /\ reply' = reply
    BY KeyGateAssumption DEF TypeOK, Hours, Never, Tick, Less
  <1>1. Due' = Due
    BY <1>0 DEF Due
  <1>2. CASE HourGoesOn
    <2>1. /\ minute' = minute + 1 /\ minute < Hour - 1 /\ hour' = hour
          /\ count'[0] = CountLeft(0) /\ expiry'[0] = ExpiryLeft(0)
      BY <1>2 DEF HourGoesOn, Hours
    <2>2. expiry[0] > 1
      BY <2>1, <1>0 DEF Watched
    <2>3. count'[0] = count[0] /\ expiry'[0] + minute' >= Hour
      BY <2>1, <2>2, <1>0 DEF CountLeft, ExpiryLeft, Runs, Never, Watched
    <2>4. Late' = Late
      BY <2>1, <1>0 DEF Late
    <2>5. left > 1 => Spent' = Spent /\ NextHour' = NextHour
      BY <2>1, <2>3, <2>4, <1>0, <1>1 DEF Spent, Room, NextHour, Turning
    <2> QED
      BY <2>3, <2>5, <1>0 DEF Watched
  <1>3. CASE HourTurns
    <2>1. /\ minute = Hour - 1 /\ minute' = 0
          /\ count'[0] = 0 /\ expiry'[0] = Never
      BY <1>3 DEF HourTurns, Hours
    <2>2. \A r \in Rs : hour[r] = 0
      BY <2>1, <1>0 DEF Tick, InTime
    <2>3. Late = {}
      BY <2>2 DEF Late
    <2>4. Cardinality(Late') <= Cardinality(Rs)
      BY Numbers, FS_Subset DEF Late
    <2>5. ASSUME left > 1
          PROVE  Spent' + NextHour' <= 2 * (Quota + Cardinality(Rs))
      <3>1. letIn + Cardinality(Due) + Cardinality(Rs) + Quota
              <= 2 * (Quota + Cardinality(Rs))
        <4>1. Turning
          BY <2>1, <2>5, <1>0 DEF Turning
        <4> QED
          BY <4>1, <2>3, <2>5, <1>0, FS_EmptySet, Numbers, RoomRange
             DEF Watched, Spent, NextHour
      <3>2. NextHour' = 0
        BY <2>1, <1>0 DEF NextHour, Turning
      <3>3. Room' = Quota
        BY <2>1, <1>0 DEF Room
      <3> QED
        BY <3>1, <3>2, <3>3, <2>4, <2>5, <1>0, <1>1, Numbers, NumbersNext
           DEF Spent
    <2> QED
      BY <2>1, <2>5, <1>0 DEF Watched, Never
  <1> QED
    BY <1>2, <1>3 DEF Tick

(* The watch begins when an hour is still to turn in it.                   *)
LEMMA WatchWatched ==
    ASSUME TypeOK, Watched, Watch
    PROVE  Watched'
  <1>0. /\ Quota \in Nat \ {0} /\ Hour \in Nat \ {0}
        /\ left = 0 /\ left' = Hour + 1 /\ letIn = 0 /\ letIn' = 0
        /\ minute' = minute /\ expiry' = expiry /\ minute \in 0 .. Hour - 1
    BY KeyGateAssumption DEF TypeOK, Watch, Watched
  <1>1. Due' = Due /\ Late' = Late /\ Room' = Room
    BY DEF Watch, Due, Late, Room
  <1>2. Cardinality(Due) + Cardinality(Late) <= Cardinality(Rs)
    <2>1. Due \cap Late = {} /\ Due \cup Late \in SUBSET Rs
      BY DEF Due, Late
    <2>2. Cardinality(Due \cup Late) = Cardinality(Due) + Cardinality(Late)
      BY <2>1, Numbers, FS_Union, FS_EmptySet
    <2>3. Cardinality(Due \cup Late) <= Cardinality(Rs)
      BY <2>1, Numbers, FS_Subset
    <2> QED
      BY <2>2, <2>3
  <1>3. NextHour' <= Cardinality(Rs) + Quota /\ NextHour' \in Nat
    BY <1>0, Numbers DEF NextHour
  <1>4. Spent' + NextHour' <= 2 * (Quota + Cardinality(Rs))
    BY <1>0, <1>1, <1>2, <1>3, Numbers, RoomRange DEF Spent
  <1> QED
    BY <1>0, <1>4 DEF Watched

LEMMA WatchedStep ==
    ASSUME TypeOK, Watched, [Next]_vars
    PROVE  Watched'
  <1>1. CASE Toggle \/ UNCHANGED vars
    <2>1. UNCHANGED <<minute, count, expiry, pc, hour, reply, left, letIn>>
      BY <1>1 DEF Toggle, vars, counterVars, watchVars
    <2>2. Spent' = Spent /\ NextHour' = NextHour
      BY <2>1 DEF Spent, Due, Late, Room, NextHour, Turning
    <2> QED
      BY <2>1, <2>2 DEF Watched
  <1> QED
    BY <1>1, NextTyped, RequestWatched, TickWatched, WatchWatched DEF Next

(* An hour lets in at most twice the limit of a clock hour and twice the   *)
(* requests under way, for every limit and every number of requests:       *)
(* QuotaBounded is an invariant.                                           *)
THEOREM HourlyJobsBounded == Spec => []QuotaBounded
  <1>1. Init => Watched
    BY KeyGateAssumption DEF Init, Watched, Hours, Never
  <1>2. TypeOK /\ Watched => QuotaBounded
    <2> SUFFICES ASSUME TypeOK, Watched PROVE QuotaBounded
      OBVIOUS
    <2>1. letIn <= Spent /\ NextHour \in Nat /\ Spent \in Int
      BY Numbers, RoomRange, KeyGateAssumption DEF TypeOK, Spent, NextHour
    <2> QED
      BY <2>1, Numbers, KeyGateAssumption DEF Watched, TypeOK, QuotaBounded
  <1> QED
    BY <1>1, <1>2, WatchedStep, TypeCorrect, PTL DEF Spec

=============================================================================
