---------------------------- MODULE IpGateProofs ----------------------------
(***************************************************************************)
(* Theorems about IpGate, for every number of requests, every limit and    *)
(* every number of ticks in a window.                                      *)
(***************************************************************************)
EXTENDS IpGate, FiniteSetTheorems, TLAPS

(* A request about to ask a limiter has one.                               *)
Holding == \A r \in Rs : pc[r] = "allow" => mine[r] \in Limiters

Typed == TypeOK /\ Holding

-----------------------------------------------------------------------------
(* Numbers.                                                                *)

LEMMA TimesWindow ==
    ASSUME NEW a \in Int, NEW b \in Int, a <= b
    PROVE  Window * a <= Window * b
  BY IpGateAssumption

LEMMA Products ==
    /\ Limit \in Nat \ {0} /\ Window \in Nat \ {0}
    /\ Full \in Nat /\ Full >= Window /\ Full = Window * Limit
    /\ \A a \in Int : Window * a \in Int
    /\ \A a, b \in Int : Window * (a + b) = Window * a + Window * b
  <1>1. Limit \in Nat \ {0} /\ Window \in Nat \ {0}
    BY IpGateAssumption
  <1>2. Full = Window * Limit /\ Full \in Nat
    BY <1>1 DEF Full
  <1>3. \A a \in Int : Window * a \in Int
    BY <1>1
  <1>4. \A a, b \in Int : Window * (a + b) = Window * a + Window * b
    BY <1>1
  <1>5. Full >= Window
    <2>1. Window * 1 <= Window * Limit
      BY <1>1, TimesWindow
    <2> QED
      BY <2>1, <1>1, <1>2
  <1> QED
    BY <1>1, <1>2, <1>3, <1>4, <1>5

LEMMA OneElement ==
    ASSUME NEW S, IsFiniteSet(S), NEW x
    PROVE  /\ Cardinality(S \cup {x}) <= Cardinality(S) + 1
           /\ Cardinality(S \ {x}) <= Cardinality(S)
  <1>1. Cardinality(S) \in Nat
    BY FS_CardinalityType
  <1>2. Cardinality(S \cup {x}) <= Cardinality(S) + 1
    <2>1. CASE x \in S
      <3>1. S \cup {x} = S
        BY <2>1
      <3> QED
        BY <3>1, <1>1
    <2>2. CASE x \notin S
      BY <2>2, <1>1, FS_AddElement
    <2> QED
      BY <2>1, <2>2
  <1>3. Cardinality(S \ {x}) <= Cardinality(S)
    <2>1. S \ {x} \in SUBSET S
      OBVIOUS
    <2> QED
      BY <2>1, FS_Subset
  <1> QED
    BY <1>2, <1>3

-----------------------------------------------------------------------------
(* Types.                                                                  *)

LEMMA InitTyped == Init => Typed
  BY Products DEF Init, Typed, TypeOK, Holding, Many, Never, Steps

LEMMA GetLimiterTyped ==
    ASSUME Typed, NEW r \in Rs, GetLimiter(r)
    PROVE  Typed'
  <1> USE DEF Typed, TypeOK, Holding
  <1>1. /\ pc' = [pc EXCEPT ![r] = "allow"]
        /\ UNCHANGED <<members, expiry, unseen, left, letIn>>
    BY DEF GetLimiter, To, watchVars
  <1>2. CASE limiter # NoLimiter
    <2>1. /\ limiter \in Limiters /\ mine' = [mine EXCEPT ![r] = limiter]
          /\ UNCHANGED <<limiter, sweep, bucket>>
      BY <1>2 DEF GetLimiter
    <2> QED
      BY <1>1, <2>1 DEF Steps
  <1>3. CASE limiter = NoLimiter
    <2>1. PICK l \in Spare :
            /\ limiter' = l
            /\ bucket' = [bucket EXCEPT ![l] = Full]
            /\ sweep' = 2 * Window
            /\ mine' = [mine EXCEPT ![r] = l]
      BY <1>3 DEF GetLimiter
    <2>2. l \in Limiters
      BY DEF Spare
    <2> QED
      BY <1>1, <2>1, <2>2, Products DEF Steps
  <1> QED
    BY <1>2, <1>3

LEMMA AllowTyped ==
    ASSUME Typed, NEW r \in Rs, Allow(r)
    PROVE  Typed'
  <1> USE DEF Typed, TypeOK, Holding
  <1>0. mine[r] \in Limiters /\ bucket[mine[r]] \in 0 .. Full
    BY DEF Allow
  <1>1. /\ mine' = [mine EXCEPT ![r] = NoLimiter]
        /\ UNCHANGED <<limiter, sweep, members, expiry, unseen, left>>
    BY DEF Allow
  <1>2. CASE bucket[mine[r]] >= Window
    <2>1. /\ bucket' = [bucket EXCEPT ![mine[r]] = bucket[mine[r]] - Window]
          /\ LetIn(r)
      BY <1>2 DEF Allow
    <2>2. bucket[mine[r]] - Window \in 0 .. Full
      BY <1>0, <1>2, Products
    <2>3. pc' = [pc EXCEPT ![r] = "passed"] /\ letIn' \in Nat
      BY <2>1 DEF LetIn, To
    <2>4. bucket' \in [Limiters -> 0 .. Full]
      BY <2>1, <2>2, <1>0
    <2> QED
      BY <1>1, <2>3, <2>4 DEF Steps
  <1>3. CASE ~(bucket[mine[r]] >= Window)
    BY <1>1, <1>3 DEF Allow, To, Steps
  <1> QED
    BY <1>2, <1>3

LEMMA RedisTyped ==
    ASSUME Typed, NEW r \in Rs,
           Arrive(r) \/ Add(r) \/ Expire(r) \/ Count(r) \/ Leave(r)
    PROVE  Typed'
  <1> USE DEF Typed, TypeOK, Holding, To, watchVars
  <1>1. CASE Arrive(r) \/ Leave(r)
    BY <1>1 DEF Arrive, Leave, Steps
  <1>2. CASE Add(r)
    BY <1>2, Products DEF Add, Many, Never, Steps
  <1>3. CASE Expire(r)
    BY <1>3, Products DEF Expire, Never, Steps
  <1>4. CASE Count(r)
    BY <1>4 DEF Count, LetIn, Steps
  <1> QED
    BY <1>1, <1>2, <1>3, <1>4

LEMMA TickTyped ==
    ASSUME Typed, Tick
    PROVE  Typed'
  <1> USE DEF Typed, TypeOK, Holding
  <1>1. bucket' \in [Limiters -> 0 .. Full]
    BY Products DEF Tick
  <1>2. sweep' \in 0 .. 2 * Window
    BY Products DEF Tick, Less
  <1>3. members' \in 0 .. Many /\ expiry' \in 1 .. Never
    <2>1. Age /\ members \in 0 .. Many /\ expiry \in 1 .. Never
      BY DEF Tick
    <2> QED
      BY <2>1, IpGateAssumption DEF Age, Many, Never
  <1>4. unseen' \subseteq Rs
    BY DEF Tick, Age
  <1>5. left' \in 0 .. Window /\ letIn' \in Nat
    <2>1. Age /\ left \in 0 .. Window /\ letIn \in Nat
      BY DEF Tick
    <2> QED
      BY <2>1, IpGateAssumption DEF Age, Less
  <1> QED
    BY <1>1, <1>2, <1>3, <1>4, <1>5 DEF Tick

LEMMA NextTyped == Typed /\ [Next]_vars => Typed'
  <1> SUFFICES ASSUME Typed, [Next]_vars PROVE Typed'
    OBVIOUS
  <1>1. CASE UNCHANGED vars
    BY <1>1 DEF Typed, TypeOK, Holding, vars, watchVars
  <1>2. CASE Sweep
    BY <1>2 DEF Typed, TypeOK, Holding, Sweep, watchVars
  <1>3. CASE Watch
    BY <1>3, Products DEF Typed, TypeOK, Holding, Watch
  <1> QED
    BY <1>1, <1>2, <1>3, GetLimiterTyped, AllowTyped, RedisTyped, TickTyped
       DEF Next, Serve

(* A bucket is never overdrawn nor fuller than the burst, whoever holds it *)
(* after its sweep: TypeOK is an invariant.                                *)
THEOREM TypeCorrect == Spec => []TypeOK
  BY InitTyped, NextTyped, PTL DEF Spec, Typed

-----------------------------------------------------------------------------
(* The requests of a window.  At every moment of the window under watch,   *)
(* those let in and those who can still come are within the bound.  The    *)
(* claims are requests: those let in, those that hold a bucket which is    *)
(* not the entry's, everybody if the entry is still to be swept, and those *)
(* the sorted set admits.  The units are what the buckets can still give:  *)
(* the entry's, its refill, and a full one if it is still to be swept.     *)

Orphans == {r \in Rs : pc[r] = "allow" /\ mine[r] # limiter}
InSet   == {r \in Rs \ unseen : pc[r] \in {"expire", "count"}}
AtCount == {r \in Rs \ unseen : pc[r] = "count"}

Sweeping  == limiter # NoLimiter /\ sweep < left
Dropping  == expiry < left

(* What the sorted set admits: before it is dropped under watch only those *)
(* that have set no later expiry, and Limit after that; of a set that      *)
(* stays, those it has counted, and the rest of its room.                  *)
BySet == IF Dropping THEN Limit + Cardinality(AtCount)
         ELSE IF members > Limit THEN 0
         ELSE Cardinality(InSet) + Limit - members

Claims == letIn + Cardinality(Orphans) + BySet
          + (IF Sweeping THEN Cardinality(Rs) ELSE 0)

Units == (IF limiter = NoLimiter THEN Full ELSE bucket[limiter])
         + Limit * (left - 1)
         + (IF Sweeping THEN Full ELSE 0)

Most == 4 * Limit + 2 * Cardinality(Rs)

SetOK ==
    /\ members <= Limit => Cardinality(InSet) <= members
    /\ members = 0 => expiry = Never

Watched ==
    /\ SetOK
    /\ left = 0 => letIn = 0
    /\ left > 0 => Units + Window * Claims <= Window * Most

LEMMA Numbers ==
    /\ IsFiniteSet(Rs) /\ IsFiniteSet(Orphans)
    /\ IsFiniteSet(InSet) /\ IsFiniteSet(AtCount)
    /\ Cardinality(Rs) \in Nat /\ Cardinality(Orphans) \in Nat
    /\ Cardinality(InSet) \in Nat /\ Cardinality(AtCount) \in Nat
    /\ Most \in Nat
  <1>1. /\ Orphans \in SUBSET Rs /\ InSet \in SUBSET Rs /\ AtCount \in SUBSET Rs
    BY DEF Orphans, InSet, AtCount
  <1>2. /\ IsFiniteSet(Rs) /\ IsFiniteSet(Orphans)
        /\ IsFiniteSet(InSet) /\ IsFiniteSet(AtCount)
    BY <1>1, IpGateAssumption, FS_Subset
  <1>3. /\ Cardinality(Rs) \in Nat /\ Cardinality(Orphans) \in Nat
        /\ Cardinality(InSet) \in Nat /\ Cardinality(AtCount) \in Nat
    BY <1>2, FS_CardinalityType
  <1> QED
    BY <1>2, <1>3, IpGateAssumption DEF Most

LEMMA NumbersNext ==
    /\ Orphans' \in SUBSET Rs
    /\ Cardinality(Orphans') \in Nat
    /\ Cardinality(InSet') \in Nat /\ Cardinality(AtCount') \in Nat
  <1>1. /\ Orphans' \in SUBSET Rs /\ InSet' \in SUBSET Rs
        /\ AtCount' \in SUBSET Rs
    BY DEF Orphans, InSet, AtCount
  <1>2. /\ IsFiniteSet(Orphans') /\ IsFiniteSet(InSet') /\ IsFiniteSet(AtCount')
    BY <1>1, IpGateAssumption, FS_Subset
  <1> QED
    BY <1>1, <1>2, FS_CardinalityType

(* What the variables' types say about the numbers they make up.           *)
LEMMA Ranges ==
    ASSUME TypeOK, SetOK
    PROVE  /\ letIn \in Nat /\ left \in 0 .. Window /\ sweep \in 0 .. 2 * Window
           /\ members \in 0 .. Limit + 1 /\ expiry \in 1 .. Window + 1
           /\ Never = Window + 1 /\ Many = Limit + 1
           /\ BySet \in Nat /\ BySet <= Limit + Cardinality(AtCount)
           /\ ~Dropping => BySet <= Limit
           /\ Limit * (left - 1) \in Int /\ Units \in Int /\ Claims \in Nat
  <1>1. /\ letIn \in Nat /\ left \in 0 .. Window /\ sweep \in 0 .. 2 * Window
        /\ members \in 0 .. Limit + 1 /\ expiry \in 1 .. Window + 1
        /\ Never = Window + 1 /\ Many = Limit + 1
        /\ Limit \in Nat \ {0} /\ Window \in Nat \ {0}
    BY IpGateAssumption DEF TypeOK, Many, Never
  <1>2. /\ BySet \in Nat /\ BySet <= Limit + Cardinality(AtCount)
        /\ ~Dropping => BySet <= Limit
    BY <1>1, Numbers DEF BySet, SetOK
  <1>3. left - 1 \in Int
    BY <1>1
  <1>4. Limit * (left - 1) \in Int
    BY <1>1, <1>3
  <1>5. limiter # NoLimiter => bucket[limiter] \in 0 .. Full
    BY DEF TypeOK
  <1>6. Units \in Int
    BY <1>4, <1>5, Products DEF Units
  <1>7. Claims \in Nat
    BY <1>1, <1>2, Numbers DEF Claims
  <1> QED
    BY <1>1, <1>2, <1>4, <1>6, <1>7

(* A step within the window under watch: nothing comes in, or a token is   *)
(* taken from the entry's bucket for a claim.                              *)
LEMMA WithinWatch ==
    ASSUME TypeOK, TypeOK', Watched, SetOK', left' = left,
           left = 0 => letIn' = letIn,
           left > 0 => \/ Units' <= Units /\ Claims' <= Claims
                       \/ Units' = Units - Window /\ Claims' <= Claims + 1
    PROVE  Watched'
  <1>1. /\ Units \in Int /\ Claims \in Nat /\ left \in 0 .. Window /\ SetOK
    BY Ranges DEF Watched
  <1>2. Units' \in Int /\ Claims' \in Nat
    <2>1. /\ letIn' \in Nat /\ left' \in 0 .. Window
          /\ members' \in 0 .. Limit + 1 /\ Limit \in Nat \ {0}
      BY IpGateAssumption DEF TypeOK, Many
    <2>2. BySet' \in Nat
      BY <2>1, NumbersNext DEF BySet, SetOK
    <2>3. Limit * (left' - 1) \in Int
      <3>1. left' - 1 \in Int
        BY <2>1
      <3> QED
        BY <2>1, <3>1
    <2>4. limiter' # NoLimiter => bucket'[limiter'] \in 0 .. Full
      BY DEF TypeOK
    <2> QED
      BY <2>1, <2>2, <2>3, <2>4, Products, Numbers, NumbersNext
         DEF Units, Claims
  <1>3. Most' = Most
    BY DEF Most
  <1>4. ASSUME left > 0 PROVE Units' + Window * Claims' <= Window * Most
    <2>1. Units + Window * Claims <= Window * Most
      BY <1>4 DEF Watched
    <2>2. Window * Claims \in Int /\ Window * Claims' \in Int /\ Window * Most \in Int
      BY <1>1, <1>2, Numbers, Products
    <2>3. CASE Units' <= Units /\ Claims' <= Claims
      <3>1. Window * Claims' <= Window * Claims
        <4>1. Claims \in Int /\ Claims' \in Int
          BY <1>1, <1>2
        <4> QED
          BY <4>1, <2>3, TimesWindow
      <3> QED
        BY <2>1, <2>2, <2>3, <3>1, <1>1, <1>2
    <2>4. CASE Units' = Units - Window /\ Claims' <= Claims + 1
      <3>1. Window * Claims' <= Window * (Claims + 1)
        <4>1. Claims + 1 \in Int /\ Claims' \in Int
          BY <1>1, <1>2
        <4> QED
          BY <4>1, <2>4, TimesWindow
      <3>2. Window * (Claims + 1) = Window * Claims + Window
        BY <1>1, Products
      <3> QED
        BY <2>1, <2>2, <2>4, <3>1, <3>2, <1>1, <1>2, Products
    <2> QED
      BY <1>4, <2>3, <2>4
  <1> QED
    BY <1>3, <1>4 DEF Watched

LEMMA GetLimiterWatched ==
    ASSUME Typed, Watched, NEW r \in Rs, GetLimiter(r)
    PROVE  Watched'
  <1>0. /\ TypeOK /\ TypeOK' /\ SetOK
        /\ pc[r] = "limiter" /\ pc' = [pc EXCEPT ![r] = "allow"]
        /\ UNCHANGED <<members, expiry, unseen, left, letIn>>
    BY GetLimiterTyped DEF Typed, Watched, GetLimiter, To, watchVars
  <1>1. InSet' = InSet /\ AtCount' = AtCount
    BY <1>0 DEF InSet, AtCount, TypeOK
  <1>2. BySet' = BySet /\ SetOK'
    BY <1>0, <1>1 DEF BySet, Dropping, SetOK
  <1>3. /\ Orphans' = Orphans /\ Units' = Units
        /\ left > 0 => Sweeping' = Sweeping
    <2>1. CASE limiter # NoLimiter
      <3>1. /\ mine' = [mine EXCEPT ![r] = limiter]
            /\ UNCHANGED <<limiter, sweep, bucket>>
        BY <2>1 DEF GetLimiter
      <3> QED
        BY <3>1, <1>0 DEF Orphans, Units, Sweeping, TypeOK
    <2>2. CASE limiter = NoLimiter
      <3>1. PICK l \in Spare :
              /\ limiter' = l
              /\ bucket' = [bucket EXCEPT ![l] = Full]
              /\ sweep' = 2 * Window
              /\ mine' = [mine EXCEPT ![r] = l]
        BY <2>2 DEF GetLimiter
      <3>2. l \in Limiters /\ l # NoLimiter /\ \A q \in Rs : mine[q] # l
        BY IpGateAssumption DEF Spare
      <3>3. bucket'[l] = Full
        BY <3>1, <3>2 DEF TypeOK, Typed
      <3>4. Sweeping = FALSE /\ Sweeping' = FALSE
        BY <3>1, <2>2, <1>0, Ranges, IpGateAssumption DEF Sweeping
      <3>5. Orphans' = Orphans
        BY <3>1, <3>2, <2>2, <1>0, IpGateAssumption
           DEF Orphans, TypeOK, Typed, Holding
      <3>6. Units = Full + Limit * (left - 1) + 0
        BY <3>4, <2>2 DEF Units
      <3>7. Units' = Full + Limit * (left - 1) + 0
        BY <3>1, <3>2, <3>3, <3>4, <1>0 DEF Units
      <3> QED
        BY <3>4, <3>5, <3>6, <3>7
    <2> QED
      BY <2>1, <2>2
  <1>4. left > 0 => Units' <= Units /\ Claims' <= Claims
    <2>1. left > 0 => Claims' = Claims
      BY <1>0, <1>2, <1>3 DEF Claims
    <2> QED
      BY <2>1, <1>0, <1>3, Ranges
  <1> QED
    BY <1>0, <1>2, <1>4, WithinWatch

LEMMA AllowWatched ==
    ASSUME Typed, Watched, NEW r \in Rs, Allow(r)
    PROVE  Watched'
  <1>0. /\ TypeOK /\ TypeOK' /\ SetOK /\ pc[r] = "allow" /\ mine[r] \in Limiters
        /\ mine' = [mine EXCEPT ![r] = NoLimiter]
        /\ UNCHANGED <<limiter, sweep, members, expiry, unseen, left>>
        /\ letIn \in Nat
    BY AllowTyped DEF Typed, Watched, Allow, Holding, TypeOK
  <1>1. /\ pc'[r] \in {"passed", "add"} /\ \A q \in Rs \ {r} : pc'[q] = pc[q]
    BY <1>0 DEF Allow, LetIn, To, TypeOK
  <1>2. InSet' = InSet /\ AtCount' = AtCount
    BY <1>0, <1>1 DEF InSet, AtCount
  <1>3. BySet' = BySet /\ SetOK' /\ Sweeping' = Sweeping
    BY <1>0, <1>2 DEF BySet, Dropping, SetOK, Sweeping
  <1>4. Orphans' = Orphans \ {r}
    BY <1>0, <1>1 DEF Orphans, TypeOK
  <1>5. Cardinality(Orphans') <= Cardinality(Orphans)
    BY <1>4, Numbers, OneElement
  <1>6. CASE bucket[mine[r]] >= Window
    <2>1. /\ bucket' = [bucket EXCEPT ![mine[r]] = bucket[mine[r]] - Window]
          /\ letIn' = IF left > 0 /\ r \notin unseen THEN letIn + 1 ELSE letIn
      BY <1>6 DEF Allow, LetIn
    <2>2. letIn' <= letIn + 1 /\ letIn' \in Nat /\ (left = 0 => letIn' = letIn)
      BY <2>1, <1>0
    <2>3. CASE mine[r] = limiter
      <3>1. bucket'[limiter] = bucket[limiter] - Window /\ limiter # NoLimiter
        BY <2>1, <2>3, <1>0, IpGateAssumption DEF TypeOK
      <3>2. bucket[limiter] \in 0 .. Full
        BY <2>3, <1>0 DEF TypeOK
      <3>3. Units' = Units - Window
        <4> DEFINE refill == Limit * (left - 1)
                   full   == IF Sweeping THEN Full ELSE 0
        <4>1. Units = bucket[limiter] + refill + full
          BY <3>1 DEF Units
        <4>2. Units' = bucket[limiter] - Window + refill + full
          BY <3>1, <1>0, <1>3 DEF Units
        <4>3. refill \in Int /\ full \in Int /\ Window \in Int
          BY <1>0, Ranges, Products
        <4> HIDE DEF refill, full
        <4> QED
          BY <4>1, <4>2, <4>3, <3>2, Products
      <3>4. Claims' <= Claims + 1
        BY <2>2, <1>0, <1>3, <1>5, Numbers, NumbersNext, Ranges DEF Claims
      <3> QED
        BY <3>3, <3>4, <2>2, <1>0, <1>3, WithinWatch
    <2>4. CASE mine[r] # limiter
      <3>1. limiter # NoLimiter => bucket'[limiter] = bucket[limiter]
        BY <2>1, <2>4, <1>0 DEF TypeOK
      <3>2. Units' = Units
        BY <3>1, <1>0, <1>3 DEF Units
      <3>3. r \in Orphans
        BY <2>4, <1>0 DEF Orphans
      <3>4. Cardinality(Orphans') = Cardinality(Orphans) - 1
        BY <3>3, <1>4, Numbers, FS_RemoveElement
      <3>5. Claims' <= Claims
        BY <3>4, <2>2, <1>0, <1>3, Numbers, NumbersNext, Ranges DEF Claims
      <3> QED
        BY <3>2, <3>5, <2>2, <1>0, <1>3, Ranges, WithinWatch
    <2> QED
      BY <2>3, <2>4
  <1>7. CASE ~(bucket[mine[r]] >= Window)
    <2>1. bucket' = bucket /\ letIn' = letIn
      BY <1>7 DEF Allow
    <2>2. Units' = Units
      BY <2>1, <1>0, <1>3 DEF Units
    <2>3. Claims' <= Claims
      BY <2>1, <1>0, <1>3, <1>5, Numbers, NumbersNext, Ranges DEF Claims
    <2> QED
      BY <2>1, <2>2, <2>3, <1>0, <1>3, Ranges, WithinWatch
  <1> QED
    BY <1>6, <1>7

(* The sorted set.  A request that is added takes up its room, one that    *)
(* sets the expiry keeps the set for the rest of the window under watch,   *)
(* and one that counts itself has its claim met or given up.               *)
SetStep == SetOK' /\ letIn' + BySet' <= letIn + BySet

LEMMA AddSet ==
    ASSUME TypeOK, SetOK, NEW r \in Rs, Add(r)
    PROVE  SetStep
  <1>0. /\ pc[r] = "add" /\ pc' = [pc EXCEPT ![r] = "expire"]
        /\ left' = left /\ letIn' = letIn
    BY DEF Add, To, watchVars
  <1>1. CASE unseen' = unseen
    <2>1. AtCount' = AtCount
      BY <1>0, <1>1 DEF AtCount, TypeOK
    <2>2. Cardinality(InSet') <= Cardinality(InSet) + 1
      <3>1. CASE r \in unseen
        <4>1. InSet' = InSet
          BY <3>1, <1>0, <1>1 DEF InSet, TypeOK
        <4> QED
          BY <4>1, Numbers
      <3>2. CASE r \notin unseen
        <4>1. InSet' = InSet \cup {r}
          BY <3>2, <1>0, <1>1 DEF InSet, TypeOK
        <4> QED
          BY <4>1, Numbers, OneElement
      <3> QED
        BY <3>1, <3>2
    <2>3. CASE /\ members' = IF members = Many THEN Many ELSE members + 1
               /\ expiry' = IF members = 0 THEN Never ELSE expiry
      <3>1. members' # 0 /\ expiry' = expiry
        BY <2>3, Ranges, IpGateAssumption DEF SetOK
      <3>2. SetOK'
        BY <2>2, <2>3, <3>1, Ranges, Numbers, NumbersNext, IpGateAssumption
           DEF SetOK
      <3>3. Dropping' = Dropping
        BY <3>1, <1>0 DEF Dropping
      <3>4. BySet' <= BySet
        <4>1. CASE Dropping
          BY <4>1, <3>3, <2>1, Ranges DEF BySet
        <4>2. CASE ~Dropping
          BY <4>2, <3>3, <2>2, <2>3, Ranges, Numbers, NumbersNext,
             IpGateAssumption DEF BySet
        <4> QED
          BY <4>1, <4>2
      <3>5. BySet' \in Int
        BY <3>3, <2>1, <2>3, Ranges, Numbers, NumbersNext, IpGateAssumption
           DEF BySet
      <3> QED
        BY <3>2, <3>4, <3>5, <1>0, Ranges DEF SetStep
    <2>4. CASE UNCHANGED <<members, expiry>> /\ r \in unseen
      <3>1. InSet' = InSet
        BY <2>4, <1>0, <1>1 DEF InSet, TypeOK
      <3>2. BySet' = BySet /\ SetOK'
        BY <2>1, <2>4, <3>1, <1>0 DEF BySet, SetOK, Dropping
      <3> QED
        BY <3>2, <1>0, Ranges DEF SetStep
    <2> QED
      BY <1>1, <2>3, <2>4 DEF Add
  <1>2. CASE unseen' = unseen \cup {r} /\ UNCHANGED <<members, expiry>>
    <2>1. InSet' = InSet /\ AtCount' = AtCount
      BY <1>0, <1>2 DEF InSet, AtCount, TypeOK
    <2>2. BySet' = BySet /\ SetOK'
      BY <2>1, <1>0, <1>2 DEF BySet, SetOK, Dropping
    <2> QED
      BY <2>2, <1>0, Ranges DEF SetStep
  <1> QED
    BY <1>1, <1>2 DEF Add

LEMMA ExpireSet ==
    ASSUME TypeOK, SetOK, NEW r \in Rs, Expire(r)
    PROVE  SetStep
  <1>0. /\ pc[r] = "expire" /\ pc' = [pc EXCEPT ![r] = "count"]
        /\ members' = members /\ left' = left /\ letIn' = letIn
    BY DEF Expire, To, watchVars
  <1>1. CASE unseen' = unseen /\ expiry' = IF members > 0 THEN Window ELSE expiry
    <2>1. InSet' = InSet
      BY <1>0, <1>1 DEF InSet, TypeOK
    <2>2. SetOK'
      BY <2>1, <1>0, <1>1, Ranges DEF SetOK
    <2>3. ~Dropping'
      BY <1>0, <1>1, Ranges, IpGateAssumption DEF Dropping, SetOK
    <2>4. BySet' <= BySet /\ BySet' \in Int
      <3>1. BySet' = IF members > Limit THEN 0
                     ELSE Cardinality(InSet) + Limit - members
        BY <2>1, <2>3, <1>0 DEF BySet
      <3>2. CASE Dropping
        BY <3>1, <3>2, Ranges, Numbers, IpGateAssumption DEF BySet, SetOK
      <3>3. CASE ~Dropping
        BY <3>1, <3>3, Ranges DEF BySet
      <3> QED
        BY <3>2, <3>3
    <2> QED
      BY <2>2, <2>4, <1>0, Ranges DEF SetStep
  <1>2. CASE unseen' = unseen \cup {r} /\ expiry' = expiry
    <2>1. InSet' = InSet \ {r} /\ AtCount' = AtCount
      BY <1>0, <1>2 DEF InSet, AtCount, TypeOK
    <2>2. Cardinality(InSet') <= Cardinality(InSet)
      BY <2>1, Numbers, OneElement
    <2>3. SetOK'
      BY <2>2, <1>0, <1>2, Ranges, Numbers, NumbersNext DEF SetOK
    <2>4. BySet' <= BySet /\ BySet' \in Int
      BY <2>1, <2>2, <1>0, <1>2, Ranges, Numbers, NumbersNext, IpGateAssumption
         DEF BySet, Dropping
    <2> QED
      BY <2>3, <2>4, <1>0, Ranges DEF SetStep
  <1> QED
    BY <1>1, <1>2 DEF Expire

LEMMA CountSet ==
    ASSUME TypeOK, SetOK, NEW r \in Rs, Count(r)
    PROVE  SetStep /\ (left = 0 => letIn' = letIn)
  <1>0. /\ pc[r] = "count" /\ unseen' = unseen \ {r}
        /\ pc'[r] \in {"passed", "refused"}
        /\ \A q \in Rs \ {r} : pc'[q] = pc[q]
        /\ members' = members /\ left' = left /\ expiry' = expiry
    BY DEF Count, LetIn, To, TypeOK
  <1>1. InSet' = InSet \ {r} /\ AtCount' = AtCount \ {r}
    BY <1>0 DEF InSet, AtCount
  <1>2. /\ Cardinality(InSet') <= Cardinality(InSet)
        /\ Cardinality(AtCount') <= Cardinality(AtCount)
    BY <1>1, Numbers, OneElement
  <1>3. SetOK' /\ Dropping' = Dropping
    BY <1>0, <1>2, Ranges, Numbers, NumbersNext DEF SetOK, Dropping
  <1>4. CASE letIn' = letIn
    <2>1. BySet' <= BySet /\ BySet' \in Int
      BY <1>0, <1>2, <1>3, Ranges, Numbers, NumbersNext, IpGateAssumption
         DEF BySet
    <2> QED
      BY <2>1, <1>3, <1>4, Ranges DEF SetStep
  <1>5. CASE letIn' # letIn
    <2>1. letIn' = letIn + 1 /\ left > 0 /\ r \notin unseen /\ members <= Limit
      BY <1>5 DEF Count, LetIn
    <2>2. r \in InSet /\ r \in AtCount
      BY <2>1, <1>0 DEF InSet, AtCount
    <2>3. /\ Cardinality(InSet') = Cardinality(InSet) - 1
          /\ Cardinality(AtCount') = Cardinality(AtCount) - 1
      BY <2>2, <1>1, Numbers, FS_RemoveElement
    <2>4. BySet' = BySet - 1
      BY <2>1, <2>3, <1>0, <1>3, Ranges, Numbers, IpGateAssumption DEF BySet
    <2> QED
      BY <2>1, <2>4, <1>3, Ranges DEF SetStep
  <1> QED
    BY <1>4, <1>5

LEMMA RedisWatched ==
    ASSUME Typed, Watched, NEW r \in Rs,
           Arrive(r) \/ Add(r) \/ Expire(r) \/ Count(r) \/ Leave(r)
    PROVE  Watched'
  <1>0. /\ TypeOK /\ TypeOK' /\ SetOK
        /\ UNCHANGED <<limiter, sweep, bucket, mine, left>>
    BY RedisTyped
       DEF Typed, Watched, Arrive, Add, Expire, Count, Leave, watchVars
  <1>1. Orphans' = Orphans
    BY <1>0
       DEF Orphans, TypeOK, Arrive, Add, Expire, Count, LetIn, Leave, To
  <1>2. SetStep /\ (left = 0 => letIn' = letIn)
    <2>1. CASE Arrive(r) \/ Leave(r)
      <3>1. UNCHANGED <<members, expiry, unseen, left, letIn>>
        BY <2>1 DEF Arrive, Leave, watchVars
      <3>2. InSet' = InSet /\ AtCount' = AtCount
        BY <2>1, <3>1, <1>0 DEF Arrive, Leave, To, InSet, AtCount, TypeOK
      <3>3. BySet' = BySet /\ SetOK'
        BY <3>1, <3>2, <1>0 DEF BySet, SetOK, Dropping
      <3> QED
        BY <3>1, <3>3, <1>0, Ranges DEF SetStep
    <2>2. CASE Add(r) \/ Expire(r)
      BY <2>2, <1>0, AddSet, ExpireSet DEF Add, Expire, watchVars
    <2>3. CASE Count(r)
      BY <2>3, <1>0, CountSet
    <2> QED
      BY <2>1, <2>2, <2>3
  <1>3. Units' = Units /\ Sweeping' = Sweeping
    BY <1>0 DEF Units, Sweeping
  <1>4. BySet' \in Int /\ letIn' \in Int
    BY <1>0, <1>2, NumbersNext, IpGateAssumption
       DEF BySet, SetStep, TypeOK, Many
  <1>5. Claims' <= Claims
    BY <1>0, <1>1, <1>2, <1>3, <1>4, Numbers, Ranges DEF Claims, SetStep
  <1> QED
    BY <1>0, <1>2, <1>3, <1>5, Ranges, WithinWatch DEF SetStep

(* The sweep: its units were set aside, and so were the claims of all who  *)
(* may still hold the bucket.                                              *)
LEMMA SweepWatched ==
    ASSUME Typed, Watched, Sweep
    PROVE  Watched'
  <1>0. /\ TypeOK /\ TypeOK' /\ SetOK
        /\ limiter # NoLimiter /\ limiter' = NoLimiter /\ sweep = 0
        /\ UNCHANGED <<sweep, bucket, members, expiry, pc, mine, unseen, left, letIn>>
    BY NextTyped DEF Typed, Watched, Sweep, watchVars, Next
  <1>1. BySet' = BySet /\ SetOK'
    BY <1>0 DEF BySet, SetOK, InSet, AtCount, Dropping
  <1>2. Cardinality(Orphans') <= Cardinality(Rs)
    BY NumbersNext, IpGateAssumption, FS_Subset
  <1>3. ASSUME left > 0 PROVE Units' <= Units /\ Claims' <= Claims
    <2>1. Sweeping = TRUE /\ Sweeping' = FALSE
      BY <1>0, <1>3 DEF Sweeping
    <2>2. Claims' <= Claims
      BY <2>1, <1>0, <1>1, <1>2, Numbers, NumbersNext, Ranges DEF Claims
    <2>3. Units = bucket[limiter] + Limit * (left - 1) + Full
      BY <2>1, <1>0 DEF Units
    <2>4. Units' = Full + Limit * (left - 1) + 0
      BY <2>1, <1>0 DEF Units
    <2>5. bucket[limiter] \in 0 .. Full
      BY <1>0 DEF TypeOK
    <2>6. Limit * (left - 1) \in Int /\ Full \in Int
      BY <1>0, Ranges, Products
    <2> QED
      BY <2>2, <2>3, <2>4, <2>5, <2>6, Products
  <1> QED
    BY <1>0, <1>1, <1>3, WithinWatch

(* The watch begins: a full bucket, another if the entry is to be swept,   *)
(* and less than a third by the refill; a claim of everybody if the entry  *)
(* is to be swept, and one of those under way already.                     *)
LEMMA WatchWatched ==
    ASSUME Typed, Watched, Watch
    PROVE  Watched'
  <1>0. /\ TypeOK /\ SetOK /\ letIn = 0 /\ letIn' = 0 /\ left' = Window
        /\ UNCHANGED <<limiter, sweep, bucket, members, expiry, pc, mine, unseen>>
        /\ Window \in Nat \ {0} /\ Limit \in Nat \ {0}
    BY IpGateAssumption DEF Typed, Watched, Watch
  <1>1. SetOK' /\ Orphans' = Orphans /\ InSet' = InSet /\ AtCount' = AtCount
    BY <1>0 DEF SetOK, Orphans, InSet, AtCount
  <1>2. Cardinality(Orphans) + Cardinality(AtCount) <= Cardinality(Rs)
    <2>1. Orphans \cap AtCount = {} /\ Orphans \cup AtCount \in SUBSET Rs
      BY DEF Orphans, AtCount
    <2>2. Cardinality(Orphans \cup AtCount)
            = Cardinality(Orphans) + Cardinality(AtCount)
      <3>1. Cardinality(Orphans \cap AtCount) = 0
        BY <2>1, FS_EmptySet
      <3>2. Cardinality(Orphans \cup AtCount)
              = Cardinality(Orphans) + Cardinality(AtCount)
                - Cardinality(Orphans \cap AtCount)
        BY Numbers, FS_Union
      <3> QED
        BY <3>1, <3>2, Numbers
    <2>3. Cardinality(Orphans \cup AtCount) <= Cardinality(Rs)
      BY <2>1, Numbers, FS_Subset
    <2> QED
      BY <2>2, <2>3
  <1>3. BySet' \in Nat /\ BySet' <= Limit + Cardinality(AtCount)
    BY <1>0, <1>1, Ranges, Numbers DEF BySet, SetOK
  <1>4. Claims' \in Int /\ Claims' <= Limit + 2 * Cardinality(Rs)
    BY <1>0, <1>1, <1>2, <1>3, Numbers DEF Claims
  <1>5. Units' <= 3 * Full /\ Units' \in Int
    <2>1. Limit * (Window - 1) \in Int /\ Limit * (Window - 1) <= Full
      <3>1. Limit * (Window - 1) = Limit * Window - Limit
        BY <1>0
      <3> QED
        BY <3>1, <1>0, Products DEF Full
    <2>2. limiter # NoLimiter => bucket[limiter] \in 0 .. Full
      BY <1>0 DEF TypeOK
    <2> DEFINE refill == Limit * (Window - 1)
    <2>3. Units' = (IF limiter = NoLimiter THEN Full ELSE bucket[limiter])
                   + refill + (IF Sweeping' THEN Full ELSE 0)
      BY <1>0 DEF Units
    <2>4. refill \in Int /\ refill <= Full
      BY <2>1
    <2> HIDE DEF refill
    <2> QED
      BY <2>2, <2>3, <2>4, Products
  <1>6. Window * Claims' <= Window * Limit + Window * (2 * Cardinality(Rs))
    <2>1. Window * Claims' <= Window * (Limit + 2 * Cardinality(Rs))
      BY <1>0, <1>4, Numbers, TimesWindow
    <2>2. 2 * Cardinality(Rs) \in Int /\ Limit \in Int
      BY <1>0, Numbers
    <2> QED
      BY <2>1, <2>2, Products
  <1>7. Window * Most = 4 * Full + Window * (2 * Cardinality(Rs))
    <2>1. 2 * Cardinality(Rs) \in Int /\ 4 * Limit \in Int
      BY <1>0, Numbers
    <2>2. Window * Most = Window * (4 * Limit) + Window * (2 * Cardinality(Rs))
      BY <2>1, Products DEF Most
    <2>3. Window * (4 * Limit) = 4 * Full
      BY <1>0 DEF Full
    <2> QED
      BY <2>2, <2>3
  <1>8. Units' + Window * Claims' <= Window * Most
    <2>1. /\ Window * Claims' \in Int /\ Window * (2 * Cardinality(Rs)) \in Int
          /\ Window * Limit = Full /\ Full \in Int
      BY <1>0, <1>4, Numbers, Products
    <2> QED
      BY <2>1, <1>5, <1>6, <1>7
  <1>9. Most' = Most
    BY DEF Most
  <1> QED
    BY <1>0, <1>1, <1>8, <1>9 DEF Watched

(* A tick: the bucket gains no more than the refill that was set aside,    *)
(* and the set that is dropped leaves nobody behind who would be counted.  *)
LEMMA TickWatched ==
    ASSUME Typed, Watched, Tick
    PROVE  Watched'
  <1>0. /\ TypeOK /\ SetOK /\ Age
        /\ UNCHANGED <<limiter, pc, mine>>
        /\ left' = (IF left = 0 THEN 0 ELSE left - 1)
        /\ letIn' = (IF left > 1 THEN letIn ELSE 0)
        /\ sweep' = (IF sweep = 0 THEN 0 ELSE sweep - 1)
        /\ Window \in Nat \ {0} /\ Limit \in Nat \ {0}
    BY IpGateAssumption DEF Typed, Watched, Tick, Age, Less
  <1>1. Orphans' = Orphans
    BY <1>0 DEF Orphans
  <1>2. SetOK' /\ (left > 1 => BySet' <= BySet /\ BySet' \in Int)
    <2>1. CASE expiry = 1
      <3>1. members' = 0 /\ expiry' = Never
        BY <2>1, <1>0, Ranges DEF Age
      <3>2. InSet' = {}
        BY <2>1, <1>0 DEF Age, InSet
      <3>3. SetOK'
        BY <3>1, <3>2, FS_EmptySet, <1>0 DEF SetOK
      <3>4. left > 1 => Dropping = TRUE /\ Dropping' = FALSE
        BY <2>1, <3>1, <1>0, Ranges DEF Dropping
      <3> QED
        BY <3>1, <3>2, <3>3, <3>4, FS_EmptySet, <1>0, Numbers DEF BySet
    <2>2. CASE expiry # 1
      <3>1. /\ members' = members /\ unseen' = unseen
            /\ expiry' = IF expiry = Never THEN Never ELSE expiry - 1
        BY <2>2, <1>0 DEF Age
      <3>2. InSet' = InSet /\ AtCount' = AtCount
        BY <3>1, <1>0 DEF InSet, AtCount
      <3>3. SetOK'
        BY <3>1, <3>2, <1>0 DEF SetOK
      <3>4. left > 1 => Dropping' = Dropping
        BY <3>1, <1>0, Ranges DEF Dropping
      <3>5. left > 1 => BySet' = BySet
        BY <3>1, <3>2, <3>4 DEF BySet
      <3> QED
        BY <3>3, <3>5, <1>0, Ranges
    <2> QED
      BY <2>1, <2>2
  <1>3. ASSUME left > 1 PROVE Units' + Window * Claims' <= Window * Most
    <2>0. left - 1 \in Int /\ left - 1 > 0 /\ left' = left - 1 /\ letIn' = letIn
      BY <1>0, <1>3, Ranges
    <2>1. Sweeping' = Sweeping
      BY <1>0, <1>3, Ranges DEF Sweeping
    <2>2. Claims' <= Claims /\ Claims' \in Int /\ Claims \in Int
      BY <2>0, <2>1, <1>0, <1>1, <1>2, <1>3, Numbers, Ranges DEF Claims
    <2>3. Units' <= Units /\ Units' \in Int /\ Units \in Int
      <3> DEFINE refill == Limit * (left - 1)
                 full   == IF Sweeping THEN Full ELSE 0
                 tokens == IF limiter = NoLimiter THEN Full ELSE bucket[limiter]
      <3>1. Limit * (left' - 1) = refill - Limit
        BY <2>0, <1>0
      <3>2. refill \in Int /\ full \in Int /\ Full \in Int
        BY <1>0, Ranges, Products
      <3>3. Units = tokens + refill + full
        BY DEF Units
      <3>4. CASE limiter = NoLimiter
        <4>1. Units' = Full + (refill - Limit) + full /\ tokens = Full
          BY <3>1, <3>4, <2>1, <1>0 DEF Units
        <4> HIDE DEF refill, full, tokens
        <4> QED
          BY <4>1, <3>2, <3>3, <1>0
      <3>5. CASE limiter # NoLimiter
        <4>1. limiter \in Limiters /\ tokens = bucket[limiter]
              /\ bucket[limiter] \in 0 .. Full
          BY <3>5, <1>0 DEF TypeOK
        <4>2. Units' = bucket'[limiter] + (refill - Limit) + full
          BY <3>1, <3>5, <2>1, <1>0 DEF Units
        <4>3. /\ bucket'[limiter] \in Int
              /\ bucket'[limiter] <= bucket[limiter] + Limit
          BY <4>1, <3>2, <1>0 DEF Tick
        <4> HIDE DEF refill, full, tokens
        <4> QED
          BY <4>1, <4>2, <4>3, <3>2, <3>3, <1>0
      <3> QED
        BY <3>4, <3>5
    <2>4. Window * Claims' <= Window * Claims
      BY <2>2, TimesWindow
    <2>5. Window * Claims \in Int /\ Window * Claims' \in Int /\ Window * Most \in Int
      BY <2>2, Numbers, Products
    <2>6. Units + Window * Claims <= Window * Most
      BY <1>0, <1>3, Ranges DEF Watched
    <2> QED
      BY <2>3, <2>4, <2>5, <2>6
  <1>4. Most' = Most
    BY DEF Most
  <1> QED
    BY <1>0, <1>2, <1>3, <1>4, Ranges DEF Watched

LEMMA WatchedStep ==
    ASSUME Typed, Watched, [Next]_vars
    PROVE  Watched'
  <1>1. CASE UNCHANGED vars
    <2>1. UNCHANGED <<limiter, sweep, bucket, members, expiry, pc, mine, unseen,
                      left, letIn>>
      BY <1>1 DEF vars, watchVars
    <2>2. InSet' = InSet /\ AtCount' = AtCount /\ Orphans' = Orphans
      BY <2>1 DEF InSet, AtCount, Orphans
    <2>3. BySet' = BySet /\ Units' = Units /\ Sweeping' = Sweeping
      BY <2>1, <2>2 DEF BySet, Units, Sweeping, Dropping
    <2>4. Claims' = Claims /\ SetOK' = SetOK /\ Most' = Most
      BY <2>1, <2>2, <2>3 DEF Claims, SetOK, Most
    <2> QED
      BY <2>1, <2>3, <2>4 DEF Watched
  <1> QED
    BY <1>1, GetLimiterWatched, AllowWatched, RedisWatched, SweepWatched,
       WatchWatched, TickWatched DEF Next, Serve

(* A window lets in at most four times the limit and twice the requests    *)
(* under way, for every limit, every number of requests and however finely *)
(* time is divided: AdmissionsBounded is an invariant.                     *)
THEOREM WindowBounded == Spec => []AdmissionsBounded
  <1>1. Init => Watched
    <2> SUFFICES ASSUME Init PROVE Watched
      OBVIOUS
    <2>1. InSet = {}
      BY DEF Init, InSet
    <2> QED
      BY <2>1, FS_EmptySet DEF Init, Watched, SetOK
  <1>2. Typed /\ Watched => AdmissionsBounded
    <2> SUFFICES ASSUME Typed, Watched PROVE letIn <= Most
      BY DEF AdmissionsBounded, Most
    <2>1. /\ TypeOK /\ SetOK /\ letIn \in Nat /\ left \in 0 .. Window
          /\ Units \in Int /\ Claims \in Int /\ letIn <= Claims
          /\ Window \in Nat \ {0} /\ Limit \in Nat \ {0}
      BY Ranges, Numbers, IpGateAssumption DEF Typed, Watched, Claims
    <2>2. CASE left = 0
      BY <2>1, <2>2, Numbers DEF Watched
    <2>3. CASE left > 0
      <3>1. Units >= 0
        <4>1. Limit * (left - 1) \in Nat
          <5>1. left - 1 \in Nat
            BY <2>1, <2>3
          <5> QED
            BY <5>1, <2>1
        <4>2. limiter # NoLimiter => bucket[limiter] \in 0 .. Full
          BY <2>1 DEF TypeOK
        <4> QED
          BY <4>1, <4>2, Products DEF Units
      <3>2. Window * Claims <= Window * Most
        <4>1. Units + Window * Claims <= Window * Most
          BY <2>3 DEF Watched
        <4>2. Window * Claims \in Int /\ Window * Most \in Int
          BY <2>1, Numbers, Products
        <4> QED
          BY <4>1, <4>2, <3>1, <2>1
      <3>3. Claims <= Most
        <4> SUFFICES ASSUME Most + 1 <= Claims PROVE FALSE
          BY <2>1, Numbers
        <4>1. Window * (Most + 1) <= Window * Claims
          BY <2>1, Numbers, TimesWindow
        <4>2. Window * (Most + 1) = Window * Most + Window
          BY <2>1, Numbers, Products
        <4>3. Window * Claims \in Int /\ Window * Most \in Int
          BY <2>1, Numbers, Products
        <4> QED
          BY <4>1, <4>2, <4>3, <3>2, <2>1
      <3> QED
        BY <3>3, <2>1, Numbers
    <2> QED
      BY <2>1, <2>2, <2>3
  <1> QED
    BY <1>1, <1>2, WatchedStep, InitTyped, NextTyped, PTL DEF Spec

=============================================================================
