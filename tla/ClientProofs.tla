---------------------------- MODULE ClientProofs ----------------------------
(***************************************************************************)
(* Theorems about Client, for every set of dispatches and SDKs and every   *)
(* number of attempts, initializations and restarts.                       *)
(***************************************************************************)
EXTENDS Client, FiniteSetTheorems, TLAPS

(* The server has accepted a job that is being answered.                   *)
Noted == \A c \in Chains : At(c, "answered") \/ At(c, "removing") => copies[c[1]] > 0

(* Only dispatch saves, and Flutter saves in memory first.                 *)
Saving ==
    \A c \in Chains : At(c, "saving") =>
      /\ c[2] = 0
      /\ platform = "flutter" /\ copies[c[1]] = 0 => c[1] \in pending

(* A job that was not dispatched is nowhere.                               *)
Fresh ==
    \A j \in Jobs : told[j] = "new" =>
      /\ copies[j] = 0 /\ befell[j] = {}
      /\ j \notin pending \cup disk \cup loaded
      /\ \A c \in Chains : (c[1] = j => At(c, "idle")) /\ j \notin chain[c].copy

(* A job to which nothing befell has one chain, and once it is accepted    *)
(* that chain only removes it from the store.                              *)
Single(j) ==
    /\ copies[j] \in {0, 1}
    /\ \A c, d \in Chains :
         c[1] = j /\ d[1] = j /\ ~At(c, "idle") /\ ~At(d, "idle") => c = d
    /\ copies[j] > 0 =>
         /\ \A c \in Chains : c[1] = j => chain[c].at \in {"idle", "answered", "removing"}
         /\ j \in pending => Active(j)
    /\ \A c \in Chains :
         c[1] = j /\ At(c, "removing") /\ ~Threaded => j \notin pending
Once == \A j \in Jobs : befell[j] = {} => Single(j)

(* On an event loop a callback that was called is gone from the map.       *)
Spent == ~Threaded => \A j \in callbacks : told[j] \notin {"success", "error"}

-----------------------------------------------------------------------------
(* What the parts of the actions do.                                       *)

LEMMA ChainsFinite == IsFiniteSet(Chains)
  <1>1. IsFiniteSet(0 .. MaxInits)
    BY ClientAssumption, FS_Interval
  <1> QED
    BY <1>1, ClientAssumption, FS_Product DEF Chains

LEMMA CopiedCounts ==
    ASSUME TypeOK, NEW cs \in SUBSET Chains, Copied(cs)
    PROVE  /\ copies' \in [Jobs -> 0 .. 2]
           /\ \A j \in Jobs : copies[j] > 0 => copies'[j] > 0
           /\ \A c \in cs : copies'[c[1]] > 0
           /\ \A j \in Jobs : (\A c \in cs : c[1] # j) => copies'[j] = copies[j]
           /\ \A c \in cs : cs = {c} /\ copies[c[1]] = 0 => copies'[c[1]] = 1
  <1> DEFINE Of(j) == {c \in cs : c[1] = j}
             n(j)  == copies[j] + Cardinality(Of(j))
  <1>1. \A j \in Jobs : IsFiniteSet(Of(j))
    BY ChainsFinite, FS_Subset
  <1>2. \A j \in Jobs : Cardinality(Of(j)) \in Nat
    BY <1>1, FS_CardinalityType
  <1>3. \A j \in Jobs : copies[j] \in 0 .. 2
    BY DEF TypeOK
  <1>4. copies' = [j \in Jobs |-> IF n(j) > 2 THEN 2 ELSE n(j)]
    BY DEF Copied
  <1>5. ASSUME NEW c \in cs PROVE Cardinality(Of(c[1])) # 0 /\ c[1] \in Jobs
    <2>1. c[1] \in Jobs /\ c \in Of(c[1])
      BY <1>5 DEF Chains
    <2>2. Of(c[1]) # {}
      BY <2>1
    <2> HIDE DEF Of
    <2> QED
      BY <1>1, <2>1, <2>2, FS_EmptySet
  <1>6. ASSUME NEW j \in Jobs, \A c \in cs : c[1] # j PROVE Cardinality(Of(j)) = 0
    <2>1. Of(j) = {}
      BY <1>6
    <2> QED
      BY <2>1, FS_EmptySet
  <1>7. ASSUME NEW c \in cs, cs = {c} PROVE Cardinality(Of(c[1])) = 1
    <2>1. Of(c[1]) = {c}
      BY <1>7
    <2> QED
      BY <2>1, FS_Singleton
  <1> HIDE DEF Of
  <1> QED
    BY <1>2, <1>3, <1>4, <1>5, <1>6, <1>7

LEMMA TellTypes ==
    ASSUME TypeOK, NEW c \in Chains, NEW v \in Tellings, Tell(c, v)
    PROVE  told' \in [Jobs -> Tellings] /\ callbacks' \subseteq Jobs
  <1>1. callbacks \subseteq Jobs /\ told \in [Jobs -> Tellings]
    BY DEF TypeOK
  <1> QED
    BY <1>1 DEF Tell

LEMMA BefallsTypes ==
    ASSUME TypeOK, NEW js, NEW m \in Mishaps, Befalls(js, m)
    PROVE  befell' \in [Jobs -> SUBSET Mishaps]
  BY DEF TypeOK, Befalls

LEMMA ChainTypes ==
    ASSUME TypeOK, NEW c \in Chains
    PROVE  /\ Idle \in ChainState /\ Sent \in ChainState
           /\ \A step \in Steps : Goes(c, step) => chain' \in [Chains -> ChainState]
           /\ Ends(c) => chain' \in [Chains -> ChainState]
           /\ chain[c].tries < MaxRetries /\ Again(c) => chain' \in [Chains -> ChainState]
  <1>1. chain \in [Chains -> ChainState]
    BY DEF TypeOK
  <1>2. Idle \in ChainState /\ Sent \in ChainState
    BY ClientAssumption DEF Idle, Sent, ChainState, Steps
  <1>3. \A step \in Steps : Goes(c, step) => chain' \in [Chains -> ChainState]
    BY <1>1 DEF Goes, ChainState
  <1>4. Ends(c) => chain' \in [Chains -> ChainState]
    BY <1>1, <1>2 DEF Ends
  <1>5. ASSUME chain[c].tries < MaxRetries, Again(c)
        PROVE  chain' \in [Chains -> ChainState]
    <2>1. [at |-> "waiting", tries |-> chain[c].tries + 1, copy |-> {}] \in ChainState
      BY <1>1, <1>5, ClientAssumption DEF ChainState, Steps
    <2> QED
      BY <1>1, <1>5, <2>1 DEF Again
  <1> QED
    BY <1>2, <1>3, <1>4, <1>5

LEMMA FailedTypes ==
    ASSUME TypeOK, NEW c \in Chains, Failed(c)
    PROVE  /\ chain' \in [Chains -> ChainState]
           /\ told' \in [Jobs -> Tellings] /\ callbacks' \subseteq Jobs
  <1>1. "error" \in Tellings
    BY DEF Tellings
  <1>2. CASE chain[c].tries < MaxRetries /\ Again(c) /\ UNCHANGED <<told, callbacks>>
    BY <1>2, ChainTypes DEF TypeOK
  <1>3. CASE Ends(c) /\ Tell(c, "error")
    BY <1>1, <1>3, ChainTypes, TellTypes
  <1> QED
    BY <1>2, <1>3 DEF Failed, GiveUp

-----------------------------------------------------------------------------
(* Types.                                                                  *)

LEMMA JobOf == \A c \in Chains : c[1] \in Jobs
  BY DEF Chains

LEMMA DispatchTypes == ASSUME TypeOK, NEW j \in Jobs, Dispatch(j) PROVE TypeOK'
  <1>1. <<j, 0>> \in Chains
    BY ClientAssumption DEF Chains
  <1>2. chain \in [Chains -> ChainState] /\ pending \subseteq Jobs
    BY DEF TypeOK
  <1>3. Sent \in ChainState
    BY <1>1, ChainTypes
  <1>4. chain' \in [Chains -> ChainState] /\ pending' \subseteq Jobs /\ disk' \subseteq Jobs
    <2>1. CASE WebDispatch(j) \/ AndroidDispatch(j)
      BY <2>1, <1>1, <1>2, <1>3 DEF WebDispatch, AndroidDispatch, TypeOK
    <2>2. CASE FlutterDispatch(j)
      BY <2>2, <1>1, <1>2 DEF FlutterDispatch, TypeOK, ChainState, Steps
    <2>3. CASE IosDispatch(j)
      BY <2>3, <1>1, <1>2 DEF IosDispatch, TypeOK, ChainState, Steps
    <2> QED
      BY <2>1, <2>2, <2>3 DEF Dispatch
  <1>5. told' \in [Jobs -> Tellings] /\ callbacks' \subseteq Jobs
    BY DEF Dispatch, Register, TypeOK, Tellings
  <1> QED
    BY <1>4, <1>5 DEF Dispatch, TypeOK

LEMMA OverwriteTypes ==
    ASSUME TypeOK, NEW c \in Chains, NEW d \in SUBSET Jobs, Overwrite(c, d)
    PROVE  pending' \subseteq Jobs /\ befell' \in [Jobs -> SUBSET Mishaps]
  <1>1. "raced" \in Mishaps
    BY DEF Mishaps
  <1> QED
    BY <1>1, BefallsTypes DEF Overwrite

LEMMA AnsweredTypes == ASSUME TypeOK, NEW c \in Chains, Answered(c) PROVE TypeOK'
  <1>1. "removing" \in Steps /\ "success" \in Tellings /\ "error" \in Tellings /\ "unread" \in Mishaps
    BY DEF Steps, Tellings, Mishaps
  <1>2. /\ pending \subseteq Jobs /\ disk \subseteq Jobs /\ callbacks \subseteq Jobs
        /\ chain \in [Chains -> ChainState] /\ told \in [Jobs -> Tellings]
        /\ befell \in [Jobs -> SUBSET Mishaps]
    BY DEF TypeOK
  <1> DEFINE Goal == /\ pending' \subseteq Jobs /\ disk' \subseteq Jobs
                     /\ callbacks' \subseteq Jobs
                     /\ chain' \in [Chains -> ChainState]
                     /\ told' \in [Jobs -> Tellings]
                     /\ befell' \in [Jobs -> SUBSET Mishaps]
  <1> SUFFICES Goal
    BY DEF Answered, TypeOK
  <1>3. CASE WebAnswered(c)
    BY <1>3, <1>1, <1>2, ChainTypes DEF WebAnswered
  <1>4. CASE FlutterAnswered(c)
    BY <1>4, <1>1, <1>2, ChainTypes DEF FlutterAnswered
  <1>5. CASE AndroidAnswered(c)
    <2>1. CASE pending' = pending \ {c[1]} /\ Ends(c) /\ Tell(c, "success") /\ UNCHANGED befell
      BY <2>1, <1>5, <1>1, <1>2, ChainTypes, TellTypes DEF AndroidAnswered
    <2>2. CASE Failed(c) /\ Befalls({c[1]}, "unread") /\ UNCHANGED pending
      BY <2>2, <1>5, <1>1, <1>2, FailedTypes, BefallsTypes DEF AndroidAnswered
    <2> QED
      BY <1>5, <2>1, <2>2 DEF AndroidAnswered
  <1>6. CASE IosAnswered(c)
    <2>1. CASE /\ chain' = [chain EXCEPT ![c].at = "removing", ![c].copy = pending]
               /\ UNCHANGED <<callbacks, told, befell>>
      BY <2>1, <1>6, <1>1, <1>2 DEF IosAnswered, ChainState
    <2>2. CASE Ends(c) /\ Tell(c, "error") /\ Befalls({c[1]}, "unread")
      BY <2>2, <1>6, <1>1, <1>2, ChainTypes, TellTypes, BefallsTypes DEF IosAnswered
    <2> QED
      BY <1>6, <2>1, <2>2 DEF IosAnswered
  <1> QED
    BY <1>3, <1>4, <1>5, <1>6 DEF Answered

LEMMA ReadTypes ==
    ASSUME TypeOK, NEW c \in Chains, Read(c)
    PROVE  /\ chain' \in [Chains -> ChainState] /\ callbacks' \subseteq Jobs
           /\ told' \in [Jobs -> Tellings] /\ befell' \in [Jobs -> SUBSET Mishaps]
  <1>1. "success" \in Tellings /\ "unread" \in Mishaps
    BY DEF Tellings, Mishaps
  <1>2. CASE Ends(c) /\ Tell(c, "success") /\ UNCHANGED befell
    BY <1>2, <1>1, ChainTypes, TellTypes DEF TypeOK
  <1>3. CASE Failed(c) /\ Befalls({c[1]}, "unread")
    BY <1>3, <1>1, FailedTypes, BefallsTypes
  <1>4. CASE /\ Tell(c, "success")
             /\ IF chain[c].tries < MaxRetries THEN Again(c) ELSE Ends(c)
             /\ Befalls({c[1]}, "unread")
    <2>1. told' \in [Jobs -> Tellings] /\ callbacks' \subseteq Jobs
      BY <1>4, <1>1, TellTypes
    <2>2. befell' \in [Jobs -> SUBSET Mishaps]
      BY <1>4, <1>1, BefallsTypes
    <2>3. chain' \in [Chains -> ChainState]
      BY <1>4, ChainTypes
    <2> QED
      BY <2>1, <2>2, <2>3
  <1> QED
    BY <1>2, <1>3, <1>4 DEF Read

LEMMA FinishTypes == ASSUME TypeOK, NEW c \in Chains, Finish(c) PROVE TypeOK'
  <1>1. CASE WebRead(c) \/ FlutterRead(c)
    <2>1. Read(c)
      BY <1>1 DEF WebRead, FlutterRead
    <2> QED
      BY <1>1, <2>1, ReadTypes DEF Finish, WebRead, FlutterRead, TypeOK
  <1>2. CASE IosRemoved(c)
    <2>1. chain[c].copy \ {c[1]} \in SUBSET Jobs
      BY DEF TypeOK, ChainState
    <2>2. pending' \subseteq Jobs /\ befell' \in [Jobs -> SUBSET Mishaps]
      BY <1>2, <2>1, OverwriteTypes DEF IosRemoved
    <2>3. told' \in [Jobs -> Tellings] /\ callbacks' \subseteq Jobs
      BY <1>2, TellTypes DEF IosRemoved, Tellings
    <2>4. chain' \in [Chains -> ChainState]
      BY <1>2, ChainTypes DEF IosRemoved
    <2> QED
      BY <1>2, <2>2, <2>3, <2>4 DEF Finish, IosRemoved, TypeOK
  <1> QED
    BY <1>1, <1>2 DEF Finish

LEMMA FailTypes == ASSUME TypeOK, NEW c \in Chains, Fail(c) PROVE TypeOK'
  <1>1. /\ chain' \in [Chains -> ChainState] /\ callbacks' \subseteq Jobs
        /\ told' \in [Jobs -> Tellings]
    BY FailedTypes DEF Fail
  <1>2. copies' \in [Jobs -> 0 .. 2]
    BY CopiedCounts DEF Fail, TypeOK
  <1>3. befell' \in [Jobs -> SUBSET Mishaps]
    BY BefallsTypes DEF Fail, TypeOK, Mishaps
  <1> QED
    BY <1>1, <1>2, <1>3 DEF Fail, TypeOK

LEMMA InitializeTypes == ASSUME TypeOK, Initialize PROVE TypeOK'
  <1>1. inits' \in 0 .. MaxInits
    BY ClientAssumption DEF Initialize, TypeOK
  <1>2. Sent \in ChainState
    BY ClientAssumption DEF Sent, ChainState, Steps
  <1>3. chain' \in [Chains -> ChainState]
    BY <1>2 DEF Initialize, TypeOK
  <1>4. befell' \in [Jobs -> SUBSET Mishaps]
    BY BefallsTypes DEF Initialize, Mishaps
  <1> QED
    BY <1>1, <1>3, <1>4 DEF Initialize, TypeOK

LEMMA RestartTypes == ASSUME TypeOK, Restart PROVE TypeOK'
  <1>1. Idle \in ChainState
    BY ClientAssumption DEF Idle, ChainState, Steps
  <1>2. PICK arrived \in SUBSET {c \in Chains : At(c, "sent")} : Copied(arrived)
    BY DEF Restart
  <1>3. copies' \in [Jobs -> 0 .. 2]
    BY <1>2, CopiedCounts
  <1>4. befell' \in [Jobs -> SUBSET Mishaps]
    BY DEF Restart, TypeOK, Mishaps
  <1>5. restarts' \in 0 .. MaxRestarts
    BY ClientAssumption DEF Restart, TypeOK
  <1> QED
    BY <1>1, <1>3, <1>4, <1>5 DEF Restart, LoadPendingJobs, TypeOK

LEMMA TypeStep == ASSUME TypeOK, [Next]_vars PROVE TypeOK'
  <1>1. ASSUME NEW j \in Jobs, Dispatch(j) PROVE TypeOK'
    BY <1>1, DispatchTypes
  <1>2. ASSUME NEW c \in Chains, FlutterSaved(c) \/ Resend(c) PROVE TypeOK'
    <2>1. (Goes(c, "sent") \/ Ends(c)) /\ "sent" \in Steps
      BY <1>2 DEF FlutterSaved, Resend, Steps
    <2>2. chain' \in [Chains -> ChainState]
      BY <2>1, ChainTypes
    <2> QED
      BY <1>2, <2>2, JobOf DEF FlutterSaved, Resend, TypeOK
  <1>3. ASSUME NEW c \in Chains, IosSaved(c) PROVE TypeOK'
    <2>1. chain[c].copy \cup {c[1]} \in SUBSET Jobs
      BY JobOf DEF TypeOK, ChainState
    <2>2. pending' \subseteq Jobs /\ befell' \in [Jobs -> SUBSET Mishaps]
      BY <1>3, <2>1, OverwriteTypes DEF IosSaved
    <2>3. chain' \in [Chains -> ChainState]
      BY <1>3, ChainTypes DEF IosSaved, TypeOK
    <2> QED
      BY <1>3, <2>2, <2>3 DEF IosSaved, TypeOK
  <1>4. ASSUME NEW c \in Chains, Answered(c) PROVE TypeOK'
    BY <1>4, AnsweredTypes
  <1>5. ASSUME NEW c \in Chains, Finish(c) PROVE TypeOK'
    BY <1>5, FinishTypes
  <1>6. ASSUME NEW c \in Chains, Accept(c) PROVE TypeOK'
    <2>1. copies' \in [Jobs -> 0 .. 2]
      BY <1>6, CopiedCounts DEF Accept
    <2>2. chain' \in [Chains -> ChainState]
      BY <1>6, ChainTypes DEF Accept, Steps
    <2> QED
      BY <1>6, <2>1, <2>2 DEF Accept, TypeOK
  <1>7. ASSUME NEW c \in Chains, Fail(c) PROVE TypeOK'
    BY <1>7, FailTypes
  <1>8. CASE Initialize
    BY <1>8, InitializeTypes
  <1>9. CASE Flush
    BY <1>9 DEF Flush, TypeOK
  <1>10. CASE Restart
    BY <1>10, RestartTypes
  <1>11. CASE UNCHANGED vars
    BY <1>11 DEF vars, TypeOK
  <1> QED
    BY <1>1, <1>2, <1>3, <1>4, <1>5, <1>6, <1>7, <1>8, <1>9, <1>10, <1>11
    DEF Next, ClientStep, Quiet

(* Every variable of the SDK keeps its type, the number of attempts and the *)
(* bounds included.                                                         *)
THEOREM TypeCorrect == Spec => []TypeOK
  <1>1. ASSUME Init PROVE TypeOK
    <2>1. Idle \in ChainState
      BY ClientAssumption DEF Idle, ChainState, Steps
    <2>2. told \in [Jobs -> Tellings] /\ befell \in [Jobs -> SUBSET Mishaps]
      BY <1>1 DEF Init, Tellings
    <2>3. copies \in [Jobs -> 0 .. 2]
      BY <1>1 DEF Init
    <2>4. inits \in 0 .. MaxInits /\ restarts \in 0 .. MaxRestarts
      BY <1>1, ClientAssumption DEF Init
    <2>5. chain \in [Chains -> ChainState]
      BY <1>1, <2>1 DEF Init
    <2> QED
      BY <1>1, <2>2, <2>3, <2>4, <2>5 DEF Init, TypeOK
  <1>2. TypeOK /\ [Next]_vars => TypeOK'
    BY TypeStep
  <1> QED
    BY <1>1, <1>2, PTL DEF Spec

-----------------------------------------------------------------------------
(* A step of one chain leaves the others where they are.                   *)

Moves(c, steps) ==
    /\ chain'[c].at \in steps
    /\ \A d \in Chains \ {c} : chain'[d] = chain[d]

LEMMA ChainMoves ==
    ASSUME TypeOK, NEW c \in Chains
    PROVE  /\ \A step \in Steps : Goes(c, step) => Moves(c, {step})
           /\ Ends(c) => Moves(c, {"idle"})
           /\ Again(c) => Moves(c, {"waiting"})
           /\ chain' = [chain EXCEPT ![c] = Sent] => Moves(c, {"sent"})
           /\ \A js \in SUBSET Jobs :
                chain' = [chain EXCEPT ![c].at = "removing", ![c].copy = js]
                  => Moves(c, {"removing"})
  <1>1. chain \in [Chains -> ChainState]
    BY DEF TypeOK
  <1> QED
    BY <1>1 DEF Goes, Ends, Again, Moves, Idle, Sent, ChainState

LEMMA FailedMoves ==
    ASSUME TypeOK, NEW c \in Chains, Failed(c) PROVE Moves(c, {"idle", "waiting"})
  BY ChainMoves DEF Failed, GiveUp, Moves

LEMMA ReadMoves ==
    ASSUME TypeOK, NEW c \in Chains, Read(c) PROVE Moves(c, {"idle", "waiting"})
  BY ChainMoves, FailedMoves DEF Read, Moves

(* What the handler of a good answer and its second half do.               *)
LEMMA AnsweredMoves ==
    ASSUME TypeOK, NEW c \in Chains, Answered(c)
    PROVE  /\ Moves(c, {"idle", "waiting", "removing"})
           /\ pending' \in {pending, pending \ {c[1]}}
           /\ copies' = copies /\ platform' = platform
           /\ \A j \in Jobs : befell[j] \subseteq befell'[j]
           /\ \A j \in Jobs \ {c[1]} : befell'[j] = befell[j]
  <1>1. pending \in SUBSET Jobs /\ befell \in [Jobs -> SUBSET Mishaps] /\ c[1] \in Jobs
    BY JobOf DEF TypeOK
  <1>2. Befalls({c[1]}, "unread") \/ UNCHANGED befell
    BY DEF Answered, WebAnswered, FlutterAnswered, AndroidAnswered, IosAnswered
  <1>3. /\ \A j \in Jobs : befell[j] \subseteq befell'[j]
        /\ \A j \in Jobs \ {c[1]} : befell'[j] = befell[j]
    BY <1>1, <1>2 DEF Befalls
  <1>4. "removing" \in Steps
    BY DEF Steps
  <1>5. Moves(c, {"idle", "waiting", "removing"})
    <2>1. CASE WebAnswered(c) \/ FlutterAnswered(c)
      BY <2>1, <1>4, ChainMoves DEF WebAnswered, FlutterAnswered, Moves
    <2>2. CASE AndroidAnswered(c)
      BY <2>2, FailedMoves, ChainMoves DEF AndroidAnswered, Moves
    <2>3. CASE IosAnswered(c)
      BY <2>3, <1>1, ChainMoves DEF IosAnswered, Moves
    <2> QED
      BY <2>1, <2>2, <2>3 DEF Answered
  <1> QED
    BY <1>3, <1>5
    DEF Answered, WebAnswered, FlutterAnswered, AndroidAnswered, IosAnswered

LEMMA FinishMoves ==
    ASSUME TypeOK, NEW c \in Chains, Finish(c)
    PROVE  /\ Moves(c, {"idle", "waiting"})
           /\ copies' = copies /\ platform' = platform
           /\ \A j \in Jobs : befell[j] \subseteq befell'[j]
           /\ \A j \in Jobs \ {c[1]} :
                (j \in pending) # (j \in pending') => "raced" \in befell'[j]
           /\ c[1] \in pending' => c[1] \in pending
  <1>1. befell \in [Jobs -> SUBSET Mishaps] /\ c[1] \in Jobs
    BY JobOf DEF TypeOK
  <1>2. CASE WebRead(c) \/ FlutterRead(c)
    <2>1. Read(c) /\ UNCHANGED pending
      BY <1>2 DEF WebRead, FlutterRead
    <2>2. \A j \in Jobs : befell[j] \subseteq befell'[j]
      BY <2>1, <1>1 DEF Read, Befalls
    <2> QED
      BY <2>1, <2>2, ReadMoves DEF Finish
  <1>3. CASE IosRemoved(c)
    <2>1. \A j \in Jobs : befell[j] \subseteq befell'[j]
      BY <1>1, <1>3 DEF IosRemoved, Overwrite, Befalls
    <2>2. \A j \in Jobs \ {c[1]} :
            (j \in pending) # (j \in pending') => "raced" \in befell'[j]
      BY <1>3 DEF IosRemoved, Overwrite, Befalls
    <2>3. c[1] \notin pending'
      BY <1>3 DEF IosRemoved, Overwrite
    <2>4. Moves(c, {"idle", "waiting"})
      BY <1>3, ChainMoves DEF IosRemoved, Moves
    <2> QED
      BY <2>1, <2>2, <2>3, <2>4 DEF Finish
  <1> QED
    BY <1>2, <1>3 DEF Finish

-----------------------------------------------------------------------------
(* No accepted dispatch without its job in the store.                      *)

Grows == \A j \in Jobs : copies[j] > 0 => copies'[j] > 0

LEMMA NotedKeeps ==
    ASSUME Noted, Grows, NEW c \in Chains, NEW S, Moves(c, S),
           chain'[c].at \in {"answered", "removing"} => copies'[c[1]] > 0
    PROVE  Noted'
  <1> SUFFICES ASSUME NEW d \in Chains, chain'[d].at \in {"answered", "removing"}
               PROVE  copies'[d[1]] > 0
    BY DEF Noted, At
  <1>1. CASE d = c
    BY <1>1
  <1>2. CASE d # c
    BY <1>2, JobOf DEF Moves, Noted, At, Grows
  <1> QED
    BY <1>1, <1>2

(* The removal of j from memory does no harm once j is accepted.           *)
LEMMA SavingKeeps ==
    ASSUME TypeOK, Saving, Grows, TypeOK',
           NEW c \in Chains, NEW S, Moves(c, S), "saving" \notin S,
           platform' = platform,
           platform = "flutter" =>
             \A j \in pending : copies'[j] = 0 => j \in pending'
    PROVE  Saving'
  <1> SUFFICES ASSUME NEW d \in Chains, chain'[d].at = "saving"
               PROVE  /\ d[2] = 0
                      /\ platform = "flutter" /\ copies'[d[1]] = 0 => d[1] \in pending'
    BY DEF Saving, At
  <1>1. d # c /\ chain[d].at = "saving"
    BY DEF Moves
  <1>2. copies[d[1]] \in 0 .. 2 /\ copies'[d[1]] \in 0 .. 2 /\ d[1] \in Jobs
    BY JobOf DEF TypeOK
  <1> QED
    BY <1>1, <1>2 DEF Saving, At, Grows

(* KeptUntilAccepted survives a step of c after which c is not saving, if   *)
(* what leaves the store was accepted or raced.                             *)
LEMMA StoreKeeps ==
    ASSUME TypeOK, KeptUntilAccepted, Saving, Grows, TypeOK',
           NEW c \in Chains, NEW S, Moves(c, S),
           \A j \in Jobs : befell[j] \subseteq befell'[j],
           \A j \in Jobs : told[j] = "new" => told'[j] = "new",
           \A j \in Jobs : \/ j \in pending => j \in pending'
                           \/ copies'[j] > 0 \/ "raced" \in befell'[j],
           At(c, "saving") => \/ c[1] \in pending' \/ copies'[c[1]] > 0
    PROVE  KeptUntilAccepted'
  <1> SUFFICES ASSUME NEW j \in Jobs, told'[j] # "new", copies'[j] = 0,
                      befell'[j] \cap {"cut", "raced"} = {}
               PROVE  j \in pending' \/ chain'[<<j, 0>>].at = "saving"
    BY DEF KeptUntilAccepted, At
  <1>1. copies[j] \in 0 .. 2 /\ copies'[j] \in 0 .. 2
    BY DEF TypeOK
  <1>2. told[j] # "new" /\ copies[j] = 0 /\ befell[j] \cap {"cut", "raced"} = {}
    BY <1>1 DEF Grows
  <1>3. j \in pending \/ At(<<j, 0>>, "saving")
    BY <1>2 DEF KeptUntilAccepted
  <1>4. CASE j \in pending
    BY <1>1, <1>4
  <1>5. CASE At(<<j, 0>>, "saving") /\ <<j, 0>> # c
    BY <1>5, ClientAssumption DEF Moves, At, Chains
  <1>6. CASE At(<<j, 0>>, "saving") /\ <<j, 0>> = c
    BY <1>1, <1>6
  <1> QED
    BY <1>3, <1>4, <1>5, <1>6

(* Callbacks belong to dispatches.                                         *)
Registered == \A j \in callbacks : told[j] # "new"

(* Only dispatch ends "new", and only dispatch adds a callback.            *)
Hears ==
    /\ \A j \in Jobs : told'[j] = "new" <=> told[j] = "new"
    /\ callbacks' \subseteq callbacks

LEMMA TellHears ==
    ASSUME TypeOK, Registered, NEW c \in Chains, NEW v, v # "new", Tell(c, v)
    PROVE  Hears
  BY DEF Tell, TypeOK, Registered, Hears

LEMMA FailedHears ==
    ASSUME TypeOK, Registered, NEW c \in Chains, Failed(c) PROVE Hears
  <1>1. CASE UNCHANGED <<told, callbacks>>
    BY <1>1 DEF Hears
  <1>2. CASE Tell(c, "error")
    BY <1>2, TellHears
  <1> QED
    BY <1>1, <1>2 DEF Failed, GiveUp

LEMMA ReadHears ==
    ASSUME TypeOK, Registered, NEW c \in Chains, Read(c) PROVE Hears
  <1>1. CASE Tell(c, "success")
    BY <1>1, TellHears
  <1>2. CASE Failed(c)
    BY <1>2, FailedHears
  <1> QED
    BY <1>1, <1>2 DEF Read

LEMMA ChainHears ==
    ASSUME TypeOK, Registered, NEW c \in Chains, ClientStep(c) \/ Accept(c) \/ Fail(c)
    PROVE  Hears
  <1>1. CASE FlutterSaved(c) \/ IosSaved(c) \/ Resend(c) \/ Accept(c)
    BY <1>1 DEF FlutterSaved, IosSaved, Resend, Accept, Hears
  <1>2. CASE Fail(c)
    BY <1>2, FailedHears DEF Fail
  <1>3. CASE Answered(c)
    <2>1. CASE WebAnswered(c) \/ FlutterAnswered(c)
      BY <2>1 DEF WebAnswered, FlutterAnswered, Hears
    <2>2. CASE AndroidAnswered(c)
      BY <2>2, FailedHears, TellHears DEF AndroidAnswered
    <2>3. CASE IosAnswered(c)
      <3>1. UNCHANGED <<told, callbacks>> \/ Tell(c, "error")
        BY <2>3 DEF IosAnswered
      <3> QED
        BY <3>1, TellHears DEF Hears
    <2> QED
      BY <1>3, <2>1, <2>2, <2>3 DEF Answered
  <1>4. CASE Finish(c)
    <2>1. CASE WebRead(c) \/ FlutterRead(c)
      BY <2>1, ReadHears DEF WebRead, FlutterRead
    <2>2. CASE IosRemoved(c)
      BY <2>2, TellHears DEF IosRemoved
    <2> QED
      BY <1>4, <2>1, <2>2 DEF Finish
  <1> QED
    BY <1>1, <1>2, <1>3, <1>4 DEF ClientStep

KeptInv == TypeOK /\ KeptUntilAccepted /\ Noted /\ Saving /\ Registered

LEMMA DispatchKeeps == ASSUME KeptInv, NEW j \in Jobs, Dispatch(j), TypeOK' PROVE KeptInv'
  <1> USE DEF KeptInv
  <1>1. <<j, 0>> \in Chains /\ chain \in [Chains -> ChainState]
    BY ClientAssumption DEF Chains, TypeOK
  <1>2. /\ Moves(<<j, 0>>, {"sent", "saving", chain[<<j, 0>>].at})
        /\ \/ j \in pending' /\ (chain'[<<j, 0>>].at = "sent" \/ UNCHANGED chain)
           \/ chain'[<<j, 0>>].at = "saving" /\ (platform = "flutter" => j \in pending')
        /\ pending \subseteq pending'
        /\ UNCHANGED <<copies, befell, platform>>
    BY <1>1 DEF Dispatch, WebDispatch, AndroidDispatch, FlutterDispatch, IosDispatch,
                Moves, Sent, ChainState
  <1>3. /\ \A k \in Jobs \ {j} : told'[k] = told[k]
        /\ told'[j] # "new"
        /\ callbacks' \subseteq callbacks \cup {j}
    BY DEF Dispatch, Register, TypeOK
  <1>4. Noted'
    BY <1>1, <1>2, NotedKeeps DEF Grows, Noted, At
  <1>5. Saving'
    <2> SUFFICES ASSUME NEW d \in Chains, chain'[d].at = "saving"
                 PROVE  /\ d[2] = 0
                        /\ platform = "flutter" /\ copies[d[1]] = 0 => d[1] \in pending'
      BY <1>2 DEF Saving, At
    <2>1. CASE d = <<j, 0>>
      BY <1>2, <2>1 DEF Saving, At
    <2>2. CASE d # <<j, 0>>
      BY <1>2, <2>2 DEF Moves, Saving, At
    <2> QED
      BY <2>1, <2>2
  <1>6. KeptUntilAccepted'
    <2> SUFFICES ASSUME NEW k \in Jobs, told'[k] # "new", copies[k] = 0,
                        befell[k] \cap {"cut", "raced"} = {}
                 PROVE  k \in pending' \/ chain'[<<k, 0>>].at = "saving"
      BY <1>2 DEF KeptUntilAccepted, At
    <2>1. CASE k = j
      BY <1>2, <2>1
    <2>2. CASE k # j
      BY <1>2, <1>3, <2>2, ClientAssumption DEF KeptUntilAccepted, At, Moves, Chains
    <2> QED
      BY <2>1, <2>2
  <1>7. Registered'
    BY <1>3 DEF Registered, TypeOK
  <1> QED
    BY <1>4, <1>5, <1>6, <1>7

LEMMA ChainKeeps ==
    ASSUME KeptInv, NEW c \in Chains, ClientStep(c) \/ Accept(c) \/ Fail(c), TypeOK'
    PROVE  KeptInv'
  <1> USE DEF KeptInv
  <1>1. Hears
    BY ChainHears
  <1>2. Registered'
    BY <1>1 DEF Hears, Registered, TypeOK
  <1>3. c[1] \in Jobs /\ copies \in [Jobs -> 0 .. 2] /\ befell \in [Jobs -> SUBSET Mishaps]
    BY JobOf DEF TypeOK
  <1>4. "sent" \in Steps /\ "answered" \in Steps
    BY DEF Steps
  <1>5. CASE FlutterSaved(c) \/ Resend(c)
    <2>1. /\ Moves(c, {"idle", "sent"}) /\ Grows
          /\ UNCHANGED <<platform, pending, copies, befell>>
      BY <1>5, <1>4, ChainMoves DEF FlutterSaved, Resend, Grows, Moves
    <2>2. At(c, "saving") => c[1] \in pending \/ copies[c[1]] > 0
      BY <1>5, <1>3 DEF FlutterSaved, Resend, Saving, At
    <2>3. Noted'
      BY <2>1, NotedKeeps DEF Moves
    <2>4. Saving'
      BY <2>1, SavingKeeps
    <2>5. KeptUntilAccepted'
      BY <2>1, <2>2, <1>1, StoreKeeps DEF Hears
    <2> QED
      BY <1>2, <2>3, <2>4, <2>5
  <1>6. CASE IosSaved(c)
    <2>1. Moves(c, {"sent"}) /\ Grows /\ UNCHANGED <<platform, copies>>
      BY <1>6, ChainMoves DEF IosSaved, Grows
    <2>2. /\ \A j \in Jobs : befell[j] \subseteq befell'[j]
          /\ \A j \in Jobs : j \in pending => j \in pending' \/ "raced" \in befell'[j]
          /\ c[1] \in pending'
      BY <1>6, <1>3 DEF IosSaved, Overwrite, Befalls
    <2>3. Noted'
      BY <2>1, NotedKeeps DEF Moves
    <2>4. Saving'
      BY <1>6, <2>1, SavingKeeps DEF IosSaved
    <2>5. KeptUntilAccepted'
      BY <2>1, <2>2, <1>1, StoreKeeps DEF Hears
    <2> QED
      BY <1>2, <2>3, <2>4, <2>5
  <1>7. CASE Accept(c)
    <2>1. Moves(c, {"answered"}) /\ UNCHANGED <<platform, pending, befell>> /\ ~At(c, "saving")
      BY <1>7, <1>4, ChainMoves DEF Accept, At
    <2>2. Copied({c})
      BY <1>7 DEF Accept
    <2>3. Grows /\ copies'[c[1]] > 0
      BY <2>2, CopiedCounts DEF Grows
    <2>4. Noted'
      BY <2>1, <2>3, NotedKeeps
    <2>5. Saving'
      BY <2>1, <2>3, SavingKeeps
    <2>6. KeptUntilAccepted'
      BY <2>1, <2>3, <1>1, StoreKeeps DEF Hears
    <2> QED
      BY <1>2, <2>4, <2>5, <2>6
  <1>8. CASE Fail(c)
    <2>1. Moves(c, {"idle", "waiting"}) /\ UNCHANGED <<platform, pending>> /\ ~At(c, "saving")
      BY <1>8, FailedMoves DEF Fail, At
    <2>2. Grows
      BY <1>8, CopiedCounts DEF Fail, Grows
    <2>3. \A j \in Jobs : befell[j] \subseteq befell'[j]
      BY <1>8, <1>3 DEF Fail, Befalls
    <2>4. Noted'
      BY <2>1, <2>2, NotedKeeps DEF Moves
    <2>5. Saving'
      BY <2>1, <2>2, SavingKeeps
    <2>6. KeptUntilAccepted'
      BY <2>1, <2>2, <2>3, <1>1, StoreKeeps DEF Hears
    <2> QED
      BY <1>2, <2>4, <2>5, <2>6
  <1>9. CASE Answered(c)
    <2>1. copies[c[1]] > 0 /\ ~At(c, "saving")
      BY <1>9 DEF Answered, Noted, At
    <2>2. /\ Moves(c, {"idle", "waiting", "removing"}) /\ Grows
          /\ copies' = copies /\ platform' = platform
          /\ \A j \in Jobs : befell[j] \subseteq befell'[j]
          /\ \A j \in Jobs : j \in pending => j \in pending' \/ copies'[j] > 0
      BY <1>9, <2>1, AnsweredMoves DEF Grows
    <2>3. Noted'
      BY <2>1, <2>2, NotedKeeps
    <2>4. Saving'
      BY <2>2, <1>3, SavingKeeps DEF TypeOK
    <2>5. KeptUntilAccepted'
      BY <2>1, <2>2, <1>1, StoreKeeps DEF Hears
    <2> QED
      BY <1>2, <2>3, <2>4, <2>5
  <1>10. CASE Finish(c)
    <2>1. copies[c[1]] > 0 /\ ~At(c, "saving")
      BY <1>10 DEF Finish, Noted, At
    <2>2. /\ Moves(c, {"idle", "waiting"}) /\ Grows
          /\ copies' = copies /\ platform' = platform
          /\ \A j \in Jobs : befell[j] \subseteq befell'[j]
          /\ \A j \in Jobs :
               j \in pending => j \in pending' \/ copies'[j] > 0 \/ "raced" \in befell'[j]
      BY <1>10, <2>1, FinishMoves DEF Grows
    <2>3. Noted'
      BY <2>2, NotedKeeps DEF Moves
    <2>4. platform = "flutter" => pending' = pending
      BY <1>10 DEF Finish, WebRead, FlutterRead, IosRemoved
    <2>5. Saving'
      BY <2>2, <2>4, SavingKeeps
    <2>6. KeptUntilAccepted'
      BY <2>1, <2>2, <1>1, StoreKeeps DEF Hears
    <2> QED
      BY <1>2, <2>3, <2>5, <2>6
  <1> QED
    BY <1>5, <1>6, <1>7, <1>8, <1>9, <1>10 DEF ClientStep

LEMMA InitializeKeeps == ASSUME KeptInv, Initialize, TypeOK' PROVE KeptInv'
  <1> USE DEF KeptInv
  <1>1. inits' > 0
    BY DEF Initialize, TypeOK
  <1>2. \A c \in Chains : chain'[c] = chain[c] \/ (chain'[c].at = "sent" /\ c[2] > 0)
    BY <1>1 DEF Initialize, Sent
  <1>3. UNCHANGED <<platform, pending, callbacks, copies, told>>
    BY DEF Initialize
  <1>4. \A j \in Jobs : befell[j] \subseteq befell'[j]
    BY DEF Initialize, Befalls, TypeOK
  <1>5. Noted'
    BY <1>2, <1>3 DEF Noted, At
  <1>6. Saving'
    BY <1>2, <1>3 DEF Saving, At
  <1>7. KeptUntilAccepted'
    <2>1. \A j \in Jobs : <<j, 0>> \in Chains /\ ~(<<j, 0>>[2] > 0)
      BY ClientAssumption DEF Chains
    <2> QED
      BY <1>2, <1>3, <1>4, <2>1 DEF KeptUntilAccepted, At
  <1>8. Registered'
    BY <1>3 DEF Registered
  <1> QED
    BY <1>5, <1>6, <1>7, <1>8

LEMMA RestartKeeps == ASSUME KeptInv, Restart, TypeOK' PROVE KeptInv'
  <1> USE DEF KeptInv
  <1>1. \A c \in Chains : chain'[c].at = "idle"
    BY DEF Restart, Idle
  <1>2. PICK arrived \in SUBSET {c \in Chains : At(c, "sent")} : Copied(arrived)
    BY DEF Restart
  <1>3. Grows
    BY <1>2, CopiedCounts DEF Grows
  <1>4. pending' = disk /\ told' = told /\ callbacks' = {}
    BY DEF Restart, LoadPendingJobs
  <1>5. /\ \A j \in Jobs : befell[j] \subseteq befell'[j]
        /\ \A j \in Jobs : (j \in pending) # (j \in disk) => "cut" \in befell'[j]
        /\ \A j \in Jobs : At(<<j, 0>>, "saving") => "cut" \in befell'[j]
    BY DEF Restart, TypeOK
  <1>6. KeptUntilAccepted'
    <2> SUFFICES ASSUME NEW j \in Jobs, told[j] # "new", copies'[j] = 0,
                        befell'[j] \cap {"cut", "raced"} = {}
                 PROVE  j \in disk
      BY <1>4 DEF KeptUntilAccepted
    <2>1. copies[j] \in 0 .. 2 /\ copies'[j] \in 0 .. 2
      BY DEF TypeOK
    <2>2. copies[j] = 0 /\ "cut" \notin befell'[j] /\ befell[j] \cap {"cut", "raced"} = {}
      BY <1>3, <1>5, <2>1 DEF Grows
    <2>3. j \in pending \/ At(<<j, 0>>, "saving")
      BY <2>2 DEF KeptUntilAccepted
    <2> QED
      BY <1>5, <2>2, <2>3
  <1> QED
    BY <1>1, <1>4, <1>6 DEF Noted, Saving, Registered, At

LEMMA KeptStep == ASSUME KeptInv, [Next]_vars PROVE KeptInv'
  <1>1. TypeOK'
    BY TypeStep DEF KeptInv
  <1>2. CASE Flush
    BY <1>1, <1>2
    DEF KeptInv, Flush, KeptUntilAccepted, Noted, Saving, Registered, At
  <1>3. CASE UNCHANGED vars
    BY <1>1, <1>3
    DEF KeptInv, vars, KeptUntilAccepted, Noted, Saving, Registered, At
  <1> QED
    BY <1>1, <1>2, <1>3, DispatchKeeps, ChainKeeps, InitializeKeeps, RestartKeeps
    DEF Next, Quiet

LEMMA KeptInit == Init => KeptUntilAccepted /\ Noted /\ Saving /\ Registered
  BY DEF Init, Idle, KeptUntilAccepted, Noted, Saving, Registered, At

(* "Save for offline" (void-send.js:59): whatever the network, the threads  *)
(* and the restarts do, a job that was not accepted is in the store, unless *)
(* a stop cut off the write or a racing write of iOS undid it.              *)
THEOREM NoJobForgotten == Spec => []KeptUntilAccepted
  <1>1. TypeOK /\ Init => KeptInv
    BY KeptInit DEF KeptInv
  <1>2. KeptInv /\ [Next]_vars => KeptInv'
    BY KeptStep
  <1>3. KeptInv => KeptUntilAccepted
    BY DEF KeptInv
  <1> QED
    BY <1>1, <1>2, <1>3, TypeCorrect, PTL DEF Spec

-----------------------------------------------------------------------------
(* One call of each callback.                                              *)

Final == {"success", "error"}

(* A step keeps what was said, and takes out the callbacks it calls.       *)
CallsOnce ==
    /\ \A j \in Jobs : told[j] \in Final => told'[j] = told[j] /\ j \notin callbacks'
    /\ \A j \in callbacks' : told'[j] \notin Final

LEMMA QuietCalls ==
    ASSUME TypeOK, Spent, ~Threaded, told' = told, callbacks' \subseteq callbacks
    PROVE  CallsOnce
  BY DEF Spent, CallsOnce, Final, TypeOK

LEMMA TellCalls ==
    ASSUME TypeOK, Spent, ~Threaded, NEW c \in Chains, NEW v, Tell(c, v)
    PROVE  CallsOnce
  <1>1. CASE /\ c[1] \in callbacks
             /\ told' = [told EXCEPT ![c[1]] = v]
             /\ callbacks' = callbacks \ {c[1]}
    BY <1>1 DEF TypeOK, Spent, CallsOnce, Final
  <1>2. CASE UNCHANGED <<told, callbacks>>
    BY <1>2, QuietCalls
  <1> QED
    BY <1>1, <1>2 DEF Tell, Twins

LEMMA FailedCalls ==
    ASSUME TypeOK, Spent, ~Threaded, NEW c \in Chains, Failed(c) PROVE CallsOnce
  BY QuietCalls, TellCalls DEF Failed, GiveUp

LEMMA ChainCalls ==
    ASSUME TypeOK, Spent, ~Threaded, NEW c \in Chains,
           ClientStep(c) \/ Accept(c) \/ Fail(c)
    PROVE  CallsOnce
  <1>1. ~(platform = "android") /\ ~(platform = "ios")
    BY DEF Threaded
  <1>2. CASE FlutterSaved(c) \/ Resend(c) \/ Accept(c)
    BY <1>2, QuietCalls DEF FlutterSaved, Resend, Accept
  <1>3. CASE Fail(c)
    BY <1>3, FailedCalls DEF Fail
  <1>4. CASE Answered(c)
    BY <1>1, <1>4, QuietCalls
    DEF Answered, WebAnswered, FlutterAnswered, AndroidAnswered, IosAnswered
  <1>5. CASE Finish(c)
    <2>1. Read(c)
      BY <1>1, <1>5 DEF Finish, WebRead, FlutterRead, IosRemoved
    <2> QED
      BY <2>1, TellCalls, FailedCalls DEF Read
  <1> QED
    BY <1>1, <1>2, <1>3, <1>4, <1>5 DEF ClientStep, IosSaved

LEMMA StepCalls ==
    ASSUME TypeOK, Spent, [Next]_vars
    PROVE  /\ platform' = platform
           /\ ~Threaded => CallsOnce
  <1>1. platform' = platform
    BY DEF Next, ClientStep, Dispatch, FlutterSaved, IosSaved, Resend, Answered,
           Finish, Accept, Fail, Initialize, Flush, Restart, Quiet, vars
  <1>2. ASSUME ~Threaded PROVE CallsOnce
    <2>1. ASSUME NEW j \in Jobs, Dispatch(j) PROVE CallsOnce
      <3>1. /\ told[j] = "new" /\ told' = [told EXCEPT ![j] = "nothing"]
            /\ callbacks' = callbacks \cup {j}
        BY <1>2, <2>1 DEF Dispatch, Register, Racing
      <3> QED
        BY <1>2, <3>1 DEF TypeOK, Spent, CallsOnce, Final
    <2>2. CASE Initialize \/ Flush \/ UNCHANGED vars
      BY <1>2, <2>2, QuietCalls DEF Initialize, Flush, vars
    <2>3. CASE Restart
      BY <1>2, <2>3, QuietCalls DEF Restart
    <2> QED
      BY <1>2, <2>1, <2>2, <2>3, ChainCalls DEF Next, Quiet
  <1> QED
    BY <1>1, <1>2

LEMMA SpentStep == ASSUME TypeOK, Spent, [Next]_vars PROVE Spent'
  BY StepCalls DEF Spent, CallsOnce, Final, Threaded

LEMMA SpentInvariant == Spec => []Spent
  <1>1. Init => Spent
    BY DEF Init, Spent
  <1>2. TypeOK /\ Spent /\ [Next]_vars => Spent'
    BY SpentStep
  <1> QED
    BY <1>1, <1>2, TypeCorrect, PTL DEF Spec

(* On an event loop each callback is called at most once, with two chains   *)
(* of one job and with a callback that throws.                              *)
THEOREM OneCallPerCallback == Spec => ToldOnce
  <1>1. TypeOK /\ Spent /\ [Next]_vars =>
          [\A j \in Jobs : ~Threaded /\ told[j] \in {"success", "error"}
                           => told'[j] = told[j] /\ j \notin callbacks']_vars
    BY StepCalls DEF CallsOnce, Final
  <1> QED
    BY <1>1, TypeCorrect, SpentInvariant, PTL DEF Spec, ToldOnce

-----------------------------------------------------------------------------
(* No duplicate without a mishap, and true reports.                        *)

OnceInv == KeptInv /\ Fresh /\ Once

(* What a step of chain c owes to the jobs that were not dispatched, to the *)
(* other jobs, and to its own job.                                         *)
LeavesFresh(c) ==
    \A j \in Jobs \ {c[1]} : told[j] = "new" =>
      /\ copies'[j] = 0 /\ befell'[j] = {}
      /\ j \notin pending' \cup disk' \cup loaded'
      /\ j \notin chain'[c].copy

LeavesOthers(c) ==
    \A j \in Jobs \ {c[1]} :
      /\ copies'[j] = copies[j]
      /\ befell'[j] = {} => befell[j] = {} /\ (j \in pending' <=> j \in pending)

Advances(c) ==
    befell'[c[1]] = {} =>
      /\ befell[c[1]] = {}
      /\ copies'[c[1]] \in {0, 1}
      /\ copies'[c[1]] > 0 =>
           /\ chain'[c].at \in {"idle", "answered", "removing"}
           /\ c[1] \in pending' => chain'[c].at # "idle"
      /\ chain'[c].at = "removing" /\ ~Threaded => c[1] \notin pending'

LEMMA FreshKeeps ==
    ASSUME TypeOK, Fresh, NEW c \in Chains, ~At(c, "idle"), NEW S, Moves(c, S),
           Hears, LeavesFresh(c)
    PROVE  Fresh'
  <1> SUFFICES ASSUME NEW j \in Jobs, told'[j] = "new"
               PROVE  /\ copies'[j] = 0 /\ befell'[j] = {}
                      /\ j \notin pending' \cup disk' \cup loaded'
                      /\ \A d \in Chains : (d[1] = j => chain'[d].at = "idle")
                                           /\ j \notin chain'[d].copy
    BY DEF Fresh, At
  <1>1. told[j] = "new"
    BY DEF Hears
  <1>2. j # c[1]
    BY <1>1 DEF Fresh
  <1>3. /\ copies'[j] = 0 /\ befell'[j] = {}
        /\ j \notin pending' \cup disk' \cup loaded'
        /\ j \notin chain'[c].copy
    BY <1>1, <1>2 DEF LeavesFresh
  <1>4. ASSUME NEW d \in Chains
        PROVE  (d[1] = j => chain'[d].at = "idle") /\ j \notin chain'[d].copy
    <2>1. CASE d = c
      BY <1>2, <1>3, <2>1
    <2>2. CASE d # c
      BY <1>1, <2>2 DEF Fresh, Moves, At
    <2> QED
      BY <2>1, <2>2
  <1> QED
    BY <1>3, <1>4

LEMMA OnceKeeps ==
    ASSUME TypeOK, Once, NEW c \in Chains, ~At(c, "idle"), NEW S, Moves(c, S),
           platform' = platform, LeavesOthers(c), Advances(c)
    PROVE  Once'
  <1> SUFFICES ASSUME NEW j \in Jobs, befell'[j] = {} PROVE Single(j)'
    BY DEF Once
  <1>1. Threaded' <=> Threaded
    BY DEF Threaded
  <1>2. CASE j = c[1]
    <2>1. Single(j)
      BY <1>2 DEF Once, Advances
    <2>2. \A d \in Chains : d[1] = j /\ d # c => chain[d].at = "idle" /\ chain'[d].at = "idle"
      BY <1>2, <2>1 DEF Single, Moves, At
    <2>3. copies'[j] \in {0, 1}
      BY <1>2 DEF Advances
    <2>4. copies'[j] > 0 =>
            /\ \A d \in Chains : d[1] = j => chain'[d].at \in {"idle", "answered", "removing"}
            /\ j \in pending' => \E d \in Chains : d[1] = j /\ chain'[d].at # "idle"
      BY <1>2, <2>2 DEF Advances
    <2>5. \A d \in Chains : d[1] = j /\ chain'[d].at = "removing" /\ ~Threaded => j \notin pending'
      BY <1>2, <2>2 DEF Advances
    <2>6. \A d, e \in Chains :
            d[1] = j /\ e[1] = j /\ chain'[d].at # "idle" /\ chain'[e].at # "idle" => d = e
      BY <2>2
    <2> QED
      BY <1>1, <2>3, <2>4, <2>5, <2>6 DEF Single, Active, At
  <1>3. CASE j # c[1]
    <2>1. /\ befell[j] = {} /\ copies'[j] = copies[j]
          /\ j \in pending' <=> j \in pending
      BY <1>3 DEF LeavesOthers
    <2>2. \A d \in Chains : d[1] = j => chain'[d].at = chain[d].at
      BY <1>3 DEF Moves
    <2>3. Single(j)
      BY <2>1 DEF Once
    <2> QED
      BY <1>1, <2>1, <2>2, <2>3 DEF Single, Active, At
  <1> QED
    BY <1>2, <1>3


(* The copy a chain holds comes from the store.                            *)
Reads(c) == chain'[c].copy \subseteq chain[c].copy \cup pending

LEMMA ChainReads ==
    ASSUME TypeOK, NEW c \in Chains
    PROVE  /\ \A step \in Steps : Goes(c, step) => Reads(c)
           /\ Ends(c) \/ Again(c) \/ Failed(c) \/ Read(c) => Reads(c)
           /\ chain' = [chain EXCEPT ![c] = Sent] => Reads(c)
           /\ chain' = [chain EXCEPT ![c].at = "removing", ![c].copy = pending] => Reads(c)
  <1>1. chain \in [Chains -> ChainState]
    BY DEF TypeOK
  <1>2. /\ \A step \in Steps : Goes(c, step) => Reads(c)
        /\ Ends(c) \/ Again(c) => Reads(c)
        /\ chain' = [chain EXCEPT ![c] = Sent] => Reads(c)
        /\ chain' = [chain EXCEPT ![c].at = "removing", ![c].copy = pending] => Reads(c)
    BY <1>1 DEF Goes, Ends, Again, Idle, Sent, Reads, ChainState
  <1>3. Failed(c) => Reads(c)
    BY <1>2 DEF Failed, GiveUp
  <1>4. Read(c) => Reads(c)
    BY <1>2, <1>3 DEF Read
  <1> QED
    BY <1>2, <1>3, <1>4

(* A step of c that reads the store, changes no entry of an undispatched    *)
(* job and befalls nobody but c's job leaves the undispatched jobs alone.   *)
LEMMA FreshLeft ==
    ASSUME TypeOK, Fresh, NEW c \in Chains, Reads(c),
           \A j \in Jobs \ {c[1]} : told[j] = "new" =>
             /\ copies'[j] = copies[j] /\ befell'[j] = befell[j]
             /\ j \in pending' \cup disk' \cup loaded' => j \in pending \cup disk \cup loaded
    PROVE  LeavesFresh(c)
  BY DEF Fresh, LeavesFresh, Reads

LEMMA SavedOnce ==
    ASSUME OnceInv, NEW c \in Chains, FlutterSaved(c) \/ IosSaved(c) \/ Resend(c)
    PROVE  Fresh' /\ Once'
  <1> USE DEF OnceInv, KeptInv
  <1>1. c[1] \in Jobs /\ befell \in [Jobs -> SUBSET Mishaps] /\ copies \in [Jobs -> 0 .. 2]
    BY JobOf DEF TypeOK
  <1>2. ~At(c, "idle") /\ Hears /\ UNCHANGED <<platform, copies>> /\ befell'[c[1]] = befell[c[1]]
    <2>1. Hears
      BY ChainHears DEF ClientStep
    <2> QED
      BY <2>1, <1>1 DEF FlutterSaved, IosSaved, Resend, At, Overwrite, Befalls
  <1>3. Moves(c, {"idle", "sent"}) /\ Reads(c)
    <2>1. Goes(c, "sent") \/ Ends(c) \/ chain' = [chain EXCEPT ![c] = Sent]
      BY DEF FlutterSaved, IosSaved, Resend
    <2> QED
      BY <2>1, ChainMoves, ChainReads DEF Steps, Moves
  <1>4. Advances(c)
    <2> SUFFICES ASSUME befell[c[1]] = {} PROVE copies[c[1]] = 0
      BY <1>2, <1>3 DEF Advances, Moves
    <2>1. Single(c[1]) /\ (At(c, "saving") \/ At(c, "waiting"))
      BY <1>1 DEF Once, FlutterSaved, IosSaved, Resend
    <2> QED
      BY <1>1, <2>1 DEF Single, At
  <1>5. LeavesOthers(c)
    <2>1. CASE FlutterSaved(c) \/ Resend(c)
      BY <2>1 DEF FlutterSaved, Resend, LeavesOthers
    <2>2. CASE IosSaved(c)
      BY <1>1, <2>2 DEF IosSaved, Overwrite, Befalls, LeavesOthers
    <2> QED
      BY <2>1, <2>2
  <1>6. LeavesFresh(c)
    <2>1. CASE FlutterSaved(c) \/ Resend(c)
      BY <1>3, <2>1, FreshLeft DEF FlutterSaved, Resend
    <2>2. CASE IosSaved(c)
      <3>1. \A j \in Jobs \ {c[1]} : told[j] = "new" => j \notin chain[c].copy /\ j \notin pending
        BY DEF Fresh
      <3> QED
        BY <1>1, <1>3, <2>2, <3>1, FreshLeft DEF IosSaved, Overwrite, Befalls
    <2> QED
      BY <2>1, <2>2
  <1> QED
    BY <1>2, <1>3, <1>4, <1>5, <1>6, FreshKeeps, OnceKeeps

LEMMA RequestOnce ==
    ASSUME OnceInv, NEW c \in Chains, Accept(c) \/ Fail(c)
    PROVE  Fresh' /\ Once'
  <1> USE DEF OnceInv, KeptInv
  <1>1. c[1] \in Jobs /\ befell \in [Jobs -> SUBSET Mishaps] /\ copies \in [Jobs -> 0 .. 2]
    BY JobOf DEF TypeOK
  <1>2. ~At(c, "idle") /\ Hears /\ UNCHANGED <<platform, pending, disk, loaded>>
    BY ChainHears DEF Accept, Fail, At
  <1>3. Moves(c, {"answered", "idle", "waiting"}) /\ Reads(c)
    BY ChainMoves, FailedMoves, ChainReads DEF Accept, Fail, Steps, Moves
  <1>4. /\ \A j \in Jobs \ {c[1]} : copies'[j] = copies[j] /\ befell'[j] = befell[j]
        /\ befell[c[1]] \subseteq befell'[c[1]]
    <2>1. UNCHANGED copies \/ Copied({c})
      BY DEF Accept, Fail
    <2>2. \A j \in Jobs \ {c[1]} : copies'[j] = copies[j]
      BY <2>1, CopiedCounts
    <2>3. UNCHANGED befell \/ Befalls({c[1]}, "unread")
      BY DEF Accept, Fail
    <2> QED
      BY <1>1, <2>2, <2>3 DEF Befalls
  <1>5. befell[c[1]] = {} => copies[c[1]] = 0
    <2>1. At(c, "sent")
      BY DEF Accept, Fail
    <2> QED
      BY <1>1, <2>1 DEF Once, Single, At
  <1>6. Advances(c)
    <2> SUFFICES ASSUME befell'[c[1]] = {} PROVE Advances(c)
      BY DEF Advances
    <2>1. befell[c[1]] = {} /\ copies[c[1]] = 0
      BY <1>4, <1>5
    <2>2. CASE Accept(c)
      <3>1. copies'[c[1]] = 1
        BY <2>1, <2>2, CopiedCounts DEF Accept
      <3>2. chain'[c].at = "answered"
        BY <2>2, ChainMoves DEF Accept, Steps, Moves
      <3> QED
        BY <2>1, <3>1, <3>2 DEF Advances
    <2>3. CASE Fail(c)
      <3>1. UNCHANGED copies
        BY <1>1, <2>3 DEF Fail, Befalls
      <3>2. chain'[c].at \in {"idle", "waiting"}
        BY <2>3, FailedMoves DEF Fail, Moves
      <3> QED
        BY <2>1, <3>1, <3>2 DEF Advances
    <2> QED
      BY <2>2, <2>3
  <1>7. LeavesOthers(c) /\ LeavesFresh(c)
    BY <1>2, <1>3, <1>4, FreshLeft DEF LeavesOthers
  <1> QED
    BY <1>2, <1>3, <1>6, <1>7, FreshKeeps, OnceKeeps

LEMMA AnsweredOnce == ASSUME OnceInv, NEW c \in Chains, Answered(c) PROVE Fresh' /\ Once'
  <1> USE DEF OnceInv, KeptInv
  <1>1. c[1] \in Jobs /\ befell \in [Jobs -> SUBSET Mishaps] /\ copies \in [Jobs -> 0 .. 2]
    BY JobOf DEF TypeOK
  <1>2. ~At(c, "idle") /\ Hears /\ UNCHANGED <<platform, copies, loaded>>
    BY ChainHears DEF ClientStep, Answered, At
  <1>3. Moves(c, {"idle", "waiting", "removing"})
    BY AnsweredMoves
  <1>4. Reads(c)
    BY ChainReads
    DEF Answered, WebAnswered, FlutterAnswered, AndroidAnswered, IosAnswered, Steps
  <1>5. /\ pending' \in {pending, pending \ {c[1]}} /\ disk' \in {disk, disk \ {c[1]}}
        /\ \A j \in Jobs \ {c[1]} : befell'[j] = befell[j]
        /\ befell[c[1]] \subseteq befell'[c[1]]
    BY <1>1, AnsweredMoves
    DEF Answered, WebAnswered, FlutterAnswered, AndroidAnswered, IosAnswered
  <1>6. Advances(c)
    <2> SUFFICES ASSUME befell'[c[1]] = {} PROVE Advances(c)
      BY DEF Advances
    <2>1. befell[c[1]] = {} /\ copies[c[1]] \in {0, 1}
      BY <1>1, <1>5 DEF Once, Single
    <2>2. ~Befalls({c[1]}, "unread")
      BY <1>1 DEF Befalls
    <2>3. CASE WebAnswered(c) \/ FlutterAnswered(c)
      <3>1. chain'[c].at = "removing" /\ c[1] \notin pending'
        BY <2>3, ChainMoves DEF WebAnswered, FlutterAnswered, Moves, Steps
      <3> QED
        BY <1>2, <2>1, <3>1 DEF Advances
    <2>4. CASE AndroidAnswered(c)
      <3>1. chain'[c].at = "idle" /\ c[1] \notin pending'
        BY <2>2, <2>4, ChainMoves DEF AndroidAnswered, Moves
      <3> QED
        BY <1>2, <2>1, <3>1 DEF Advances
    <2>5. CASE IosAnswered(c)
      <3>1. pending \in SUBSET Jobs
        BY DEF TypeOK
      <3>2. chain'[c].at = "removing" /\ Threaded
        BY <2>2, <2>5, <3>1, ChainMoves DEF IosAnswered, Moves, Threaded
      <3> QED
        BY <1>2, <2>1, <3>2 DEF Advances
    <2> QED
      BY <2>3, <2>4, <2>5 DEF Answered
  <1>7. LeavesOthers(c) /\ LeavesFresh(c)
    BY <1>2, <1>4, <1>5, FreshLeft DEF LeavesOthers
  <1> QED
    BY <1>2, <1>3, <1>6, <1>7, FreshKeeps, OnceKeeps

LEMMA FinishOnce == ASSUME OnceInv, NEW c \in Chains, Finish(c) PROVE Fresh' /\ Once'
  <1> USE DEF OnceInv, KeptInv
  <1>1. c[1] \in Jobs /\ befell \in [Jobs -> SUBSET Mishaps] /\ copies \in [Jobs -> 0 .. 2]
    BY JobOf DEF TypeOK
  <1>2. ~At(c, "idle") /\ Hears /\ UNCHANGED <<platform, copies, loaded>>
    BY ChainHears DEF ClientStep, Finish, At
  <1>3. Moves(c, {"idle", "waiting"}) /\ befell[c[1]] \subseteq befell'[c[1]]
    BY <1>1, FinishMoves
  <1>4. CASE WebRead(c) \/ FlutterRead(c)
    <2>1. Read(c) /\ UNCHANGED pending /\ disk' \in {disk, disk \ {c[1]}} /\ ~Threaded
      BY <1>4 DEF WebRead, FlutterRead, Threaded
    <2>2. Reads(c)
      BY <2>1, ChainReads
    <2>3. \A j \in Jobs \ {c[1]} : befell'[j] = befell[j]
      BY <2>1 DEF Read, Befalls
    <2>4. LeavesOthers(c) /\ LeavesFresh(c)
      BY <1>2, <2>1, <2>2, <2>3, FreshLeft DEF LeavesOthers
    <2>5. Advances(c)
      <3> SUFFICES ASSUME befell'[c[1]] = {} PROVE Advances(c)
        BY DEF Advances
      <3>1. befell[c[1]] = {} /\ ~Befalls({c[1]}, "unread")
        BY <1>1, <1>3 DEF Befalls
      <3>2. chain'[c].at = "idle"
        BY <2>1, <3>1, ChainMoves DEF Read, Moves
      <3>3. Single(c[1]) /\ At(c, "removing")
        BY <1>1, <3>1 DEF Once, Finish
      <3>4. copies[c[1]] \in {0, 1} /\ c[1] \notin pending'
        BY <2>1, <3>3 DEF Single
      <3> QED
        BY <1>2, <3>1, <3>2, <3>4 DEF Advances
    <2> QED
      BY <1>2, <1>3, <2>4, <2>5, FreshKeeps, OnceKeeps
  <1>5. CASE IosRemoved(c)
    <2>1. Reads(c) /\ disk' = disk /\ chain'[c].at = "idle" /\ c[1] \notin pending'
      BY <1>5, ChainReads, ChainMoves DEF IosRemoved, Overwrite, Moves
    <2>2. LeavesOthers(c)
      BY <1>1, <1>2, <1>5 DEF IosRemoved, Overwrite, Befalls, LeavesOthers
    <2>3. LeavesFresh(c)
      <3>1. \A j \in Jobs \ {c[1]} : told[j] = "new" => j \notin chain[c].copy /\ j \notin pending
        BY DEF Fresh
      <3> QED
        BY <1>1, <1>2, <1>5, <2>1, <3>1, FreshLeft DEF IosRemoved, Overwrite, Befalls
    <2>4. Advances(c)
      BY <1>1, <1>2, <1>3, <2>1 DEF Advances, Once, Single
    <2> QED
      BY <1>2, <1>3, <2>2, <2>3, <2>4, FreshKeeps, OnceKeeps
  <1> QED
    BY <1>4, <1>5 DEF Finish

LEMMA DispatchOnce == ASSUME OnceInv, NEW j \in Jobs, Dispatch(j) PROVE Fresh' /\ Once'
  <1> USE DEF OnceInv, KeptInv
  <1> DEFINE c == <<j, 0>>
  <1>1. c \in Chains /\ c[1] = j /\ chain \in [Chains -> ChainState]
    BY ClientAssumption DEF Chains, TypeOK
  <1>2. /\ told[j] = "new"
        /\ told' = [told EXCEPT ![j] = "nothing"] /\ told \in [Jobs -> Tellings]
        /\ UNCHANGED <<platform, loaded, copies, befell>>
    BY DEF Dispatch, Register, TypeOK
  <1>3. /\ Moves(c, {"sent", "saving", chain[c].at})
        /\ pending' \in {pending, pending \cup {j}} /\ disk' \in {disk, disk \cup {j}}
        /\ chain'[c].copy \subseteq chain[c].copy \cup pending
    BY <1>1 DEF Dispatch, WebDispatch, AndroidDispatch, FlutterDispatch, IosDispatch,
                Moves, Sent, ChainState
  <1>4. Fresh'
    <2> SUFFICES ASSUME NEW k \in Jobs, told'[k] = "new"
                 PROVE  /\ copies'[k] = 0 /\ befell'[k] = {}
                        /\ k \notin pending' \cup disk' \cup loaded'
                        /\ \A d \in Chains : (d[1] = k => chain'[d].at = "idle")
                                             /\ k \notin chain'[d].copy
      BY DEF Fresh, At
    <2>1. k # j /\ told[k] = "new"
      BY <1>2
    <2>2. copies'[k] = 0 /\ befell'[k] = {} /\ k \notin pending' \cup disk' \cup loaded'
      BY <1>2, <1>3, <2>1 DEF Fresh
    <2>3. ASSUME NEW d \in Chains
          PROVE  (d[1] = k => chain'[d].at = "idle") /\ k \notin chain'[d].copy
      <3>1. (d[1] = k => chain[d].at = "idle") /\ k \notin chain[d].copy /\ k \notin pending
        BY <2>1 DEF Fresh, At
      <3> QED
        BY <1>1, <1>3, <2>1, <3>1 DEF Moves
    <2> QED
      BY <2>2, <2>3
  <1>5. Once'
    <2> SUFFICES ASSUME NEW k \in Jobs, befell[k] = {} PROVE Single(k)'
      BY <1>2 DEF Once
    <2>1. Single(k) /\ (Threaded' <=> Threaded)
      BY <1>2 DEF Once, Threaded
    <2>2. CASE k = j
      <3>1. copies[j] = 0 /\ \A d \in Chains : d[1] = j => chain[d].at = "idle"
        BY <1>2 DEF Fresh, At
      <3>2. \A d \in Chains : d[1] = j /\ d # c => chain'[d].at = "idle"
        BY <3>1, <1>3 DEF Moves
      <3>3. \A d \in Chains : d[1] = j => chain'[d].at # "removing"
        BY <1>1, <3>1, <3>2, <1>3 DEF Moves
      <3> QED
        BY <1>2, <2>2, <3>1, <3>2, <3>3 DEF Single, At
    <2>3. CASE k # j
      <3>1. \A d \in Chains : d[1] = k => chain'[d] = chain[d]
        BY <1>1, <1>3, <2>3 DEF Moves
      <3>2. k \in pending' <=> k \in pending
        BY <1>3, <2>3
      <3> QED
        BY <1>2, <2>1, <3>1, <3>2 DEF Single, Active, At
    <2> QED
      BY <2>2, <2>3
  <1> QED
    BY <1>4, <1>5

LEMMA InitializeOnce == ASSUME OnceInv, Initialize PROVE Fresh' /\ Once'
  <1> USE DEF OnceInv, KeptInv
  <1>1. /\ UNCHANGED <<platform, pending, disk, loaded, copies, told>>
        /\ ToProcess \in {pending, loaded} /\ Sent.at = "sent" /\ Sent.copy = {}
    BY DEF Initialize, ToProcess, Sent
  <1>2. \A c \in Chains : chain'[c] = IF c[2] = inits' /\ c[1] \in ToProcess
                                      THEN Sent ELSE chain[c]
    BY DEF Initialize
  <1>3. \A j \in Jobs : befell'[j] = IF j \in ToProcess /\ (Active(j) \/ j \notin pending)
                                     THEN befell[j] \cup {"doubled"} ELSE befell[j]
    <2>1. ToProcess \in SUBSET Jobs
      BY DEF ToProcess, TypeOK
    <2> QED
      BY <2>1 DEF Initialize, Befalls
  <1>4. Fresh'
    <2> SUFFICES ASSUME NEW j \in Jobs, told[j] = "new"
                 PROVE  /\ copies[j] = 0 /\ befell'[j] = {}
                        /\ j \notin pending \cup disk \cup loaded
                        /\ \A c \in Chains : (c[1] = j => chain'[c].at = "idle")
                                             /\ j \notin chain'[c].copy
      BY <1>1 DEF Fresh, At
    <2>1. /\ copies[j] = 0 /\ befell[j] = {}
          /\ j \notin pending \cup disk \cup loaded
          /\ \A c \in Chains : (c[1] = j => chain[c].at = "idle") /\ j \notin chain[c].copy
      BY DEF Fresh, At
    <2>2. j \notin ToProcess
      BY <1>1, <2>1
    <2>3. ASSUME NEW c \in Chains
          PROVE  (c[1] = j => chain'[c].at = "idle") /\ j \notin chain'[c].copy
      BY <1>1, <1>2, <2>1, <2>2
    <2> QED
      BY <1>3, <2>1, <2>2, <2>3
  <1>5. Once'
    <2> SUFFICES ASSUME NEW j \in Jobs, befell'[j] = {} PROVE Single(j)'
      BY DEF Once
    <2>1. Single(j) /\ (Threaded' <=> Threaded)
      BY <1>1, <1>3 DEF Once, Threaded
    <2>2. CASE j \notin ToProcess
      <3>1. \A c \in Chains : c[1] = j => chain'[c] = chain[c]
        BY <1>2, <2>2
      <3> QED
        BY <1>1, <2>1, <3>1 DEF Single, Active, At
    <2>3. CASE j \in ToProcess
      <3>1. ~Active(j) /\ j \in pending
        BY <1>3, <2>3
      <3>2. copies[j] = 0
        BY <2>1, <3>1 DEF Single
      <3>3. \A c \in Chains : c[1] = j =>
              chain'[c].at = IF c[2] = inits' THEN "sent" ELSE "idle"
        BY <1>1, <1>2, <2>3, <3>1 DEF Active, At
      <3>4. \A c, d \in Chains : c[1] = j /\ d[1] = j /\ c[2] = inits' /\ d[2] = inits' => c = d
        BY DEF Chains
      <3> QED
        BY <1>1, <3>2, <3>3, <3>4 DEF Single, At
    <2> QED
      BY <2>2, <2>3
  <1> QED
    BY <1>4, <1>5

LEMMA RestartOnce == ASSUME OnceInv, Restart PROVE Fresh' /\ Once'
  <1> USE DEF OnceInv, KeptInv
  <1>1. \A c \in Chains : chain'[c].at = "idle" /\ chain'[c].copy = {}
    BY DEF Restart, Idle
  <1>2. /\ pending' = disk /\ disk' = disk /\ loaded' \subseteq disk
        /\ told' = told /\ platform' = platform
    BY DEF Restart, LoadPendingJobs
  <1>3. PICK arrived \in SUBSET {c \in Chains : At(c, "sent")} :
          /\ Copied(arrived)
          /\ befell' = [j \in Jobs |->
               befell[j]
               \cup (IF \E c \in Chains :
                           /\ c[1] = j
                           /\ c \in arrived \/ At(c, "answered") \/ At(c, "removing")
                     THEN {"unread"} ELSE {})
               \cup (IF \/ (j \in pending) # (j \in disk)
                        \/ At(<<j, 0>>, "saving")
                     THEN {"cut"} ELSE {})]
    BY DEF Restart
  <1>4. \A j \in Jobs : (\A c \in arrived : c[1] # j) => copies'[j] = copies[j]
    BY <1>3, CopiedCounts
  <1>5. \A c \in arrived : c \in Chains /\ At(c, "sent")
    BY <1>3
  <1>6. Fresh'
    <2> SUFFICES ASSUME NEW j \in Jobs, told[j] = "new"
                 PROVE  copies'[j] = 0 /\ befell'[j] = {} /\ j \notin disk
      BY <1>1, <1>2 DEF Fresh, At
    <2>1. /\ copies[j] = 0 /\ befell[j] = {} /\ j \notin pending /\ j \notin disk
          /\ \A c \in Chains : c[1] = j => chain[c].at = "idle"
      BY DEF Fresh, At
    <2>2. \A c \in arrived : c[1] # j
      BY <1>5, <2>1 DEF At
    <2>3. ~At(<<j, 0>>, "saving")
      BY <2>1, ClientAssumption DEF At, Chains
    <2>4. befell'[j] = {}
      BY <1>3, <2>1, <2>2, <2>3 DEF At
    <2> QED
      BY <1>4, <2>1, <2>2, <2>4
  <1>7. Once'
    <2> SUFFICES ASSUME NEW j \in Jobs, befell'[j] = {} PROVE Single(j)'
      BY DEF Once
    <2>1. /\ befell[j] = {}
          /\ \A c \in arrived : c[1] # j
          /\ \A c \in Chains : c[1] = j => ~At(c, "answered") /\ ~At(c, "removing")
          /\ j \in pending <=> j \in disk
      BY <1>3
    <2>2. Single(j) /\ copies'[j] = copies[j]
      BY <1>4, <2>1 DEF Once
    <2>3. copies[j] > 0 => j \notin disk
      BY <2>1, <2>2 DEF Single, Active, At
    <2> QED
      BY <1>1, <1>2, <2>2, <2>3 DEF Single, At
  <1> QED
    BY <1>6, <1>7

LEMMA OnceStep == ASSUME OnceInv, [Next]_vars PROVE OnceInv'
  <1>1. KeptInv'
    BY KeptStep DEF OnceInv
  <1>2. CASE Flush
    <2>1. Fresh'
      BY <1>2 DEF OnceInv, Flush, Fresh, At
    <2>2. Once'
      BY <1>2 DEF OnceInv, Flush, Once, Single, Active, Threaded, At
    <2> QED
      BY <1>1, <2>1, <2>2 DEF OnceInv
  <1>3. CASE UNCHANGED vars
    BY <1>1, <1>3 DEF OnceInv, vars, Fresh, Once, Single, Active, Threaded, At
  <1>4. ASSUME NEW c \in Chains, ClientStep(c) \/ Accept(c) \/ Fail(c) PROVE Fresh' /\ Once'
    BY <1>4, SavedOnce, RequestOnce, AnsweredOnce, FinishOnce DEF ClientStep
  <1> QED
    BY <1>1, <1>2, <1>3, <1>4, DispatchOnce, InitializeOnce, RestartOnce
    DEF OnceInv, Next, Quiet

LEMMA OnceInvariant == Spec => []OnceInv
  <1>1. Init => Fresh /\ Once
    BY JobOf, ClientAssumption
    DEF Init, Idle, Fresh, Once, Single, Active, At, Chains
  <1>2. TypeOK /\ Init => OnceInv
    BY <1>1, KeptInit DEF OnceInv, KeptInv
  <1>3. OnceInv /\ [Next]_vars => OnceInv'
    BY OnceStep
  <1> QED
    BY <1>2, <1>3, TypeCorrect, PTL DEF Spec

(* Without a lost or unread answer, a second chain, a cut or a racing       *)
(* write, the server accepts each dispatch once: removePendingJob and the   *)
(* retry loop themselves duplicate nothing.                                 *)
THEOREM DuplicatesExplained == Spec => []DuplicateOnlyExplained
  <1>1. OnceInv => DuplicateOnlyExplained
    BY DEF OnceInv, Once, Single, DuplicateOnlyExplained
  <1> QED
    BY <1>1, OnceInvariant, PTL

-----------------------------------------------------------------------------
(* What a callback hears is true.                                          *)

Truth ==
    \A j \in Jobs : told'[j] # told[j] =>
      /\ told'[j] = "success" => copies'[j] > 0
      /\ told'[j] = "error" => copies'[j] = 0 \/ befell'[j] # {}

LEMMA TellTruth ==
    ASSUME TypeOK, NEW c \in Chains, NEW v, Tell(c, v),
           v = "success" => copies'[c[1]] > 0,
           v = "error" => copies'[c[1]] = 0 \/ befell'[c[1]] # {}
    PROVE  Truth
  BY DEF Tell, TypeOK, Truth

LEMMA FailedTruth ==
    ASSUME TypeOK, NEW c \in Chains, Failed(c),
           copies'[c[1]] = 0 \/ befell'[c[1]] # {}
    PROVE  Truth
  BY TellTruth DEF Failed, GiveUp, Truth

LEMMA ChainTruth ==
    ASSUME OnceInv, NEW c \in Chains, Fail(c) \/ Answered(c) \/ Finish(c)
    PROVE  Truth
  <1> USE DEF OnceInv, KeptInv
  <1>1. c[1] \in Jobs /\ befell \in [Jobs -> SUBSET Mishaps] /\ copies \in [Jobs -> 0 .. 2]
    BY JobOf DEF TypeOK
  <1>2. Befalls({c[1]}, "unread") => befell'[c[1]] # {}
    BY <1>1 DEF Befalls
  <1>3. CASE Fail(c)
    <2>1. copies[c[1]] = 0 \/ befell[c[1]] # {}
      BY <1>1, <1>3 DEF Fail, Once, Single, At
    <2>2. copies'[c[1]] = 0 \/ befell'[c[1]] # {}
      BY <1>2, <1>3, <2>1 DEF Fail
    <2> QED
      BY <1>3, <2>2, FailedTruth DEF Fail
  <1>4. CASE Answered(c)
    <2>1. copies'[c[1]] > 0
      BY <1>4 DEF Answered, Noted
    <2>2. CASE UNCHANGED told
      BY <2>2 DEF Truth
    <2>3. CASE Tell(c, "success") \/ (Failed(c) /\ Befalls({c[1]}, "unread"))
                 \/ (Tell(c, "error") /\ Befalls({c[1]}, "unread"))
      BY <1>2, <2>1, <2>3, TellTruth, FailedTruth
    <2> QED
      BY <1>4, <2>2, <2>3
      DEF Answered, WebAnswered, FlutterAnswered, AndroidAnswered, IosAnswered
  <1>5. CASE Finish(c)
    <2>1. copies'[c[1]] > 0
      BY <1>5 DEF Finish, Noted
    <2>2. Tell(c, "success") \/ (Failed(c) /\ Befalls({c[1]}, "unread"))
      BY <1>5 DEF Finish, WebRead, FlutterRead, IosRemoved, Read
    <2> QED
      BY <1>2, <2>1, <2>2, TellTruth, FailedTruth
  <1> QED
    BY <1>3, <1>4, <1>5

(* A reported success was accepted; a reported error was not, unless the    *)
(* answer was lost or something else befell the job.                        *)
THEOREM ReportsAreTrue == Spec => ReportTruthful
  <1>1. ASSUME OnceInv, [Next]_vars PROVE Truth \/ UNCHANGED vars
    <2>1. ASSUME NEW j \in Jobs, Dispatch(j) PROVE Truth
      BY <1>1, <2>1 DEF OnceInv, KeptInv, TypeOK, Dispatch, Register, Truth
    <2>2. ASSUME NEW c \in Chains, FlutterSaved(c) \/ IosSaved(c) \/ Resend(c) \/ Accept(c)
          PROVE  Truth
      BY <2>2 DEF FlutterSaved, IosSaved, Resend, Accept, Truth
    <2>3. CASE Initialize \/ Flush \/ Restart
      BY <2>3 DEF Initialize, Flush, Restart, Truth
    <2> QED
      BY <1>1, <2>1, <2>2, <2>3, ChainTruth DEF Next, ClientStep, Quiet
  <1>2. OnceInv /\ [Next]_vars =>
          [\A j \in Jobs : told'[j] # told[j] =>
             /\ told'[j] = "success" => copies'[j] > 0
             /\ told'[j] = "error" => copies'[j] = 0 \/ befell'[j] # {}]_vars
    BY <1>1 DEF Truth
  <1> QED
    BY <1>2, OnceInvariant, PTL DEF Spec, ReportTruthful

=============================================================================
