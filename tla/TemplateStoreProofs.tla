------------------------ MODULE TemplateStoreProofs ------------------------
(***************************************************************************)
(* Theorems about TemplateStore, for every number of templates, clients    *)
(* and loaders.                                                            *)
(***************************************************************************)
EXTENDS TemplateStore, TLAPS

(* The part of TypeOK that is about the clients.                           *)
ClientsOK ==
    /\ client \in [Clients -> ClientState]
    /\ \A c \in Clients : client[c].at = "filling" => client[c].seen # 0

(* What a client that moves on leaves behind.                              *)
LEMMA GoType ==
    ASSUME ClientsOK, NEW c \in Clients, NEW k \in Keys, NEW v \in Versions,
           NEW at \in {"idle", "saving", "saved", "deleted", "reading", "filling"},
           at = "filling" => v # 0,
           Go(c, at, k, v)
    PROVE  ClientsOK'
  <1>1. [at |-> at, key |-> k, seen |-> v] \in ClientState
    BY DEF ClientState
  <1> QED
    BY <1>1 DEF Go, ClientsOK

LEMMA DoneType ==
    ASSUME ClientsOK, NEW c \in Clients, Done(c)
    PROVE  ClientsOK'
  <1>1. client[c].key \in Keys /\ 0 \in Versions
    BY StoreAssumption DEF ClientsOK, ClientState, Versions
  <1> QED
    BY <1>1, GoType DEF Done

LEMMA ActiveType ==
    ASSUME row \in [Keys -> Row], NEW k \in Keys
    PROVE  /\ Active(k) \in Versions
           /\ row[k].version \in Versions
           /\ Active(k) <= row[k].version
  BY StoreAssumption DEF Row, Versions, Active

LEMMA InitTypeOK == Init => TypeOK
  <1> SUFFICES ASSUME Init PROVE TypeOK
    OBVIOUS
  <1>1. 0 \in Versions /\ 1 \in Versions
    BY StoreAssumption DEF Versions
  <1>2. row \in [Keys -> Row]
    <2>1. /\ [version |-> 0, active |-> FALSE] \in Row
          /\ [version |-> 1, active |-> TRUE] \in Row
      BY <1>1 DEF Row
    <2> QED
      BY <2>1 DEF Init
  <1>3. Empty \in [Keys -> Versions]
    BY <1>1 DEF Empty
  <1>4. loader \in [Loaders -> LoaderState]
    BY <1>3 DEF Init, LoaderState
  <1> QED
    BY <1>2, <1>3, <1>4 DEF Init, TypeOK

LEMMA NextTypeOK == TypeOK /\ [Next]_vars => TypeOK'
  <1> SUFFICES ASSUME TypeOK, [Next]_vars PROVE TypeOK'
    OBVIOUS
  <1> USE DEF TypeOK
  <1>0. 0 \in Versions /\ ClientsOK
    BY StoreAssumption DEF Versions, ClientsOK
  <1>1. ASSUME NEW k \in Keys, NEW existed, Commits(k, existed)
        PROVE  row' \in [Keys -> Row]
    BY <1>1, StoreAssumption DEF Commits, Row, Versions
  <1>2. ASSUME NEW c \in Clients, ClientStep(c) PROVE TypeOK'
    <2>1. client[c].key \in Keys /\ client[c].seen \in Versions
      BY DEF ClientState
    <2>2. CASE SaveWrite(c)
      <3>1. row' \in [Keys -> Row]
        BY <2>2, <2>1, <1>1 DEF SaveWrite
      <3>2. ClientsOK'
        BY <2>2, <2>1, <1>0, GoType DEF SaveWrite
      <3> QED
        BY <2>2, <3>1, <3>2 DEF SaveWrite, ClientsOK
    <2>3. CASE SaveFails(c)
      <3>1. /\ row' \in [Keys -> Row]
            /\ suspect' \in SUBSET Keys
        BY <2>3, <2>1, <1>1 DEF SaveFails, Cached
      <3>2. ClientsOK'
        BY <2>3, <1>0, DoneType DEF SaveFails
      <3> QED
        BY <2>3, <3>1, <3>2 DEF SaveFails, ClientsOK
    <2>4. CASE Invalidate(c)
      <3>1. ClientsOK'
        BY <2>4, <1>0, DoneType DEF Invalidate
      <3> QED
        BY <2>4, <2>1, <1>0, <3>1 DEF Invalidate, ClientsOK
    <2>5. CASE GetRead(c)
      <3>1. ClientsOK'
        <4>1. CASE Done(c)
          BY <4>1, <1>0, DoneType
        <4>2. CASE /\ Active(client[c].key) # 0
                   /\ Go(c, "filling", client[c].key, Active(client[c].key))
          <5>1. Active(client[c].key) \in Versions
            BY <2>1, ActiveType
          <5> QED
            BY <4>2, <5>1, <2>1, <1>0, GoType
        <4> QED
          BY <2>5, <4>1, <4>2 DEF GetRead
      <3> QED
        BY <2>5, <3>1 DEF GetRead, ClientsOK
    <2>6. CASE GetFill(c)
      <3>1. ClientsOK'
        BY <2>6, <1>0, DoneType DEF GetFill
      <3> QED
        BY <2>6, <2>1, <3>1 DEF GetFill, ClientsOK
    <2> QED
      BY <1>2, <2>2, <2>3, <2>4, <2>5, <2>6 DEF ClientStep
  <1>3. ASSUME NEW c \in Clients, NEW k \in Keys, ClientStarts(c, k)
        PROVE  TypeOK'
    <2>1. CASE SaveCheck(c, k)
      <3>1. row[k].version \in Versions
        BY ActiveType
      <3>2. ClientsOK'
        BY <2>1, <3>1, <1>0, GoType DEF SaveCheck
      <3> QED
        BY <2>1, <3>2 DEF SaveCheck, ClientsOK
    <2>2. CASE DeleteWrite(c, k)
      <3>1. row' \in [Keys -> Row]
        BY <2>2 DEF DeleteWrite, Deactivates, Row
      <3>2. ClientsOK'
        BY <2>2, <1>0, GoType DEF DeleteWrite
      <3> QED
        BY <2>2, <3>1, <3>2 DEF DeleteWrite, ClientsOK
    <2>3. CASE DeleteFails(c, k)
      <3>1. row' \in [Keys -> Row]
        BY <2>3 DEF DeleteFails, Deactivates, Row
      <3> QED
        BY <2>3, <3>1 DEF DeleteFails, Cached
    <2>4. CASE GetMiss(c, k)
      <3>1. ClientsOK'
        BY <2>4, <1>0, GoType DEF GetMiss
      <3> QED
        BY <2>4, <3>1 DEF GetMiss, ClientsOK
    <2> QED
      BY <1>3, <2>1, <2>2, <2>3, <2>4 DEF ClientStarts
  <1>4. ASSUME NEW l \in Loaders, LoaderStep(l) \/ Cleanup(l)
        PROVE  TypeOK'
    <2>1. Empty \in [Keys -> Versions]
      BY <1>0 DEF Empty
    <2>2. CASE LoadQuery(l)
      <3>1. [k \in Keys |-> Active(k)] \in [Keys -> Versions]
        BY ActiveType
      <3>2. loader' \in [Loaders -> LoaderState]
        <4>1. CASE loader' = [loader EXCEPT ![l] =
                       [at |-> "applying",
                        snapshot |-> [k \in Keys |-> Active(k)]]]
          BY <3>1, <4>1 DEF LoaderState
        <4>2. CASE loader' = [loader EXCEPT ![l].at = "idle"]
          BY <4>2 DEF LoaderState
        <4> QED
          BY <2>2, <4>1, <4>2 DEF LoadQuery
      <3> QED
        BY <2>2, <3>2 DEF LoadQuery
    <2>3. CASE LoadApply(l)
      <3>1. loader[l].snapshot \in [Keys -> Versions]
        BY DEF LoaderState
      <3>2. dbCache' \in [Keys -> Versions] /\ suspect' \in SUBSET Keys
        BY <2>3, <3>1 DEF LoadApply
      <3> QED
        BY <2>3, <3>2, <2>1 DEF LoadApply, LoaderState
    <2>4. CASE Cleanup(l)
      BY <2>4, <2>1 DEF Cleanup, LoaderState
    <2> QED
      BY <1>4, <2>2, <2>3, <2>4 DEF LoaderStep
  <1>5. CASE UNCHANGED vars
    BY <1>5 DEF vars
  <1> QED
    BY <1>2, <1>3, <1>4, <1>5 DEF Next

(* TypeOK is an invariant.                                                 *)
THEOREM TypeCorrect == Spec => []TypeOK
  BY InitTypeOK, NextTypeOK, PTL DEF Spec

-----------------------------------------------------------------------------
(* No step takes a version away from the table: what was committed stays   *)
(* an upper bound for whoever has read it.                                 *)
LEMMA VersionsGrow ==
    ASSUME TypeOK, [Next]_vars, NEW k \in Keys
    PROVE  row'[k].version >= row[k].version
  <1> USE DEF TypeOK
  <1>0. row[k].version \in Nat
    BY StoreAssumption DEF Row, Versions
  <1>1. ASSUME NEW m \in Keys, NEW existed, Commits(m, existed)
        PROVE  row'[k].version >= row[k].version
    BY <1>0, <1>1 DEF Commits, Row, Versions
  <1>2. ASSUME NEW m \in Keys, Deactivates(m)
        PROVE  row'[k].version >= row[k].version
    BY <1>0, <1>2 DEF Deactivates, Row
  <1>3. ASSUME row' = row
        PROVE  row'[k].version >= row[k].version
    BY <1>0, <1>3
  <1>4. ASSUME NEW c \in Clients, ClientStep(c)
        PROVE  row'[k].version >= row[k].version
    <2>1. client[c].key \in Keys
      BY DEF ClientState
    <2> QED
      BY <1>4, <2>1, <1>1, <1>3
         DEF ClientStep, SaveWrite, SaveFails, Invalidate, GetRead, GetFill
  <1>5. ASSUME NEW c \in Clients, NEW m \in Keys, ClientStarts(c, m)
        PROVE  row'[k].version >= row[k].version
    BY <1>5, <1>2, <1>3
       DEF ClientStarts, SaveCheck, DeleteWrite, DeleteFails, GetMiss
  <1>6. ASSUME NEW l \in Loaders, LoaderStep(l) \/ Cleanup(l)
        PROVE  row'[k].version >= row[k].version
    BY <1>6, <1>3 DEF LoaderStep, LoadQuery, LoadApply, Cleanup
  <1> QED
    BY <1>3, <1>4, <1>5, <1>6 DEF Next, vars

-----------------------------------------------------------------------------
LEMMA NextNeverAhead == TypeOK /\ NeverAhead /\ [Next]_vars => NeverAhead'
  <1> SUFFICES ASSUME TypeOK, NeverAhead, [Next]_vars PROVE NeverAhead'
    OBVIOUS
  <1>0. \A k \in Keys : /\ row[k].version \in Nat /\ row'[k].version \in Nat
                        /\ row'[k].version >= row[k].version
                        /\ Active(k) \in Nat /\ Active(k) <= row[k].version
    <2>1. TypeOK'
      BY NextTypeOK
    <2> QED
      BY <2>1, VersionsGrow, ActiveType, StoreAssumption
         DEF TypeOK, Row, Versions
  <1>1. /\ \A k \in Keys : dbCache[k] \in Nat
        /\ \A c \in Clients : client[c].key \in Keys /\ client[c].seen \in Nat
        /\ \A l \in Loaders, k \in Keys : loader[l].snapshot[k] \in Nat
    BY StoreAssumption DEF TypeOK, ClientState, LoaderState, Versions
  <1> DEFINE ClientsBehind ==
               \A c \in Clients : client[c].seen <= row[client[c].key].version
             CacheBehind == \A k \in Keys : dbCache[k] <= row[k].version
             LoadersBehind == \A l \in Loaders, k \in Keys :
                                loader[l].snapshot[k] <= row[k].version
  <1>2. client' = client => ClientsBehind'
    BY <1>0, <1>1 DEF NeverAhead
  <1>3. dbCache' = dbCache => CacheBehind'
    BY <1>0, <1>1 DEF NeverAhead
  <1>4. loader' = loader => LoadersBehind'
    BY <1>0, <1>1 DEF NeverAhead
  <1>5. ASSUME NEW c \in Clients, NEW at, NEW k \in Keys, NEW v \in Nat,
               v <= row[k].version, Go(c, at, k, v)
        PROVE  ClientsBehind'
    BY <1>0, <1>1, <1>5 DEF Go, NeverAhead, TypeOK
  <1>6. ASSUME NEW c \in Clients, Done(c) PROVE ClientsBehind'
    BY <1>0, <1>1, <1>5, <1>6 DEF Done
  <1>7. ASSUME NEW c \in Clients, ClientStep(c) PROVE NeverAhead'
    <2>1. CASE SaveWrite(c)
      <3>1. client[c].key \in Keys /\ Go(c, "saved", client[c].key, 0)
        BY <2>1, <1>1 DEF SaveWrite
      <3>2. 0 \in Nat /\ 0 <= row[client[c].key].version
        BY <3>1, <1>0
      <3>3. ClientsBehind'
        BY <3>1, <3>2, <1>5
      <3> QED
        BY <2>1, <3>3, <1>3, <1>4 DEF SaveWrite, NeverAhead
    <2>2. CASE SaveFails(c)
      BY <2>2, <1>3, <1>4, <1>6 DEF SaveFails, NeverAhead
    <2>3. CASE Invalidate(c)
      <3>1. CacheBehind'
        BY <2>3, <1>0, <1>1 DEF Invalidate, NeverAhead, TypeOK
      <3> QED
        BY <2>3, <3>1, <1>4, <1>6 DEF Invalidate, NeverAhead
    <2>4. CASE GetRead(c)
      <3>1. ClientsBehind'
        BY <2>4, <1>0, <1>1, <1>5, <1>6 DEF GetRead
      <3> QED
        BY <2>4, <3>1, <1>3, <1>4 DEF GetRead, NeverAhead
    <2>5. CASE GetFill(c)
      <3>1. CacheBehind'
        BY <2>5, <1>0, <1>1 DEF GetFill, NeverAhead, TypeOK
      <3> QED
        BY <2>5, <3>1, <1>4, <1>6 DEF GetFill, NeverAhead
    <2> QED
      BY <1>7, <2>1, <2>2, <2>3, <2>4, <2>5 DEF ClientStep
  <1>8. ASSUME NEW c \in Clients, NEW k \in Keys, ClientStarts(c, k)
        PROVE  NeverAhead'
    <2>1. ClientsBehind'
      <3>1. /\ 0 \in Nat /\ 0 <= row[k].version
            /\ row[k].version \in Nat /\ row[k].version <= row[k].version
        BY <1>0
      <3>2. ASSUME NEW at, Go(c, at, k, 0) PROVE ClientsBehind'
        BY <3>1, <3>2, <1>5
      <3>3. CASE SaveCheck(c, k)
        <4>1. ASSUME Go(c, "saving", k, row[k].version) PROVE ClientsBehind'
          BY <4>1, <3>1, <1>5
        <4> QED
          BY <3>2, <3>3, <4>1 DEF SaveCheck
      <3>4. CASE DeleteFails(c, k)
        BY <3>4, <1>2 DEF DeleteFails
      <3> QED
        BY <1>8, <3>2, <3>3, <3>4 DEF ClientStarts, DeleteWrite, GetMiss
    <2> QED
      BY <1>8, <2>1, <1>3, <1>4
         DEF ClientStarts, SaveCheck, DeleteWrite, DeleteFails, GetMiss,
             NeverAhead
  <1>9. ASSUME NEW l \in Loaders, LoaderStep(l) \/ Cleanup(l)
        PROVE  NeverAhead'
    <2>1. CASE LoadQuery(l)
      <3>1. LoadersBehind'
        BY <2>1, <1>0, <1>1 DEF LoadQuery, NeverAhead, TypeOK, LoaderState
      <3> QED
        BY <2>1, <3>1, <1>2, <1>3 DEF LoadQuery, NeverAhead
    <2>2. CASE LoadApply(l)
      <3>1. LoadersBehind'
        BY <2>2, <1>0, <1>1
           DEF LoadApply, NeverAhead, TypeOK, LoaderState, Empty
      <3>2. CacheBehind'
        BY <2>2, <1>0, <1>1 DEF LoadApply, NeverAhead
      <3> QED
        BY <2>2, <3>1, <3>2, <1>2 DEF LoadApply, NeverAhead
    <2>3. CASE Cleanup(l)
      <3>1. LoadersBehind'
        BY <2>3, <1>0, <1>1 DEF Cleanup, NeverAhead, TypeOK, LoaderState
      <3>2. CacheBehind'
        BY <2>3, <1>0, <1>1 DEF Cleanup, Empty
      <3> QED
        BY <2>3, <3>1, <3>2, <1>2 DEF Cleanup, NeverAhead
    <2> QED
      BY <1>9, <2>1, <2>2, <2>3 DEF LoaderStep
  <1>10. CASE UNCHANGED vars
    BY <1>10, <1>2, <1>3, <1>4 DEF vars, NeverAhead
  <1> QED
    BY <1>7, <1>8, <1>9, <1>10 DEF Next

(* Cache, readers and loaders hold committed versions only.                *)
THEOREM CommittedOnly == Spec => []NeverAhead
  <1>1. Init => NeverAhead
    <2> SUFFICES ASSUME Init PROVE NeverAhead
      OBVIOUS
    <2>1. TypeOK
      BY InitTypeOK
    <2>2. \A k \in Keys : row[k].version \in Nat
      BY <2>1 DEF TypeOK, Row, Versions
    <2>3. \A c \in Clients : client[c].key \in Keys /\ client[c].seen = 0
      BY DEF Init, ClientState
    <2>4. \A l \in Loaders, k \in Keys : loader[l].snapshot[k] = 0
      <3>1. \A l \in Loaders : loader[l].snapshot = Empty
        BY DEF Init
      <3> QED
        BY <3>1 DEF Empty
    <2>5. \A k \in Keys : dbCache[k] = 0
      BY DEF Init, Empty
    <2> QED
      BY <2>2, <2>3, <2>4, <2>5 DEF NeverAhead
  <1> QED
    BY InitTypeOK, NextTypeOK, <1>1, NextNeverAhead, PTL DEF Spec

-----------------------------------------------------------------------------
LEMMA NextStaleOnlyByRace ==
    TypeOK /\ StaleOnlyByRace /\ [Next]_vars => StaleOnlyByRace'
  <1> SUFFICES ASSUME TypeOK, StaleOnlyByRace, [Next]_vars,
                      NEW k \in Keys, Stale(k)'
               PROVE  Invalidating(k)' \/ k \in suspect'
    BY DEF StaleOnlyByRace
  <1>1. ASSUME NEW c \in Clients, client[c].at \notin {"saved", "deleted"},
               \A d \in Clients \ {c} : client'[d] = client[d], Invalidating(k)
        PROVE  Invalidating(k)'
    BY <1>1 DEF Invalidating
  <1>2. ASSUME NEW c \in Clients, NEW at, NEW m, NEW v, Go(c, at, m, v)
        PROVE  /\ \A d \in Clients \ {c} : client'[d] = client[d]
               /\ client'[c] = [at |-> at, key |-> m, seen |-> v]
    BY <1>2 DEF Go, TypeOK
  <1>3. ASSUME NEW c \in Clients, Done(c)
        PROVE  \A d \in Clients \ {c} : client'[d] = client[d]
    BY <1>2, <1>3 DEF Done
  <1>4. ASSUME dbCache' = dbCache, row' = row
        PROVE  Invalidating(k) \/ k \in suspect
    BY <1>4 DEF Stale, Active, StaleOnlyByRace
  <1>5. ASSUME NEW c \in Clients, ClientStep(c)
        PROVE  Invalidating(k)' \/ k \in suspect'
    <2>0. client[c].key \in Keys
      BY DEF TypeOK, ClientState
    <2>1. CASE SaveWrite(c)
      <3>1. CASE client[c].key = k
        <4>1. client'[c].at = "saved" /\ client'[c].key = k
          <5>1. Go(c, "saved", k, 0)
            BY <2>1, <3>1 DEF SaveWrite
          <5> QED
            BY <5>1 DEF Go, TypeOK
        <4> QED
          BY <4>1 DEF Invalidating
      <3>2. CASE client[c].key # k
        <4>1. row'[k] = row[k]
          BY <2>1, <3>2 DEF SaveWrite, Commits, TypeOK
        <4>2. Stale(k)
          BY <2>1, <4>1 DEF SaveWrite, Stale, Active
        <4>3. /\ client[c].at = "saving"
              /\ \A d \in Clients \ {c} : client'[d] = client[d]
          BY <2>1, <1>2 DEF SaveWrite
        <4> QED
          BY <2>1, <4>2, <4>3, <1>1 DEF SaveWrite, StaleOnlyByRace
      <3> QED
        BY <3>1, <3>2
    <2>2. CASE SaveFails(c)
      <3>1. /\ client[c].at = "saving"
            /\ \A d \in Clients \ {c} : client'[d] = client[d]
            /\ suspect \subseteq suspect'
            /\ dbCache' = dbCache
        BY <2>2, <1>3 DEF SaveFails
      <3>2. CASE row' = row
        BY <3>1, <3>2, <1>1, <1>4
      <3>3. CASE /\ Commits(client[c].key, client[c].seen > 0)
                 /\ suspect' = suspect \cup Cached(client[c].key)
        <4>1. CASE client[c].key = k
          BY <3>1, <3>3, <4>1 DEF Cached, Stale
        <4>2. CASE client[c].key # k
          <5>1. row'[k] = row[k]
            BY <3>3, <4>2 DEF Commits, TypeOK
          <5>2. Stale(k)
            BY <3>1, <5>1 DEF Stale, Active
          <5> QED
            BY <3>1, <5>2, <1>1 DEF StaleOnlyByRace
        <4> QED
          BY <4>1, <4>2
      <3> QED
        BY <2>2, <3>2, <3>3 DEF SaveFails
    <2>3. CASE Invalidate(c)
      <3>1. client[c].key # k
        BY <2>3 DEF Invalidate, Stale, TypeOK
      <3>2. Stale(k) /\ suspect' = suspect \ {client[c].key}
        BY <2>3, <3>1 DEF Invalidate, Stale, Active, TypeOK
      <3>3. Invalidating(k) => Invalidating(k)'
        BY <2>3, <3>1, <1>3 DEF Invalidate, Invalidating
      <3> QED
        BY <3>1, <3>2, <3>3 DEF StaleOnlyByRace
    <2>4. CASE GetRead(c)
      <3>1. /\ client[c].at = "reading"
            /\ \A d \in Clients \ {c} : client'[d] = client[d]
        BY <2>4, <1>2, <1>3 DEF GetRead
      <3> QED
        BY <2>4, <3>1, <1>1, <1>4 DEF GetRead
    <2>5. CASE GetFill(c)
      <3>1. /\ client[c].at = "filling"
            /\ \A d \in Clients \ {c} : client'[d] = client[d]
        BY <2>5, <1>3 DEF GetFill
      <3>2. CASE client[c].key = k
        BY <2>5, <3>2 DEF GetFill, Stale, Active, TypeOK
      <3>3. CASE client[c].key # k
        <4>1. Stale(k) /\ (k \in suspect => k \in suspect')
          BY <2>5, <3>3 DEF GetFill, Stale, Active, TypeOK
        <4> QED
          BY <4>1, <3>1, <1>1 DEF StaleOnlyByRace
      <3> QED
        BY <3>2, <3>3
    <2> QED
      BY <1>5, <2>1, <2>2, <2>3, <2>4, <2>5 DEF ClientStep
  <1>6. ASSUME NEW c \in Clients, NEW m \in Keys, ClientStarts(c, m)
        PROVE  Invalidating(k)' \/ k \in suspect'
    <2>1. /\ client[c].at = "idle"
          /\ \A d \in Clients \ {c} : client'[d] = client[d]
          /\ dbCache' = dbCache
          /\ suspect \subseteq suspect'
      BY <1>6, <1>2 DEF ClientStarts, SaveCheck, DeleteWrite, DeleteFails, GetMiss
    <2>2. CASE row' = row
      BY <2>1, <2>2, <1>1, <1>4
    <2>3. CASE Deactivates(m) /\ m # k
      <3>1. Stale(k)
        BY <2>1, <2>3 DEF Deactivates, Stale, Active, TypeOK
      <3> QED
        BY <2>1, <3>1, <1>1 DEF StaleOnlyByRace
    <2>4. CASE DeleteWrite(c, k)
      <3>1. client'[c].at = "deleted" /\ client'[c].key = k
        <4>1. Go(c, "deleted", k, 0)
          BY <2>4 DEF DeleteWrite
        <4> QED
          BY <4>1 DEF Go, TypeOK
      <3> QED
        BY <3>1 DEF Invalidating
    <2>5. CASE DeleteFails(c, k)
      BY <2>5 DEF DeleteFails, Cached, Stale
    <2> QED
      BY <1>6, <2>2, <2>3, <2>4, <2>5
         DEF ClientStarts, SaveCheck, DeleteWrite, DeleteFails, GetMiss
  <1>7. ASSUME NEW l \in Loaders, LoaderStep(l) \/ Cleanup(l)
        PROVE  Invalidating(k)' \/ k \in suspect'
    <2>1. Invalidating(k)' = Invalidating(k)
      BY <1>7 DEF LoaderStep, LoadQuery, LoadApply, Cleanup, Invalidating
    <2>2. CASE LoadQuery(l)
      BY <2>1, <2>2, <1>4 DEF LoadQuery
    <2>3. CASE LoadApply(l)
      BY <2>1, <2>3 DEF LoadApply, Stale, Active, StaleOnlyByRace
    <2>4. CASE Cleanup(l)
      BY <2>4 DEF Cleanup, Stale, Empty
    <2> QED
      BY <1>7, <2>2, <2>3, <2>4 DEF LoaderStep
  <1>8. CASE UNCHANGED vars
    <2>1. Invalidating(k)' = Invalidating(k)
      BY <1>8 DEF vars, Invalidating
    <2> QED
      BY <1>8, <2>1, <1>4 DEF vars
  <1> QED
    BY <1>5, <1>6, <1>7, <1>8 DEF Next

(* A save or a delete that nothing overlaps is seen by every later render: *)
(* an entry is stale only until its writer deletes it, or by a race.       *)
THEOREM StaleByRaceOnly == Spec => []StaleOnlyByRace
  <1>1. Init => StaleOnlyByRace
    BY DEF Init, StaleOnlyByRace, Stale, Empty
  <1> QED
    BY InitTypeOK, NextTypeOK, <1>1, NextStaleOnlyByRace, PTL DEF Spec

=============================================================================
