--------------------------- MODULE StartupProofs ----------------------------
(***************************************************************************)
(* Theorems about Startup, for every number of servers and of runs of the  *)
(* script, and for every list of statements that StartupAssumption admits. *)
(***************************************************************************)
EXTENDS Startup, SequenceTheorems, TLAPS

(* The steps of a run that has been through InitPostgres, and of one that  *)
(* has found the table of versions.                                        *)
Migrating == {"check", "begin", "exec", "insert", "commit"}
Applying == {"begin", "exec", "insert", "commit"}

AllTables == \A i \in DOMAIN CreateTables : Exists(CreateTables[i].makes)

(* What a process relies on: the statements it has been through have made  *)
(* their objects, and what a run has skipped or applied is recorded.  An   *)
(* open transaction has made nothing.                                      *)
ProcInv(p) ==
    /\ \A i \in DOMAIN CreateTables :
          i < stmt[p] => Exists(CreateTables[i].makes)
    /\ p \in Scripts =>
          /\ pc[p] \in Migrating => AllTables
          /\ pc[p] \in Applying => Exists(VersionTable)
          /\ made[p] = {}
          /\ \A v \in Versions : v < version[p] => v \in recorded

Inv ==
    /\ TypeOK
    /\ MigrationsCreateNothing
    /\ RecordedInOrder
    /\ \A p \in Procs : ProcInv(p)

(* The database only grows.                                                *)
Grows ==
    /\ \A o \in Objects : Exists(o) => Exists(o)'
    /\ recorded \subseteq recorded'

Same(p) ==
    /\ pc'[p] = pc[p] /\ stmt'[p] = stmt[p]
    /\ p \in Scripts => made'[p] = made[p] /\ version'[p] = version[p]

-----------------------------------------------------------------------------
LEMMA Lists ==
    /\ 1 \in 1 .. Len(CreateTables)
    /\ Len(CreateTables) \in Nat
    /\ DOMAIN CreateTables = 1 .. Len(CreateTables)
    /\ \A i \in DOMAIN CreateTables : CreateTables[i] \in Statements
    /\ 0 \in Versions
    /\ \A v \in Versions : v \in Nat
    /\ \A v \in Versions : v + 1 \in DOMAIN Migrations
    /\ \A v \in Versions : Migration(v) \in Statements
  <1>1. /\ Len(CreateTables) \in Nat /\ Len(CreateTables) # 0
        /\ Len(Migrations) \in Nat /\ Len(Migrations) # 0
    BY StartupAssumption, EmptySeq
  <1>2. /\ DOMAIN CreateTables = 1 .. Len(CreateTables)
        /\ \A i \in DOMAIN CreateTables : CreateTables[i] \in Statements
        /\ DOMAIN Migrations = 1 .. Len(Migrations)
        /\ \A i \in DOMAIN Migrations : Migrations[i] \in Statements
    BY StartupAssumption
  <1>3. \A v \in Versions : v \in Nat /\ v + 1 \in 1 .. Len(Migrations)
    BY <1>1 DEF Versions
  <1>4. 0 \in Versions /\ 1 \in 1 .. Len(CreateTables)
    BY <1>1 DEF Versions
  <1> QED
    BY <1>1, <1>2, <1>3, <1>4 DEF Migration

(* Whatever a migration makes is there when all the tables are.            *)
LEMMA NothingLeftToMake ==
    ASSUME AllTables, Exists(VersionTable), NEW v \in Versions
    PROVE  Exists(Migration(v).makes) /\ Migration(v).makes \in Objects
  <1>1. v + 1 \in DOMAIN Migrations /\ Migration(v) = Migrations[v + 1]
    BY Lists DEF Migration
  <1>2. Migration(v) \in Statements
    BY Lists
  <1> QED
    BY <1>1, <1>2, StartupAssumption DEF AllTables, Statements

LEMMA OthersKeep ==
    ASSUME NEW p, ProcInv(p), Same(p), Grows
    PROVE  ProcInv(p)'
  <1>1. \A i \in DOMAIN CreateTables : CreateTables[i].makes \in Objects
    BY Lists DEF Statements
  <1>2. VersionTable \in Objects
    BY StartupAssumption
  <1>3. AllTables => AllTables'
    BY <1>1 DEF AllTables, Grows
  <1> QED
    BY <1>1, <1>2, <1>3 DEF ProcInv, Same, Grows

(* A process that is gone relies on nothing.                               *)
LEMMA GoneProc ==
    ASSUME TypeOK, \A q \in Procs : ProcInv(q), NEW p \in Procs, Gone(p), Grows
    PROVE  /\ pc' \in [Procs -> Steps] /\ pool' \in [Procs -> BOOLEAN]
           /\ stmt' \in [Procs -> 1 .. Len(CreateTables)]
           /\ version' \in [Scripts -> Versions]
           /\ made' \in [Scripts -> SUBSET Objects]
           /\ loader' \in [Servers -> BOOLEAN]
           /\ \A q \in Procs : ProcInv(q)'
  <1>1. /\ pc' \in [Procs -> Steps] /\ pool' \in [Procs -> BOOLEAN]
        /\ stmt' \in [Procs -> 1 .. Len(CreateTables)]
    BY Lists DEF TypeOK, Gone, To, Steps
  <1>2. /\ version' \in [Scripts -> Versions]
        /\ made' \in [Scripts -> SUBSET Objects]
        /\ loader' \in [Servers -> BOOLEAN]
    BY Lists DEF TypeOK, Gone
  <1>3. ASSUME NEW q \in Procs PROVE ProcInv(q)'
    <2>1. CASE q = p
      <3>1. pc'[p] = "off" /\ stmt'[p] = 1
        BY DEF TypeOK, Gone, To
      <3>2. p \in Scripts => version'[p] = 0 /\ made'[p] = {}
        BY DEF Gone
      <3>3. \A i \in DOMAIN CreateTables : ~(i < 1)
        BY Lists
      <3>4. \A v \in Versions : ~(v < 0)
        BY Lists
      <3> QED
        BY <2>1, <3>1, <3>2, <3>3, <3>4 DEF ProcInv, Migrating, Applying
    <2>2. CASE q # p
      <3>1. Same(q)
        BY <2>2 DEF TypeOK, Gone, To, Same
      <3> QED
        BY <3>1, OthersKeep
    <2> QED
      BY <2>1, <2>2
  <1> QED
    BY <1>1, <1>2, <1>3

LEMMA GoneInv ==
    ASSUME Inv, NEW p \in Procs, Gone(p), UNCHANGED <<origin, recorded>>
    PROVE  Inv'
  <1>1. Grows
    BY DEF Grows, Exists
  <1>2. /\ origin' \in [Objects -> Origins] /\ recorded' \subseteq Versions
        /\ MigrationsCreateNothing' /\ RecordedInOrder'
    BY DEF Inv, TypeOK, MigrationsCreateNothing, RecordedInOrder, Exists
  <1> QED
    BY <1>1, <1>2, GoneProc DEF Inv, TypeOK

(* A process that only moves on.                                           *)
LEMMA MovesInv ==
    ASSUME Inv, TypeOK', NEW p \in Procs, NEW step, To(p, step),
           UNCHANGED <<origin, recorded, stmt, script>>,
           p \in Scripts =>
             /\ step \in Migrating => AllTables
             /\ step \in Applying => Exists(VersionTable)
    PROVE  Inv'
  <1>1. MigrationsCreateNothing' /\ RecordedInOrder' /\ Grows
    BY DEF Inv, MigrationsCreateNothing, RecordedInOrder, Grows, Exists
  <1>2. made' = made /\ version' = version
    BY DEF script
  <1>3. ASSUME NEW q \in Procs PROVE ProcInv(q)'
    <2>1. CASE q = p
      <3>1. pc'[p] = step
        BY DEF Inv, TypeOK, To
      <3> QED
        BY <2>1, <3>1, <1>2 DEF Inv, ProcInv, AllTables, Exists
    <2>2. CASE q # p
      <3>1. Same(q)
        BY <2>2, <1>2 DEF Inv, TypeOK, To, Same
      <3> QED
        BY <3>1, <1>1, OthersKeep DEF Inv
    <2> QED
      BY <2>1, <2>2
  <1> QED
    BY <1>1, <1>3 DEF Inv

LEMMA ProceedInv ==
    ASSUME Inv, NEW p \in Procs, NEW step \in Steps, Proceed(p, step),
           UNCHANGED <<origin, recorded>>,
           p \in Scripts =>
             /\ step \in Migrating => AllTables
             /\ step \in Applying => Exists(VersionTable)
    PROVE  Inv'
  <1>1. TypeOK'
    BY DEF Inv, TypeOK, Proceed, To, script
  <1> QED
    BY <1>1, MovesInv DEF Proceed

(* What becomes of the processes when InitPostgres fails.                  *)
LEMMA InitFailsProc ==
    ASSUME TypeOK, \A q \in Procs : ProcInv(q), NEW p \in Procs, InitFails(p),
           Grows
    PROVE  /\ pc' \in [Procs -> Steps] /\ pool' \in [Procs -> BOOLEAN]
           /\ stmt' \in [Procs -> 1 .. Len(CreateTables)]
           /\ version' \in [Scripts -> Versions]
           /\ made' \in [Scripts -> SUBSET Objects]
           /\ loader' \in [Servers -> BOOLEAN]
           /\ \A q \in Procs : ProcInv(q)'
  <1>1. CASE p \in Servers
    <2>1. /\ To(p, "prepare")
          /\ stmt' = stmt /\ pool' = pool /\ loader' = loader
          /\ version' = version /\ made' = made
      BY <1>1 DEF InitFails, ServerFails, script
    <2>2. ASSUME NEW q \in Procs PROVE ProcInv(q)'
      <3>1. CASE q = p
        <4>1. p \notin Scripts
          BY <1>1, StartupAssumption
        <4>2. \A i \in DOMAIN CreateTables : CreateTables[i].makes \in Objects
          BY Lists DEF Statements
        <4> QED
          BY <3>1, <4>1, <4>2, <2>1 DEF ProcInv, Grows
      <3>2. CASE q # p
        <4>1. Same(q)
          BY <3>2, <2>1 DEF TypeOK, To, Same
        <4> QED
          BY <4>1, OthersKeep
      <3> QED
        BY <3>1, <3>2
    <2> QED
      BY <2>1, <2>2 DEF TypeOK, To, Steps
  <1>2. CASE p \notin Servers
    BY <1>2, GoneProc DEF InitFails, ScriptFails
  <1> QED
    BY <1>1, <1>2

LEMMA InitFailsInv ==
    ASSUME Inv, NEW p \in Procs, InitFails(p), UNCHANGED <<origin, recorded>>
    PROVE  Inv'
  <1>1. Grows
    BY DEF Grows, Exists
  <1>2. /\ origin' \in [Objects -> Origins] /\ recorded' \subseteq Versions
        /\ MigrationsCreateNothing' /\ RecordedInOrder'
    BY DEF Inv, TypeOK, MigrationsCreateNothing, RecordedInOrder, Exists
  <1> QED
    BY <1>1, <1>2, InitFailsProc DEF Inv, TypeOK

-----------------------------------------------------------------------------
(* A statement of createTables: the one step that makes an object.         *)
LEMMA CreateNextInv ==
    ASSUME Inv, NEW p \in Procs, CreateNext(p)
    PROVE  Inv'
  <1> DEFINE st == CreateTables[stmt[p]]
  <1>0. stmt[p] \in DOMAIN CreateTables /\ st.makes \in Objects
    BY Lists DEF Inv, TypeOK, Statements
  <1>1. CASE InitFails(p) /\ UNCHANGED origin
    BY <1>1, InitFailsInv DEF CreateNext
  <1>2. ASSUME origin' = With(st.makes, "createTables"),
               NextStatement(p) \/ InitFails(p)
        PROVE  Inv'
    <2>1. \A o \in Objects : Exists(o) \/ o = st.makes => Exists(o)'
      BY <1>2, <1>0 DEF With, Exists, Inv, TypeOK
    <2>2. Grows
      BY <2>1 DEF Grows, CreateNext
    <2>3. origin' \in [Objects -> Origins] /\ recorded' \subseteq Versions
      BY <1>2 DEF With, CreateNext, Inv, TypeOK, Origins
    <2>4. MigrationsCreateNothing'
      BY <1>2 DEF With, Inv, TypeOK, MigrationsCreateNothing
    <2>5. RecordedInOrder'
      <3>1. \A v \in recorded : Migration(v).makes \in Objects
        BY Lists DEF Inv, TypeOK, Statements
      <3> QED
        BY <3>1, <2>1 DEF Inv, RecordedInOrder, CreateNext
    <2>6. CASE InitFails(p)
      BY <2>2, <2>3, <2>4, <2>5, <2>6, InitFailsProc DEF Inv, TypeOK
    <2>7. CASE NextStatement(p)
      <3>1. /\ pool' = pool /\ loader' = loader
            /\ version' = version /\ made' = made
        BY <2>7 DEF NextStatement, Proceed, script
      <3>2. CASE stmt[p] < Len(CreateTables)
        <4>1. stmt' = [stmt EXCEPT ![p] = @ + 1] /\ pc' = pc
          BY <2>7, <3>2 DEF NextStatement
        <4>2. stmt[p] + 1 \in 1 .. Len(CreateTables)
          BY <3>2, Lists DEF Inv, TypeOK
        <4>3. TypeOK'
          BY <4>1, <4>2, <3>1, <2>3 DEF Inv, TypeOK
        <4>4. ASSUME NEW q \in Procs PROVE ProcInv(q)'
          <5>1. CASE q = p
            <6>1. \A i \in DOMAIN CreateTables :
                    i < stmt[p] + 1 => i < stmt[p] \/ i = stmt[p]
              BY Lists DEF Inv, TypeOK
            <6>2. \A i \in DOMAIN CreateTables : CreateTables[i].makes \in Objects
              BY Lists DEF Statements
            <6>3. \A i \in DOMAIN CreateTables :
                    i < stmt'[p] => Exists(CreateTables[i].makes)'
              BY <6>1, <6>2, <4>1, <2>1 DEF Inv, ProcInv, TypeOK
            <6>4. pc[p] = "tables" /\ pc'[p] = "tables"
              BY <4>1 DEF CreateNext
            <6> QED
              BY <5>1, <6>3, <6>4, <3>1, <2>2
                 DEF Inv, ProcInv, Migrating, Applying, Grows
          <5>2. CASE q # p
            <6>1. Same(q)
              BY <5>2, <4>1, <3>1 DEF Inv, TypeOK, Same
            <6> QED
              BY <6>1, <2>2, OthersKeep DEF Inv
          <5> QED
            BY <5>1, <5>2
        <4> QED
          BY <4>3, <4>4, <2>4, <2>5 DEF Inv
      <3>3. CASE ~(stmt[p] < Len(CreateTables))
        <4>1. /\ To(p, IF p \in Servers THEN "prepare" ELSE "check")
              /\ stmt' = stmt
          BY <2>7, <3>3 DEF NextStatement, Proceed
        <4>2. TypeOK'
          BY <4>1, <3>1, <2>3 DEF Inv, TypeOK, To, Steps
        <4>3. AllTables'
          <5>1. \A i \in DOMAIN CreateTables : i < stmt[p] \/ i = stmt[p]
            BY <3>3, Lists DEF Inv, TypeOK
          <5>2. \A i \in DOMAIN CreateTables : CreateTables[i].makes \in Objects
            BY Lists DEF Statements
          <5> QED
            BY <5>1, <5>2, <2>1 DEF Inv, ProcInv, AllTables
        <4>4. ASSUME NEW q \in Procs PROVE ProcInv(q)'
          <5>1. CASE q = p
            <6>1. pc'[p] \in {"prepare", "check"}
              BY <4>1 DEF Inv, TypeOK, To
            <6> QED
              BY <5>1, <6>1, <4>1, <4>3, <3>1, <2>2
                 DEF Inv, ProcInv, Applying, AllTables, Grows
          <5>2. CASE q # p
            <6>1. Same(q)
              BY <5>2, <4>1, <3>1 DEF Inv, TypeOK, To, Same
            <6> QED
              BY <6>1, <2>2, OthersKeep DEF Inv
          <5> QED
            BY <5>1, <5>2
        <4> QED
          BY <4>2, <4>4, <2>4, <2>5 DEF Inv
      <3> QED
        BY <3>2, <3>3
    <2> QED
      BY <1>2, <2>6, <2>7
  <1> QED
    BY <1>1, <1>2 DEF CreateNext

-----------------------------------------------------------------------------
(* The script goes on once the version at hand is recorded.                *)
LEMMA NextVersionProc ==
    ASSUME TypeOK, \A q \in Procs : ProcInv(q), NEW m \in Scripts,
           pc[m] \in Migrating, NextVersion(m), version[m] \in recorded', Grows
    PROVE  /\ pc' \in [Procs -> Steps] /\ pool' \in [Procs -> BOOLEAN]
           /\ stmt' \in [Procs -> 1 .. Len(CreateTables)]
           /\ version' \in [Scripts -> Versions]
           /\ made' \in [Scripts -> SUBSET Objects]
           /\ loader' \in [Servers -> BOOLEAN]
           /\ \A q \in Procs : ProcInv(q)'
  <1>0. m \in Procs
    BY DEF Procs
  <1>1. CASE version[m] + 1 \in Versions
    <2>1. /\ version' = [version EXCEPT ![m] = @ + 1]
          /\ pc' = [pc EXCEPT ![m] = "check"]
          /\ made' = [made EXCEPT ![m] = {}]
          /\ pool' = pool /\ stmt' = stmt /\ loader' = loader
      BY <1>1 DEF NextVersion, To
    <2>2. ASSUME NEW q \in Procs PROVE ProcInv(q)'
      <3>1. CASE q = m
        <4>1. pc'[m] = "check" /\ made'[m] = {} /\ version'[m] = version[m] + 1
          BY <2>1, <1>0 DEF TypeOK
        <4>2. AllTables'
          <5>1. AllTables
            BY <1>0 DEF ProcInv
          <5>2. \A i \in DOMAIN CreateTables : CreateTables[i].makes \in Objects
            BY Lists DEF Statements
          <5> QED
            BY <5>1, <5>2 DEF AllTables, Grows
        <4>3. \A i \in DOMAIN CreateTables : Exists(CreateTables[i].makes)'
          BY <4>2 DEF AllTables
        <4>4. \A v \in Versions :
                v < version[m] + 1 => v < version[m] \/ v = version[m]
          BY Lists DEF TypeOK
        <4>5. \A v \in Versions : v < version'[m] => v \in recorded'
          BY <4>1, <4>4, <1>0 DEF ProcInv, Grows
        <4> QED
          BY <3>1, <4>1, <4>2, <4>3, <4>5 DEF ProcInv, Applying
      <3>2. CASE q # m
        <4>1. Same(q)
          BY <3>2, <2>1 DEF TypeOK, Same
        <4> QED
          BY <4>1, OthersKeep
      <3> QED
        BY <3>1, <3>2
    <2> QED
      BY <1>1, <2>1, <2>2 DEF TypeOK, Steps
  <1>2. CASE version[m] + 1 \notin Versions
    BY <1>0, <1>2, GoneProc DEF NextVersion
  <1> QED
    BY <1>1, <1>2

LEMMA CheckInv ==
    ASSUME Inv, NEW m \in Scripts, Check(m)
    PROVE  Inv'
  <1>0. m \in Procs
    BY DEF Procs
  <1>1. CASE ScriptFails(m)
    BY <1>0, <1>1, GoneInv DEF ScriptFails, Check
  <1>2. CASE Exists(VersionTable) /\ version[m] \notin recorded /\ Proceed(m, "begin")
    <2>1. AllTables
      BY <1>0 DEF Inv, ProcInv, Check, Migrating
    <2>2. "begin" \in Steps /\ UNCHANGED <<origin, recorded>>
      BY DEF Steps, Check
    <2> QED
      BY <1>0, <1>2, <2>1, <2>2, ProceedInv
  <1>3. CASE version[m] \in recorded /\ NextVersion(m)
    <2>1. /\ Grows /\ version[m] \in recorded'
          /\ origin' \in [Objects -> Origins] /\ recorded' \subseteq Versions
          /\ MigrationsCreateNothing' /\ RecordedInOrder'
      BY <1>3 DEF Check, Grows, Exists, Inv, TypeOK, MigrationsCreateNothing,
                  RecordedInOrder
    <2>2. pc[m] \in Migrating
      BY DEF Check, Migrating
    <2> QED
      BY <1>3, <2>1, <2>2, NextVersionProc DEF Inv, TypeOK
  <1> QED
    BY <1>1, <1>2, <1>3 DEF Check

(* What the migration at hand would make is there already.                 *)
LEMMA ExecInv ==
    ASSUME Inv, NEW m \in Scripts, Exec(m)
    PROVE  Inv'
  <1>0. m \in Procs
    BY DEF Procs
  <1>1. CASE ScriptFails(m)
    BY <1>0, <1>1, GoneInv DEF ScriptFails, Exec
  <1>2. CASE ~ScriptFails(m)
    <2>1. AllTables /\ Exists(VersionTable) /\ made[m] = {}
      BY <1>0 DEF Inv, ProcInv, Exec, Migrating, Applying
    <2>2. Exists(Migration(version[m]).makes)
      BY <2>1, NothingLeftToMake DEF Inv, TypeOK
    <2>3. /\ made' = [made EXCEPT ![m] = {}]
          /\ To(m, "insert")
          /\ UNCHANGED <<pool, stmt, version, loader, origin, recorded>>
      BY <1>2, <2>2 DEF Exec
    <2>4. made' = made
      BY <2>1, <2>3 DEF Inv, TypeOK
    <2> QED
      BY <1>0, <2>1, <2>3, <2>4, MovesInv
         DEF Inv, TypeOK, To, Steps, script
  <1> QED
    BY <1>1, <1>2

(* Nothing is made; the version at hand is the next one.                   *)
LEMMA CommitInv ==
    ASSUME Inv, NEW m \in Scripts, Commit(m)
    PROVE  Inv'
  <1>0. m \in Procs
    BY DEF Procs
  <1>1. CASE ScriptFails(m) /\ UNCHANGED <<origin, recorded>>
    BY <1>0, <1>1, GoneInv DEF ScriptFails
  <1>2. ASSUME recorded' = recorded \cup {version[m]},
               origin' = [o \in Objects |-> IF o \in made[m] THEN "migration"
                                            ELSE origin[o]],
               NextVersion(m) \/ ScriptFails(m)
        PROVE  Inv'
    <2>1. /\ AllTables /\ Exists(VersionTable) /\ made[m] = {}
          /\ \A v \in Versions : v < version[m] => v \in recorded
          /\ pc[m] \in Migrating
      BY <1>0 DEF Inv, ProcInv, Commit, Migrating, Applying
    <2>2. version[m] \in Versions
      BY DEF Inv, TypeOK
    <2>3. origin' = origin
      BY <1>2, <2>1 DEF Inv, TypeOK
    <2>4. Grows /\ version[m] \in recorded'
      BY <1>2, <2>3 DEF Grows, Exists
    <2>5. /\ origin' \in [Objects -> Origins] /\ recorded' \subseteq Versions
          /\ MigrationsCreateNothing'
      BY <1>2, <2>2, <2>3 DEF Inv, TypeOK, MigrationsCreateNothing
    <2>6. 0 .. version[m] \subseteq recorded'
      <3>1. \A v \in 0 .. version[m] :
              v \in Versions /\ (v < version[m] \/ v = version[m])
        BY <2>2 DEF Versions
      <3> QED
        BY <3>1, <2>1, <1>2
    <2>7. RecordedInOrder'
      <3>1. Exists(Migration(version[m]).makes)
        BY <2>1, <2>2, NothingLeftToMake
      <3>2. \A v \in recorded' : 0 .. v \subseteq recorded'
        BY <2>6, <1>2 DEF Inv, RecordedInOrder
      <3>3. \A v \in recorded' : Exists(Migration(v).makes)
        BY <3>1, <1>2 DEF Inv, RecordedInOrder
      <3> QED
        BY <3>2, <3>3, <2>3 DEF RecordedInOrder, Exists
    <2>8. CASE ScriptFails(m)
      BY <1>0, <2>4, <2>5, <2>7, <2>8, GoneProc DEF ScriptFails, Inv, TypeOK
    <2>9. CASE NextVersion(m)
      BY <2>1, <2>4, <2>5, <2>7, <2>9, NextVersionProc DEF Inv, TypeOK
    <2> QED
      BY <1>2, <2>8, <2>9
  <1> QED
    BY <1>1, <1>2 DEF Commit

-----------------------------------------------------------------------------
LEMMA InitInv == Init => Inv
  <1> SUFFICES ASSUME Init PROVE Inv
    OBVIOUS
  <1>1. TypeOK
    <2>1. VersionTable \in Objects
      BY StartupAssumption
    <2> QED
      BY <2>1, Lists DEF Init, TypeOK, Origins, Steps
  <1>2. MigrationsCreateNothing /\ RecordedInOrder
    BY DEF Init, MigrationsCreateNothing, RecordedInOrder
  <1>3. ASSUME NEW p \in Procs PROVE ProcInv(p)
    <2>1. \A i \in DOMAIN CreateTables : ~(i < 1)
      BY Lists
    <2>2. \A v \in Versions : ~(v < 0)
      BY Lists
    <2> QED
      BY <2>1, <2>2 DEF Init, ProcInv, Migrating, Applying
  <1> QED
    BY <1>1, <1>2, <1>3 DEF Inv

LEMMA ServeInv ==
    ASSUME Inv, NEW s \in Servers, Serve(s)
    PROVE  Inv'
  <1>0. s \in Procs /\ s \notin Scripts
    BY StartupAssumption DEF Procs
  <1>1. CASE StartServer(s)
    <2>1. PICK step \in {"connect", "prepare"} : To(s, step)
      BY <1>1 DEF StartServer
    <2> QED
      BY <1>0, <1>1, <2>1, ProceedInv DEF StartServer, Proceed, Steps
  <1>2. CASE Prepare(s)
    <2>1. TypeOK'
      BY <1>2 DEF Prepare, Inv, TypeOK, To, Steps, script
    <2> QED
      BY <1>0, <1>2, <2>1, MovesInv DEF Prepare
  <1>3. CASE Load(s)
    <2>1. CASE pool[s]
      <3>1. /\ loader' = [loader EXCEPT ![s] = FALSE]
            /\ UNCHANGED <<origin, recorded, pc, pool, stmt, version, made>>
        BY <1>3, <2>1 DEF Load, script
      <3>2. TypeOK' /\ To(s, pc[s])
        BY <3>1 DEF Inv, TypeOK, To
      <3> QED
        BY <1>0, <3>1, <3>2, MovesInv DEF script
    <2>2. CASE ~pool[s]
      BY <1>0, <1>3, <2>2, GoneInv DEF Load
    <2> QED
      BY <2>1, <2>2
  <1>4. CASE Listen(s)
    <2>1. "serve" \in Steps
      BY DEF Steps
    <2> QED
      BY <1>0, <1>4, <2>1, GoneInv, ProceedInv DEF Listen
  <1> QED
    BY <1>1, <1>2, <1>3, <1>4 DEF Serve

LEMMA MigrateInv ==
    ASSUME Inv, NEW m \in Scripts, Migrate(m)
    PROVE  Inv'
  <1>0. m \in Procs
    BY DEF Procs
  <1>1. CASE StartScript(m)
    <2>1. "connect" \in Steps /\ "connect" \notin Migrating /\ "connect" \notin Applying
      BY DEF Steps, Migrating, Applying
    <2> QED
      BY <1>0, <1>1, <2>1, ProceedInv DEF StartScript, Proceed
  <1>2. CASE Begin(m)
    <2>1. CASE ScriptFails(m)
      BY <1>0, <1>2, <2>1, GoneInv DEF Begin, ScriptFails
    <2>2. CASE Proceed(m, "exec")
      <3>1. AllTables /\ Exists(VersionTable) /\ "exec" \in Steps
        BY <1>0, <1>2 DEF Begin, Inv, ProcInv, Migrating, Applying, Steps
      <3> QED
        BY <1>0, <1>2, <2>2, <3>1, ProceedInv DEF Begin
    <2> QED
      BY <1>2, <2>1, <2>2 DEF Begin
  <1>3. CASE Insert(m)
    <2>1. CASE ScriptFails(m)
      BY <1>0, <1>3, <2>1, GoneInv DEF Insert, ScriptFails
    <2>2. CASE Proceed(m, "commit")
      <3>1. AllTables /\ Exists(VersionTable) /\ "commit" \in Steps
        BY <1>0, <1>3 DEF Insert, Inv, ProcInv, Migrating, Applying, Steps
      <3> QED
        BY <1>0, <1>3, <2>2, <3>1, ProceedInv DEF Insert
    <2> QED
      BY <1>3, <2>1, <2>2 DEF Insert
  <1> QED
    BY <1>1, <1>2, <1>3, CheckInv, ExecInv, CommitInv DEF Migrate

LEMMA OpenInv ==
    ASSUME Inv, NEW p \in Procs, Open(p)
    PROVE  Inv'
  <1>1. CASE Connect(p)
    <2>1. CASE InitFails(p)
      BY <1>1, <2>1, InitFailsInv DEF Connect
    <2>2. CASE ~InitFails(p)
      <3>1. /\ To(p, "ping") /\ pool' = [pool EXCEPT ![p] = TRUE]
            /\ UNCHANGED <<origin, recorded, stmt, script, loader>>
        BY <1>1, <2>2 DEF Connect
      <3>2. TypeOK'
        BY <3>1 DEF Inv, TypeOK, To, Steps, script
      <3>3. "ping" \notin Migrating /\ "ping" \notin Applying
        BY DEF Migrating, Applying
      <3> QED
        BY <3>1, <3>2, <3>3, MovesInv
    <2> QED
      BY <2>1, <2>2
  <1>2. CASE Ping(p)
    <2>1. "tables" \in Steps /\ "tables" \notin Migrating /\ "tables" \notin Applying
      BY DEF Steps, Migrating, Applying
    <2> QED
      BY <1>2, <2>1, InitFailsInv, ProceedInv DEF Ping
  <1>3. CASE Kill(p)
    BY <1>3, GoneInv DEF Kill
  <1> QED
    BY <1>1, <1>2, <1>3, CreateNextInv DEF Open

LEMMA NextInv == Inv /\ [Next]_vars => Inv'
  <1> SUFFICES ASSUME Inv, [Next]_vars PROVE Inv'
    OBVIOUS
  <1>1. CASE UNCHANGED vars
    BY <1>1 DEF vars, script, Inv, TypeOK, MigrationsCreateNothing,
                RecordedInOrder, ProcInv, AllTables, Exists
  <1> QED
    BY <1>1, ServeInv, MigrateInv, OpenInv DEF Next

LEMMA SpecInv == Spec => []Inv
  BY InitInv, NextInv, PTL DEF Spec

(* Every variable keeps its type, for all lists of statements.             *)
THEOREM TypeCorrect == Spec => []TypeOK
  <1>1. Inv => TypeOK
    BY DEF Inv
  <1> QED
    BY <1>1, SpecInv, PTL

(* No migration ever makes an object: the run that would apply it has made *)
(* all of them by InitPostgres, or needs the table it would make.          *)
THEOREM NothingMigrated == Spec => []MigrationsCreateNothing
  <1>1. Inv => MigrationsCreateNothing
    BY DEF Inv
  <1> QED
    BY <1>1, SpecInv, PTL

(* The recorded versions have no gap and what they make is there, however  *)
(* many runs of the script are under way, and wherever they end.           *)
THEOREM RecordsInOrder == Spec => []RecordedInOrder
  <1>1. Inv => RecordedInOrder
    BY DEF Inv
  <1> QED
    BY <1>1, SpecInv, PTL

=============================================================================
