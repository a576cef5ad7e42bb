------------------------------- MODULE Startup ------------------------------
(***************************************************************************)
(* Servers (main.go) and runs of scripts/migrate.go that start beside each *)
(* other on one database.  Both open the pool and create the tables with   *)
(* InitPostgres: a server goes on if that fails, the script gives up.  A   *)
(* server then loads the developers' templates in a goroutine and listens; *)
(* the script applies the migrations that are not recorded yet, each in a  *)
(* transaction.  A process can be killed anywhere and started again, and   *)
(* every answer of the database can be an error.                           *)
(*                                                                         *)
(* Left out: the columns; Redis and the mail providers, whose absence here *)
(* only logs a warning; what a server does once it listens.                *)
(*                                                                         *)
(* A pool without a MaxConns of at least 1 cannot be made: pgx's pool      *)
(* panics, and the process ends (Kill).  The script sets none              *)
(* (migrate.go:40-42), a server may.  The model lets both have a pool, so  *)
(* that it covers the rest of the script, and allows more than happens.    *)
(***************************************************************************)
EXTENDS Integers, Sequences

CONSTANTS
    Servers, Scripts,   \* processes
    Objects,            \* names of tables and indexes
    CreateTables,       \* the statements of createTables
    Migrations,         \* those of migrate.go: see Schema
    VersionTable        \* schema_migrations

Statements == [makes : Objects, needs : SUBSET Objects]

ASSUME StartupAssumption ==
    /\ Servers \cap Scripts = {}
    /\ CreateTables \in Seq(Statements) /\ CreateTables # << >>
    /\ Migrations \in Seq(Statements) /\ Migrations # << >>
    /\ VersionTable \in Objects
    /\ \A v \in DOMAIN Migrations :
         \/ Migrations[v].makes = VersionTable
         \/ \E i \in DOMAIN CreateTables :
              CreateTables[i].makes = Migrations[v].makes

(* The loop numbers the migrations from 0.                                 *)
Versions == 0 .. Len(Migrations) - 1
Migration(v) == Migrations[v + 1]

VARIABLES
    origin,    \* [Objects -> Origins]: who made it, of what is committed
    recorded,  \* the versions in schema_migrations
    pc,        \* [Procs -> Steps]
    pool,      \* [Procs -> BOOLEAN]: PostgresPool # nil
    stmt,      \* [Procs -> 1 .. Len(CreateTables)]: the next statement
    version,   \* [Scripts -> Versions]: the migration at hand
    made,      \* [Scripts -> SUBSET Objects]: by its open transaction
    loader     \* [Servers -> BOOLEAN]: loadTemplatesFromDB has not returned

script == <<version, made>>
vars == <<origin, recorded, pc, pool, stmt, script, loader>>

Procs == Servers \cup Scripts
Origins == {"nobody", "createTables", "migration", "operator"}
Steps == {"off", "connect", "ping", "tables", "prepare", "listen", "serve",
          "check", "begin", "exec", "insert", "commit"}

Exists(o) == origin[o] # "nobody"

Init ==
    /\ origin \in {[o \in Objects |-> "nobody"],
                   [o \in Objects |-> IF o = VersionTable
                                      THEN "operator" ELSE "nobody"]}
    /\ recorded = {}
    /\ pc = [p \in Procs |-> "off"]
    /\ pool = [p \in Procs |-> FALSE]
    /\ stmt = [p \in Procs |-> 1]
    /\ version = [m \in Scripts |-> 0]
    /\ made = [m \in Scripts |-> {}]
    /\ loader = [s \in Servers |-> FALSE]

To(p, step) == pc' = [pc EXCEPT ![p] = step]

(* The process is gone: log.Fatal, a panic, a kill, the end of main.  Its  *)
(* open transaction is rolled back.                                        *)
Gone(p) ==
    /\ To(p, "off")
    /\ pool' = [pool EXCEPT ![p] = FALSE]
    /\ stmt' = [stmt EXCEPT ![p] = 1]
    /\ version' = [m \in Scripts |-> IF m = p THEN 0 ELSE version[m]]
    /\ made' = [m \in Scripts |-> IF m = p THEN {} ELSE made[m]]
    /\ loader' = [s \in Servers |-> IF s = p THEN FALSE ELSE loader[s]]

Kill(p) ==
    /\ pc[p] # "off"
    /\ Gone(p)
    /\ UNCHANGED <<origin, recorded>>

-----------------------------------------------------------------------------
(* Starting.                                                               *)

(* loadConfig of a server, after which initDatabases leaves Postgres alone *)
(* without a URL.  An unreadable file ends the process as it began.        *)
StartServer(s) ==
    /\ pc[s] = "off"
    /\ To(s, "connect") \/ To(s, "prepare")
    /\ UNCHANGED <<origin, recorded, pool, stmt, script, loader>>

StartScript(m) ==
    /\ pc[m] = "off"
    /\ To(m, "connect")
    /\ UNCHANGED <<origin, recorded, pool, stmt, script, loader>>

(* initDatabases logs the error of InitPostgres and goes on.               *)
ServerFails(s) ==
    /\ To(s, "prepare")
    /\ UNCHANGED <<pool, stmt, script, loader>>

(* Mutant of ScriptFails: the script logs and goes on, as a server does.   *)
ScriptGoesOn(m) ==
    /\ To(m, "check")
    /\ made' = [made EXCEPT ![m] = {}]
    /\ UNCHANGED <<pool, stmt, version, loader>>

(* main of the script ends the process.                                    *)
ScriptFails(m) == Gone(m)

InitFails(p) == IF p \in Servers THEN ServerFails(p) ELSE ScriptFails(p)

Proceed(p, step) ==
    /\ To(p, step)
    /\ UNCHANGED <<pool, stmt, script, loader>>

(* InitPostgres: ConnectConfig leaves no pool behind when it fails.        *)
Connect(p) ==
    /\ pc[p] = "connect"
    /\ \/ /\ To(p, "ping")
          /\ pool' = [pool EXCEPT ![p] = TRUE]
          /\ UNCHANGED <<stmt, script, loader>>
       \/ InitFails(p)
    /\ UNCHANGED <<origin, recorded>>

Ping(p) ==
    /\ pc[p] = "ping"
    /\ Proceed(p, "tables") \/ InitFails(p)
    /\ UNCHANGED <<origin, recorded>>

(* A statement outside a transaction: another one's uncommitted object of  *)
(* the same name makes it wait, and fail or do nothing.                    *)
Free(o) == \A m \in Scripts : o \notin made[m]
Possible(st) == Exists(st.makes) \/ \A o \in st.needs : Exists(o)
With(o, by) == [origin EXCEPT ![o] = IF @ = "nobody" THEN by ELSE @]

NextStatement(p) ==
    IF stmt[p] < Len(CreateTables)
    THEN /\ stmt' = [stmt EXCEPT ![p] = @ + 1]
         /\ UNCHANGED <<pc, pool, script, loader>>
    ELSE Proceed(p, IF p \in Servers THEN "prepare" ELSE "check")

(* createTables stops at the first error, which may hide that the          *)
(* statement took effect.                                                  *)
CreateNext(p) ==
    /\ pc[p] = "tables"
    /\ LET st == CreateTables[stmt[p]] IN
         \/ /\ Free(st.makes)
            /\ Possible(st)
            /\ origin' = With(st.makes, "createTables")
            /\ NextStatement(p) \/ InitFails(p)
         \/ InitFails(p) /\ UNCHANGED origin
    /\ UNCHANGED recorded

-----------------------------------------------------------------------------
(* The rest of a server's main.                                            *)

(* GetManager starts the loader before the server listens.                 *)
Prepare(s) ==
    /\ pc[s] = "prepare"
    /\ loader' = [loader EXCEPT ![s] = TRUE]
    /\ To(s, "listen")
    /\ UNCHANGED <<origin, recorded, pool, stmt, script>>

(* Mutant of Load: no query without a pool.                                *)
LoadGuarded(s) ==
    /\ loader[s]
    /\ loader' = [loader EXCEPT ![s] = FALSE]
    /\ UNCHANGED <<origin, recorded, pc, pool, stmt, script>>

(* loadTemplatesFromDB: a query on a pool that is nil panics, and nothing  *)
(* recovers in this goroutine.                                             *)
Load(s) ==
    /\ loader[s]
    /\ IF pool[s]
       THEN /\ loader' = [loader EXCEPT ![s] = FALSE]
            /\ UNCHANGED <<pc, pool, stmt, script>>
       ELSE Gone(s)
    /\ UNCHANGED <<origin, recorded>>

Listen(s) ==
    /\ pc[s] = "listen"
    /\ Proceed(s, "serve") \/ Gone(s)
    /\ UNCHANGED <<origin, recorded>>

-----------------------------------------------------------------------------
(* runMigrations.  Every error makes the script roll back and end.         *)

(* Mutant of NextVersion: the loop does not end.                           *)
NextVersionOn(m) ==
    /\ version' = [version EXCEPT ![m] = @ + 1]
    /\ To(m, "check")
    /\ made' = [made EXCEPT ![m] = {}]
    /\ UNCHANGED <<pool, stmt, loader>>

NextVersion(m) ==
    IF version[m] + 1 \in Versions
    THEN /\ version' = [version EXCEPT ![m] = @ + 1]
         /\ To(m, "check")
         /\ made' = [made EXCEPT ![m] = {}]
         /\ UNCHANGED <<pool, stmt, loader>>
    ELSE Gone(m)

(* Mutant of Check: an error is taken for an answer.                       *)
CheckLax(m) ==
    /\ pc[m] = "check"
    /\ \/ /\ Exists(VersionTable)
          /\ version[m] \notin recorded
          /\ Proceed(m, "begin")
       \/ NextVersion(m)
    /\ UNCHANGED <<origin, recorded>>

(* The query needs the table that the first migration makes.               *)
Check(m) ==
    /\ pc[m] = "check"
    /\ \/ /\ Exists(VersionTable)
          /\ IF version[m] \in recorded THEN NextVersion(m)
                                        ELSE Proceed(m, "begin")
       \/ ScriptFails(m)
    /\ UNCHANGED <<origin, recorded>>

Begin(m) ==
    /\ pc[m] = "begin"
    /\ Proceed(m, "exec") \/ ScriptFails(m)
    /\ UNCHANGED <<origin, recorded>>

Exec(m) ==
    /\ pc[m] = "exec"
    /\ LET st == Migration(version[m]) IN
         \/ /\ Free(st.makes)
            /\ Possible(st)
            /\ made' = [made EXCEPT ![m] =
                          IF Exists(st.makes) THEN {} ELSE {st.makes}]
            /\ To(m, "insert")
            /\ UNCHANGED <<pool, stmt, version, loader>>
         \/ ScriptFails(m)
    /\ UNCHANGED <<origin, recorded>>

(* The primary key: a recorded version is an error, and the row that an    *)
(* open transaction has inserted makes this one wait for its end.          *)
Insert(m) ==
    /\ pc[m] = "insert"
    /\ \/ /\ version[m] \notin recorded
          /\ \A k \in Scripts \ {m} :
               pc[k] = "commit" => version[k] # version[m]
          /\ Proceed(m, "commit")
       \/ ScriptFails(m)
    /\ UNCHANGED <<origin, recorded>>

(* The error of a commit may hide that it took effect.                     *)
Commit(m) ==
    /\ pc[m] = "commit"
    /\ \/ /\ recorded' = recorded \cup {version[m]}
          /\ origin' = [o \in Objects |-> IF o \in made[m] THEN "migration"
                                                           ELSE origin[o]]
          /\ NextVersion(m) \/ ScriptFails(m)
       \/ ScriptFails(m) /\ UNCHANGED <<origin, recorded>>

Serve(s) == StartServer(s) \/ Prepare(s) \/ Load(s) \/ Listen(s)
Migrate(m) == \/ StartScript(m) \/ Check(m) \/ Begin(m) \/ Exec(m)
              \/ Insert(m) \/ Commit(m)
Open(p) == Connect(p) \/ Ping(p) \/ CreateNext(p) \/ Kill(p)

Next == \/ \E s \in Servers : Serve(s)
        \/ \E m \in Scripts : Migrate(m)
        \/ \E p \in Procs : Open(p)

Spec == Init /\ [][Next]_vars

(* Goroutines run.  Nothing is said of the processes or the database.      *)
FairSpec == Spec /\ \A s \in Servers : WF_vars(Load(s))

-----------------------------------------------------------------------------
(* Every variable has its type.                                            *)
TypeOK ==
    /\ origin \in [Objects -> Origins]
    /\ recorded \subseteq Versions
    /\ pc \in [Procs -> Steps]
    /\ pool \in [Procs -> BOOLEAN]
    /\ stmt \in [Procs -> 1 .. Len(CreateTables)]
    /\ version \in [Scripts -> Versions]
    /\ made \in [Scripts -> SUBSET Objects]
    /\ loader \in [Servers -> BOOLEAN]

(* No migration ever makes anything.  A script that gets beyond its        *)
(* InitPostgres has made each of their tables there, without the           *)
(* references the migrations would give them; and schema_migrations, which *)
(* createTables does not know, must be there before the migration that     *)
(* makes it is looked up.                                                  *)
MigrationsCreateNothing == \A o \in Objects : origin[o] # "migration"

(* Whatever runs beside each other and wherever a run ends: the recorded   *)
(* versions have no gap, and what a recorded version makes is there.       *)
RecordedInOrder ==
    \A v \in recorded :
       /\ 0 .. v \subseteq recorded
       /\ Exists(Migration(v).makes)

(* A server whose PostgresPool is nil, for want of a URL or because        *)
(* ConnectConfig failed, does not stay up, although its log only warns of  *)
(* it: the loader kills it.  One whose Ping or createTables has failed     *)
(* keeps its pool, and stays.                                              *)
NoPoolNoService ==
    \A s \in Servers : (pc[s] = "serve" /\ ~pool[s]) ~> pc[s] = "off"

=============================================================================
