---------------------------- MODULE TemplateStore ----------------------------
(***************************************************************************)
(* The database half of the TemplateManager (core/template/manager.go):    *)
(* developers save and delete templates in Postgres, renders read them     *)
(* through dbCache, an hourly goroutine empties the cache and loads it     *)
(* anew.  The mutex protects single accesses to dbCache; no operation      *)
(* holds it across its query.                                              *)
(*                                                                         *)
(* A template's content is told apart by its version: 0 means none.  The   *)
(* table developer_templates is created outside the repository; every      *)
(* query addresses a row by (developer_id, action), which is taken to be   *)
(* its unique key, and is_active to default to true.                       *)
(***************************************************************************)
EXTENDS Naturals

CONSTANTS Keys,        \* the (developer, action) pairs
          Clients,     \* goroutines that serve requests
          Loaders,     \* goroutines running loadTemplatesFromDB
          MaxVersion   \* bound on the saves of one template

ASSUME StoreAssumption == MaxVersion \in Nat \ {0}

VARIABLES
    row,       \* [Keys -> Row]: the table
    dbCache,   \* [Keys -> Versions]: m.dbCache
    client,    \* [Clients -> ClientState]
    loader,    \* [Loaders -> LoaderState]
    suspect    \* observation: keys whose entry was put into the cache after
               \* the row had changed, or outlived a write reported as failed

vars == <<row, dbCache, client, loader, suspect>>

Versions == 0 .. MaxVersion
Row == [version : Versions, active : BOOLEAN]
ClientState == [at : {"idle", "saving", "saved", "deleted", "reading", "filling"},
                key : Keys, seen : Versions]
LoaderState == [at : {"idle", "querying", "applying"},
                snapshot : [Keys -> Versions]]

Active(k) == IF row[k].active THEN row[k].version ELSE 0
Cached(k) == IF dbCache[k] # 0 THEN {k} ELSE {}
Empty == [k \in Keys |-> 0]

(* GetManager: the cache is empty and the first load is under way.         *)
Init ==
    /\ row \in [Keys -> {[version |-> 0, active |-> FALSE],
                         [version |-> 1, active |-> TRUE]}]
    /\ dbCache = Empty
    /\ client \in [Clients -> {s \in ClientState : s.at = "idle" /\ s.seen = 0}]
    /\ \E first \in Loaders :
         loader = [l \in Loaders |->
                     [at |-> IF l = first THEN "querying" ELSE "idle",
                      snapshot |-> Empty]]
    /\ suspect = {}

Go(c, at, k, seen) ==
    client' = [client EXCEPT ![c] = [at |-> at, key |-> k, seen |-> seen]]
Done(c) == Go(c, "idle", client[c].key, 0)

-----------------------------------------------------------------------------
(* SaveDeveloperTemplate.                                                  *)

(* Mutant of SaveCheck: the new content goes to the cache first.           *)
SaveCheckWritesThrough(c, k) ==
    /\ client[c].at = "idle"
    /\ row[k].version < MaxVersion
    /\ Go(c, "saving", k, row[k].version)
    /\ dbCache' = [dbCache EXCEPT ![k] = row[k].version + 1]
    /\ UNCHANGED <<row, loader, suspect>>

(* SELECT id: a query error counts as "no such row".                       *)
SaveCheck(c, k) ==
    /\ client[c].at = "idle"
    /\ \/ Go(c, "saving", k, row[k].version)
       \/ Go(c, "saving", k, 0)
    /\ UNCHANGED <<row, dbCache, loader, suspect>>

(* The UPDATE, or the INSERT when the check found no row.                  *)
Commits(k, existed) ==
    /\ existed <=> row[k].version > 0
    /\ row[k].version < MaxVersion
    /\ row' = [row EXCEPT ![k] = [version |-> @.version + 1, active |-> TRUE]]

SaveWrite(c) ==
    LET k == client[c].key IN
    /\ client[c].at = "saving"
    /\ Commits(k, client[c].seen > 0)
    /\ Go(c, "saved", k, 0)
    /\ UNCHANGED <<dbCache, loader, suspect>>

(* The statement fails (on the unique key, for one) or its answer is lost  *)
(* on the way: the row may have changed, and the cache keeps its entry.    *)
SaveFails(c) ==
    LET k == client[c].key IN
    /\ client[c].at = "saving"
    /\ \/ UNCHANGED <<row, suspect>>
       \/ /\ Commits(k, client[c].seen > 0)
          /\ suspect' = suspect \cup Cached(k)
    /\ Done(c)
    /\ UNCHANGED <<dbCache, loader>>

(* Mutant of Invalidate: the entry is left to the hourly refresh.          *)
InvalidateNot(c) ==
    /\ client[c].at \in {"saved", "deleted"}
    /\ Done(c)
    /\ UNCHANGED <<row, dbCache, loader, suspect>>

(* The last step of a save and of a delete.                                *)
Invalidate(c) ==
    LET k == client[c].key IN
    /\ client[c].at \in {"saved", "deleted"}
    /\ dbCache' = [dbCache EXCEPT ![k] = 0]
    /\ suspect' = suspect \ {k}
    /\ Done(c)
    /\ UNCHANGED <<row, loader>>

-----------------------------------------------------------------------------
(* DeleteDeveloperTemplate: a soft delete, then Invalidate.                *)

Deactivates(k) == row' = [row EXCEPT ![k].active = FALSE]

DeleteWrite(c, k) ==
    /\ client[c].at = "idle"
    /\ Deactivates(k)
    /\ Go(c, "deleted", k, 0)
    /\ UNCHANGED <<dbCache, loader, suspect>>

(* The statement reports an error, whether or not it took effect.          *)
DeleteFails(c, k) ==
    /\ client[c].at = "idle"
    /\ Deactivates(k)
    /\ suspect' = suspect \cup Cached(k)
    /\ UNCHANGED <<dbCache, client, loader>>

-----------------------------------------------------------------------------
(* getFromDB: a hit needs one step and changes nothing; this is a miss.    *)

GetMiss(c, k) ==
    /\ client[c].at = "idle"
    /\ dbCache[k] = 0
    /\ Go(c, "reading", k, 0)
    /\ UNCHANGED <<row, dbCache, loader, suspect>>

(* Mutant of GetRead: the error of a missing row is not looked at.         *)
GetReadUnchecked(c) ==
    /\ client[c].at = "reading"
    /\ Go(c, "filling", client[c].key, Active(client[c].key))
    /\ UNCHANGED <<row, dbCache, loader, suspect>>

(* No active row, or an error: the caller turns to the file templates.     *)
GetRead(c) ==
    LET k == client[c].key IN
    /\ client[c].at = "reading"
    /\ \/ Active(k) # 0 /\ Go(c, "filling", k, Active(k))
       \/ Done(c)
    /\ UNCHANGED <<row, dbCache, loader, suspect>>

GetFill(c) ==
    LET k == client[c].key
        v == client[c].seen IN
    /\ client[c].at = "filling"
    /\ dbCache' = [dbCache EXCEPT ![k] = v]
    /\ suspect' = IF v = Active(k) THEN suspect \ {k} ELSE suspect \cup {k}
    /\ Done(c)
    /\ UNCHANGED <<row, loader>>

-----------------------------------------------------------------------------
(* cleanupCache and loadTemplatesFromDB.  A load is over before as many    *)
(* hours have passed as there are loaders.                                 *)

(* Mutant of Cleanup: a reload over the old entries.                       *)
CleanupReloads(l) ==
    /\ loader[l].at = "idle"
    /\ loader' = [loader EXCEPT ![l].at = "querying"]
    /\ UNCHANGED <<row, dbCache, client, suspect>>

Cleanup(l) ==
    /\ loader[l].at = "idle"
    /\ dbCache' = Empty
    /\ suspect' = {}
    /\ loader' = [loader EXCEPT ![l].at = "querying"]
    /\ UNCHANGED <<row, client>>

LoadQuery(l) ==
    /\ loader[l].at = "querying"
    /\ \/ loader' = [loader EXCEPT ![l] =
                       [at |-> "applying",
                        snapshot |-> [k \in Keys |-> Active(k)]]]
       \/ loader' = [loader EXCEPT ![l].at = "idle"]
    /\ UNCHANGED <<row, dbCache, client, suspect>>

(* The rows are written under one hold of the mutex; a row that does not    *)
(* scan is passed over, and the rows may end early without a word.          *)
LoadApply(l) ==
    LET snap == loader[l].snapshot IN
    /\ loader[l].at = "applying"
    /\ \E got \in SUBSET {k \in Keys : snap[k] # 0} :
         /\ dbCache' = [k \in Keys |-> IF k \in got THEN snap[k] ELSE dbCache[k]]
         /\ suspect' = {k \in Keys : IF k \in got THEN snap[k] # Active(k)
                                                  ELSE k \in suspect}
    /\ loader' = [loader EXCEPT ![l] = [at |-> "idle", snapshot |-> Empty]]
    /\ UNCHANGED <<row, client>>

-----------------------------------------------------------------------------
ClientStarts(c, k) == \/ SaveCheck(c, k)   \/ DeleteWrite(c, k)
                      \/ DeleteFails(c, k) \/ GetMiss(c, k)
ClientStep(c) == \/ SaveWrite(c) \/ SaveFails(c) \/ Invalidate(c)
                 \/ GetRead(c)   \/ GetFill(c)
LoaderStep(l) == LoadQuery(l) \/ LoadApply(l)

Next ==
    \/ \E c \in Clients : ClientStep(c) \/ \E k \in Keys : ClientStarts(c, k)
    \/ \E l \in Loaders : LoaderStep(l) \/ Cleanup(l)

(* Requests need not come; those that have begun go on, and so does the    *)
(* hourly ticker.                                                          *)
Spec == /\ Init /\ [][Next]_vars
        /\ \A c \in Clients : WF_vars(ClientStep(c))
        /\ \A l \in Loaders : WF_vars(LoaderStep(l))
        /\ WF_vars(\E l \in Loaders : Cleanup(l))

-----------------------------------------------------------------------------
(* The variables hold values of their types; a client only fills the cache *)
(* with a row it has read.                                                 *)
TypeOK ==
    /\ row \in [Keys -> Row]
    /\ dbCache \in [Keys -> Versions]
    /\ client \in [Clients -> ClientState]
    /\ \A c \in Clients : client[c].at = "filling" => client[c].seen # 0
    /\ loader \in [Loaders -> LoaderState]
    /\ suspect \in SUBSET Keys

(* No render is given content that is not, or not yet, in the database:    *)
(* cache, readers and loaders hold committed versions only.                *)
NeverAhead ==
    /\ \A k \in Keys : dbCache[k] <= row[k].version
    /\ \A c \in Clients : client[c].seen <= row[client[c].key].version
    /\ \A l \in Loaders, k \in Keys : loader[l].snapshot[k] <= row[k].version

Stale(k) == dbCache[k] \notin {0, Active(k)}
Invalidating(k) ==
    \E c \in Clients : client[c].at \in {"saved", "deleted"} /\ client[c].key = k

(* A cache entry differs from the row only while a writer is about to      *)
(* delete it, or when a fill or a failed write raced with a writer: saves  *)
(* and deletes that nothing overlaps are seen by every later render.       *)
StaleOnlyByRace ==
    \A k \in Keys : Stale(k) => Invalidating(k) \/ k \in suspect

Writing == \E c \in Clients : client[c].at \in {"saving", "saved", "deleted"}

(* When nobody saves or deletes any more, the hourly refresh brings the    *)
(* cache in line with the table for good, whatever fills had raced before. *)
QuietBecomesCoherent ==
    (<>[]~Writing /\ <>[][UNCHANGED row]_vars)
        => <>[](\A k \in Keys : ~Stale(k))

=============================================================================
