-------------------------- MODULE SchemaMigration ---------------------------
(***************************************************************************)
(* store/sqlite.client.ts with schema.store.ts and migration.store.ts: how *)
(* the database file is brought up to the newest version at every start.   *)
(*                                                                         *)
(* The file is what the properties tell apart: the recorded version, for   *)
(* each table the version of its shape (0: there is none), the copy that   *)
(* widens the ledger's key, the indexes, and how many rows there are to    *)
(* lose.  A statement is an operation and its object.  The process may     *)
(* die, or a statement fail for want of space, between any two of them.    *)
(***************************************************************************)
EXTENDS Naturals, Sequences

CONSTANTS
    MaxFileRows,    \* rows of history, and of the ledger
    MaxDeaths    \* deaths of the process and failing statements

ASSUME StoreOptions == MaxFileRows \in Nat /\ MaxDeaths \in Nat

VARIABLES
    file,       \* what this process sees
    committed,  \* what is left when it dies
    stage,      \* where connect() is, or what the process does
    next,       \* the statement the stage has come to
    deaths

storeVars == <<file, committed, stage, next, deaths>>

BaselineVersion == 1
LatestVersion == 2
Table == {"meta", "measurement", "sighting", "audit", "host"}

-----------------------------------------------------------------------------
(* Statements                                                              *)

\* SchemaStore.statements(), each a transaction of its own.
Baseline == <<
    <<"table", "meta">>, <<"table", "measurement">>, <<"index", "volume_time">>,
    <<"table", "sighting">>, <<"table", "audit">>, <<"index", "audit_created">> >>

\* Mutant: the ledger is made anew, and its rows are not copied.
HostsForgetTheRows == <<
    <<"table", "host">>, <<"seedLocal", "host">>,
    <<"widen", "measurement">>, <<"widen", "audit">>,
    <<"dropIndex", "volume_time">>, <<"index", "host_volume_time">>, <<"index", "audit_host">>,
    <<"createCopy", "sighting">>, <<"drop", "sighting">>, <<"rename", "sighting">> >>

\* MIGRATION_V2_HOSTS: the host dimension.
Hosts == <<
    <<"table", "host">>, <<"seedLocal", "host">>,
    <<"widen", "measurement">>, <<"widen", "audit">>,
    <<"dropIndex", "volume_time">>, <<"index", "host_volume_time">>, <<"index", "audit_host">>,
    <<"createCopy", "sighting">>, <<"copyRows", "sighting">>, <<"drop", "sighting">>,
    <<"rename", "sighting">> >>

\* SQLite refuses to add a column, create or rename a table that is there, and
\* to read, fill or drop one that is not.
Rejected(f, s) ==
    \/ s[1] = "widen" /\ f.shape[s[2]] # 1
    \/ s[1] = "createCopy" /\ f.copy
    \/ s[1] = "copyRows" /\ (~ f.copy \/ f.shape[s[2]] = 0)
    \/ s[1] = "drop" /\ f.shape[s[2]] = 0
    \/ s[1] = "rename" /\ (~ f.copy \/ f.shape[s[2]] # 0)

Executed(f, s) ==
    CASE s[1] = "table" -> IF f.shape[s[2]] = 0 THEN [f EXCEPT !.shape[s[2]] = 1] ELSE f
      [] s[1] = "index" -> [f EXCEPT !.indexes = @ \cup {s[2]}]
      [] s[1] = "dropIndex" -> [f EXCEPT !.indexes = @ \ {s[2]}]
      [] s[1] = "seedLocal" -> [f EXCEPT !.local = TRUE]
      [] s[1] = "widen" -> [f EXCEPT !.shape[s[2]] = 2]
      [] s[1] = "createCopy" -> [f EXCEPT !.copy = TRUE]
      [] s[1] = "copyRows" -> [f EXCEPT !.copied = f.ledger]
      [] s[1] = "drop" -> [f EXCEPT !.shape[s[2]] = 0, !.ledger = 0]
      [] s[1] = "rename" -> [f EXCEPT !.shape[s[2]] = 2, !.ledger = f.copied,
                                      !.copy = FALSE, !.copied = 0]

-----------------------------------------------------------------------------
\* A file as version 1 of the program leaves it: with its version or, from
\* before versions were recorded, without; and no file at all.
Released(version, rows) ==
    LET there == version > 0 \/ rows > 0 IN
    [version |-> version,
     shape |-> [t \in Table |-> IF there /\ t # "host" THEN 1 ELSE 0],
     local |-> FALSE, copy |-> FALSE, copied |-> 0,
     indexes |-> IF there THEN {"volume_time", "audit_created"} ELSE {},
     history |-> rows, ledger |-> rows]

StoreInit ==
    /\ \E version \in {0, BaselineVersion}, rows \in 0 .. MaxFileRows : file = Released(version, rows)
    /\ committed = file
    /\ stage = "down" /\ next = 1
    /\ deaths = 0

\* connect(): at boot, or by the first statement after close().
ConnectStore ==
    /\ stage \in {"down", "closed", "rejected"}
    /\ stage' = "baseline" /\ next' = 1
    /\ file' = committed
    /\ UNCHANGED <<committed, deaths>>

\* A statement the file does not admit ends the start, as its exception does.
Statement(s) ==
    IF Rejected(file, s) THEN stage' = "rejected" /\ UNCHANGED <<file, next>>
    ELSE file' = Executed(file, s) /\ next' = next + 1 /\ UNCHANGED stage

RunBaseline ==
    /\ stage = "baseline" /\ next <= Len(Baseline)
    /\ Statement(Baseline[next])
    /\ committed' = file'
    /\ UNCHANGED deaths

\* MigrationStore.pending
Pending(applied) == applied < LatestVersion

\* Mutant: nothing is pending for a new file, hence it is up to date.
StampLatest ==
    /\ stage = "baseline" /\ next > Len(Baseline)
    /\ file' = IF file.version = 0 THEN [file EXCEPT !.version = LatestVersion] ELSE file
    /\ committed' = file'
    /\ stage' = IF Pending(file'.version) THEN "migrating" ELSE "ready"
    /\ next' = 1
    /\ UNCHANGED deaths

\* The version is read after the baseline ran; a file without one is at 1.
Stamp ==
    /\ stage = "baseline" /\ next > Len(Baseline)
    /\ file' = IF file.version = 0 THEN [file EXCEPT !.version = BaselineVersion] ELSE file
    /\ committed' = file'
    /\ stage' = IF Pending(file'.version) THEN "migrating" ELSE "ready"
    /\ next' = 1
    /\ UNCHANGED deaths

\* Mutant: each statement of the migration is committed as it runs.
MigrateAutocommit ==
    /\ stage = "migrating" /\ next <= Len(Hosts)
    /\ Statement(Hosts[next])
    /\ committed' = file'
    /\ UNCHANGED deaths

\* Inside BEGIN: nothing is left of it before COMMIT.
Migrate ==
    /\ stage = "migrating" /\ next <= Len(Hosts)
    /\ Statement(Hosts[next])
    /\ UNCHANGED <<committed, deaths>>

\* _stampVersion and COMMIT.
Commit ==
    /\ stage = "migrating" /\ next > Len(Hosts)
    /\ file' = [file EXCEPT !.version = LatestVersion]
    /\ committed' = file'
    /\ stage' = "ready" /\ next' = 1
    /\ UNCHANGED deaths

\* A repository writes a row, in a transaction that is over when it returns.
Write ==
    /\ stage = "ready"
    /\ \/ file.history < MaxFileRows /\ file' = [file EXCEPT !.history = @ + 1]
       \/ file.ledger < MaxFileRows /\ file' = [file EXCEPT !.ledger = @ + 1]
    /\ committed' = file'
    /\ UNCHANGED <<stage, next, deaths>>

Close ==
    /\ stage = "ready"
    /\ stage' = "closed"
    /\ UNCHANGED <<file, committed, next, deaths>>

\* The process dies; or a statement fails, is rolled back, and its exception
\* ends the start.
Crash ==
    /\ stage # "down" /\ deaths < MaxDeaths
    /\ deaths' = deaths + 1
    /\ stage' = "down" /\ next' = 1
    /\ file' = committed
    /\ UNCHANGED committed

StoreNext == ConnectStore \/ RunBaseline \/ Stamp \/ Migrate \/ Commit \/ Write \/ Close \/ Crash

\* A start that is under way goes on.
StoreSpec == StoreInit /\ [][StoreNext]_storeVars /\ WF_storeVars(RunBaseline \/ Stamp \/ Migrate \/ Commit)

-----------------------------------------------------------------------------
StoreTypeOK ==
    /\ file.version \in 0 .. LatestVersion /\ committed.version \in 0 .. LatestVersion
    /\ file.shape \in [Table -> 0 .. 2] /\ committed.shape \in [Table -> 0 .. 2]
    /\ stage \in {"down", "baseline", "migrating", "ready", "closed", "rejected"}
    /\ next \in 1 .. Len(Hosts) + 1

Migrated(f) ==
    /\ f.shape = [t \in Table |-> IF t \in {"meta", "host"} THEN 1 ELSE 2]
    /\ f.local /\ ~ f.copy
    /\ {"host_volume_time", "audit_host"} \subseteq f.indexes

(* Type invariant, and: the version a file records is the shape it has, at *)
(* every point where the process can die; and the program works on nothing *)
(* but the newest shape.                                                   *)
StoreInv ==
    /\ StoreTypeOK
    /\ committed.version = LatestVersion => Migrated(committed)
    /\ committed.version < LatestVersion =>
          ~ committed.copy /\ \A t \in Table : committed.shape[t] <= 1
    /\ stage = "ready" => file = committed /\ file.version = LatestVersion

(* No row of the history or of the ledger is lost to a start, whatever     *)
(* the file was, and wherever the process dies.                            *)
HistorySurvives ==
    [][/\ committed'.history >= committed.history
       /\ committed'.ledger >= committed.ledger]_storeVars

(* Every start that is not cut off ends with the program ready: there is   *)
(* no file, not even one a crash has left, on which a statement of the     *)
(* baseline or of a migration fails.                                       *)
StartSucceeds == stage \in {"baseline", "migrating", "rejected"} ~> stage \in {"ready", "down"}
=============================================================================
