-------------------------- MODULE DatabaseRestore --------------------------
(***************************************************************************)
(* Restoring the panel's database (restore.service.ts): psql ends the other *)
(* connections, replaces the schema by an empty one and runs the uploaded   *)
(* dump, one statement after the other and each on its own: pg_dump makes   *)
(* all tables, then fills them, then adds their keys, and psql goes on      *)
(* after a statement that fails.  The process that runs the restore goes on *)
(* serving the panel meanwhile, and ends afterwards; Docker starts it again *)
(* (restart: unless-stopped), TypeORM completes the schema (synchronize)    *)
(* and SeedService adds an administrator if there is no user.               *)
(***************************************************************************)
EXTENDS Naturals, FiniteSets

CONSTANTS
    Stores,         \* tables of the database
    Users,          \* the one SeedService looks at
    Restores,       \* calls of triggerRestore
    MaxWrites,      \* bound on the writes of the panel
    MaxDbFaults     \* bound on failed commands and restarts

ASSUME RestoreAssumption == Users \in Stores /\ MaxWrites \in Nat /\ MaxDbFaults \in Nat

VARIABLES
    database,   \* tables: in the schema, with their key, and rows as in the dump or clashing with those
    restore,    \* the calls of triggerRestore: step, tables to come, whether the dump is whole
    progress,   \* the last progress each call broadcast: "none", "done" or "error"
    touched,    \* for each call, the tables something else wrote since it cleared the schema
    alive,      \* whether the backend runs
    writes, dbFaults

restoreVars == <<database, restore, progress, touched, alive, writes, dbFaults>>

\* "dump": rows as in the dump; "other": rows that have the keys of some of those.
Contents == SUBSET {"dump", "other"}
Absent == [there |-> FALSE, keyed |-> FALSE, rows |-> {}]
Steps == {"new", "clear", "create", "copy", "key", "exit", "ended"}
NewRestore == [step |-> "new", todo |-> {}, whole |-> TRUE]

RestoreTypeOK ==
    /\ database \in [Stores -> [there : BOOLEAN, keyed : BOOLEAN, rows : Contents]]
    /\ restore \in [Restores -> [step : Steps, todo : SUBSET Stores, whole : BOOLEAN]]
    /\ progress \in [Restores -> {"none", "done", "error"}]
    /\ touched \in [Restores -> SUBSET Stores]
    /\ alive \in BOOLEAN

\* A panel in use, or a new one with its administrator.
RestoreInit ==
    /\ database = [t \in Stores |-> [there |-> TRUE, keyed |-> TRUE, rows |-> {"other"}]]
    /\ restore = [r \in Restores |-> NewRestore]
    /\ progress = [r \in Restores |-> "none"]
    /\ touched = [r \in Restores |-> Stores]
    /\ alive = TRUE /\ writes = 0 /\ dbFaults = 0

DbFault == dbFaults < MaxDbFaults /\ dbFaults' = dbFaults + 1

\* Tables ts were written by call r.
TouchedBy(r, ts) == [s \in Restores |-> IF s = r THEN touched[s] ELSE touched[s] \cup ts]

-----------------------------------------------------------------------------
(* runRestoreSequence                                                      *)

\* psql of another restore is one of the connections that are ended.
TerminateConnections(r, whole) ==
    /\ alive /\ restore[r].step = "new"
    /\ LET cut == {s \in Restores \ {r} : restore[s].step \in {"create", "copy", "key"}}
       IN /\ restore' = [s \in Restores |->
                IF s = r THEN [step |-> "clear", todo |-> {}, whole |-> whole]
                ELSE IF s \in cut THEN [restore[s] EXCEPT !.step = "ended"] ELSE restore[s]]
          /\ progress' = [s \in Restores |-> IF s \in cut THEN "error" ELSE progress[s]]
    /\ UNCHANGED <<database, touched, alive, writes, dbFaults>>

\* Mutant: the schema is left as it is.
ClearNothing == database

\* DROP SCHEMA public CASCADE; CREATE SCHEMA public: one transaction.
Cleared == [t \in Stores |-> Absent]

ClearSchema(r) ==
    /\ restore[r].step = "clear"
    /\ database' = Cleared
    /\ touched' = [TouchedBy(r, Stores) EXCEPT ![r] = {}]
    /\ restore' = [restore EXCEPT ![r].step = "create", ![r].todo = Stores]
    /\ UNCHANGED <<progress, alive, writes, dbFaults>>

\* CREATE TABLE; it fails if the table is there.
Created(d) == [d EXCEPT !.there = TRUE]

\* COPY: all rows or none; without a key the same rows may come twice.
Copied(d) ==
    IF ~d.there \/ (d.keyed /\ d.rows # {}) THEN d
    ELSE [d EXCEPT !.rows = @ \cup {"dump"} \cup (IF "dump" \in @ THEN {"other"} ELSE {})]

\* ALTER TABLE ADD PRIMARY KEY; it fails on rows that clash.
Keyed(d) == [d EXCEPT !.keyed = @ \/ (d.there /\ d.rows # {"dump", "other"})]

Run(step, d) == CASE step = "create" -> Created(d) [] step = "copy" -> Copied(d) [] step = "key" -> Keyed(d)
After(step) == CASE step = "create" -> "copy" [] step = "copy" -> "key" [] step = "key" -> "exit"

\* psql -f: the next statement, whether it succeeds or not.
RunStatement(r) ==
    /\ restore[r].step \in {"create", "copy", "key"}
    /\ \E t \in restore[r].todo :
        /\ database' = [database EXCEPT ![t] = Run(restore[r].step, @)]
        /\ touched' = TouchedBy(r, {t})
        /\ restore' = [restore EXCEPT ![r].todo = @ \ {t}]
    /\ UNCHANGED <<progress, alive, writes, dbFaults>>

\* The last statement of a kind; after the last key, 100% is broadcast.
NextStatements(r) ==
    /\ restore[r].step \in {"create", "copy", "key"} /\ restore[r].todo = {}
    /\ restore' = [restore EXCEPT ![r].step = After(@),
                                  ![r].todo = IF restore[r].step = "key" THEN {} ELSE Stores]
    /\ progress' = [progress EXCEPT ![r] = IF restore[r].step = "key" THEN "done" ELSE @]
    /\ UNCHANGED <<database, touched, alive, writes, dbFaults>>

\* The end of a dump whose download was cut off (backup.service.ts destroys the response).
DumpEnds(r) ==
    /\ restore[r].step \in {"create", "copy", "key"} /\ ~restore[r].whole
    /\ restore' = [restore EXCEPT ![r].step = "exit", ![r].todo = {}]
    /\ progress' = [progress EXCEPT ![r] = "done"]
    /\ UNCHANGED <<database, touched, alive, writes, dbFaults>>

\* psql cannot connect or loses its connection.
RestoreFails(r) ==
    /\ restore[r].step \in {"clear", "create", "copy", "key"}
    /\ DbFault
    /\ restore' = [restore EXCEPT ![r].step = "ended"]
    /\ progress' = [progress EXCEPT ![r] = "error"]
    /\ UNCHANGED <<database, touched, alive, writes>>

-----------------------------------------------------------------------------
(* The backend around it                                                   *)

\* All restores end with the process that runs them.
Stopped == [r \in Restores |-> IF restore[r].step = "new" THEN restore[r] ELSE [restore[r] EXCEPT !.step = "ended"]]

\* process.exit, half a second after the end of a restore.
ExitBackend(r) ==
    /\ alive /\ restore[r].step = "exit"
    /\ alive' = FALSE
    /\ restore' = Stopped
    /\ UNCHANGED <<database, progress, touched, writes, dbFaults>>

\* It also ends by itself, or with its host.
BackendDies ==
    /\ alive /\ DbFault
    /\ alive' = FALSE
    /\ restore' = Stopped
    /\ UNCHANGED <<database, progress, touched, writes>>

\* A save of the process that still runs: SELECT by key, then UPDATE or INSERT.
PanelWrites(t) ==
    /\ alive /\ database[t].there
    /\ writes < MaxWrites /\ writes' = writes + 1
    /\ \E rows \in {{"other"}} \cup (IF database[t].keyed THEN {} ELSE {database[t].rows \cup {"other"}}) :
        database' = [database EXCEPT ![t].rows = rows]
    /\ touched' = [r \in Restores |-> touched[r] \cup {t}]
    /\ UNCHANGED <<restore, progress, alive, dbFaults>>

\* synchronize makes what is missing; it cannot add a key to rows that clash, and
\* then the backend does not start.
Synchronized(d) == [d EXCEPT !.there = TRUE, !.keyed = TRUE]

\* SeedService.onModuleInit: an administrator if there is no user.
Seeded(d) == [d EXCEPT !.rows = IF @ = {} THEN {"other"} ELSE @]

StartBackend ==
    /\ ~alive
    /\ \A t \in Stores : database[t].keyed \/ database[t].rows # {"dump", "other"}
    /\ alive' = TRUE
    /\ database' = [t \in Stores |-> LET d == Synchronized(database[t]) IN IF t = Users THEN Seeded(d) ELSE d]
    /\ UNCHANGED <<restore, progress, touched, writes, dbFaults>>

RestoreNext ==
    \/ \E r \in Restores :
        \/ \E whole \in BOOLEAN : TerminateConnections(r, whole)
        \/ ClearSchema(r) \/ RunStatement(r) \/ NextStatements(r) \/ DumpEnds(r) \/ RestoreFails(r)
        \/ ExitBackend(r)
    \/ \E t \in Stores : PanelWrites(t)
    \/ BackendDies \/ StartBackend

RestoreSpec == RestoreInit /\ [][RestoreNext]_restoreVars

-----------------------------------------------------------------------------

(***************************************************************************)
(* After a restore that reported its end, each table is the dump's, with   *)
(* its key, unless something else wrote it since the schema was cleared:   *)
(* whatever earlier restores, failures and restarts have left behind, "the *)
(* current database is replaced by the dump" (README.md:204).              *)
(***************************************************************************)
RestoredIsTheDump ==
    \A r \in Restores : (progress[r] = "done" /\ restore[r].whole) =>
        \A t \in Stores \ touched[r] : database[t] = [there |-> TRUE, keyed |-> TRUE, rows |-> {"dump"}]

=============================================================================
