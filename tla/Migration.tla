------------------------------ MODULE Migration ------------------------------
(***************************************************************************)
(* Bringing the schema of the cache up to date (cache.Open).  The web      *)
(* process, the worker and the command-line tools each do it when they     *)
(* start, on one SQLite file, without a lock and without a transaction:    *)
(* their statements interleave, and a process may die, or give up on a     *)
(* busy database, between any two of them.                                 *)
(*                                                                         *)
(* A table is the set of its columns, none when it is absent.  A statement *)
(* [op, table, cols] creates a table, adds a column or builds an index.    *)
(***************************************************************************)
EXTENDS Integers, Sequences, FiniteSetsExt

CONSTANTS
    Proc,          \* the processes that open the cache
    Table, Column,
    migrations,    \* the statements of each version, in order
    Databases,     \* what the file may hold when the first process opens it
    MaxStops       \* bound: crashes and statements that fail

VARIABLES
    db,            \* the columns of each table
    versions,      \* what schema_migrations records
    proc,          \* where each process is
    stops,         \* how often a process has stopped
    torn           \* history: worker_state was dropped by a process that
                   \* stopped before it had made the new one, or the look at
                   \* its shape failed

vars == <<db, versions, proc, stops, torn>>

Version == 1 .. Len(migrations)

\* The statement has done its work.
Applied(tables, s) == s.cols \subseteq tables[s.table]

MigrationAssumption ==
    /\ MaxStops \in Nat
    /\ "worker_state" \in Table
    /\ {"pool", "slot"} \subseteq Column
    /\ migrations \in Seq(Seq([op : {"create", "add", "index"}, table : Table,
                               cols : SUBSET Column]))
    \* A table is created in one place.
    /\ \A v, w \in Version : \A k \in DOMAIN migrations[v], l \in DOMAIN migrations[w] :
         /\ migrations[v][k].op = "create"
         /\ migrations[w][l].op = "create"
         /\ migrations[v][k].table = migrations[w][l].table
         => migrations[v][k].cols = migrations[w][l].cols
    \* A database from before the versions, or at some version: what is
    \* recorded was applied, and a table that exists has the columns it
    \* would be created with, worker_state excepted.
    /\ \A d \in Databases :
         /\ d.tables \in [Table -> SUBSET Column]
         /\ \E n \in 0 .. Len(migrations) : d.versions = 1 .. n
         /\ \A v \in Version : \A k \in DOMAIN migrations[v] :
              LET s == migrations[v][k]
              IN /\ v \in d.versions /\ s.table # "worker_state" => Applied(d.tables, s)
                 /\ s.op = "create" /\ s.table # "worker_state" /\ d.tables[s.table] # {} =>
                        Applied(d.tables, s)

ASSUME MigrationAssumption

\* The statement makes the table of the heartbeats.
MakesState(v, k) ==
    migrations[v][k].op = "create" /\ migrations[v][k].table = "worker_state"

\* Some version creates worker_state, in its new shape; a file that records
\* the version has the table, in whatever shape.
ASSUME StateAssumption ==
    /\ \E v \in Version : \E k \in DOMAIN migrations[v] : MakesState(v, k)
    /\ \A v \in Version : \A k \in DOMAIN migrations[v] : MakesState(v, k) =>
         /\ {"pool", "slot"} \subseteq migrations[v][k].cols
         /\ \A d \in Databases : v \in d.versions => d.tables["worker_state"] # {}

Down == [pc |-> "down", v |-> 0, k |-> 0]

Up == [pc |-> "up", v |-> 0, k |-> 0]

At(pc, v, k) == [pc |-> pc, v |-> v, k |-> k]

\* Mutant: only a table with the singleton check is rebuilt.
singletonOnly(cols) == "check" \in cols

\* Does worker_state have its old shape?
needsRebuild(cols) ==
    \/ "check" \in cols
    \/ cols # {} /\ "pool" \notin cols

\* Mutant: a column that is there already is an error like any other.
FailsOnDuplicate(tables, s) ==
    \/ s.op = "add" /\ (tables[s.table] = {} \/ Applied(tables, s))
    \/ s.op = "index" /\ ~Applied(tables, s)

\* Does the statement end in an error other than "duplicate column"?  A
\* column is added to a table that exists, an index is built on columns that
\* do.
Fails(tables, s) ==
    \/ s.op = "add" /\ tables[s.table] = {}
    \/ s.op = "index" /\ ~Applied(tables, s)

\* What the statement makes of the tables.  A table is created only when
\* there is none of its name.
Effect(tables, s) ==
    [tables EXCEPT ![s.table] =
        CASE s.op = "create" /\ @ = {} -> s.cols
          [] s.op = "add" -> @ \cup s.cols
          [] OTHER -> @]

---------------------------------------------------------------------------

Init ==
    /\ \E d \in Databases : db = d.tables /\ versions = d.versions
    /\ proc = [p \in Proc |-> Down]
    /\ stops = 0
    /\ torn = FALSE

\* systemd starts the process, or starts it again; schema_migrations is
\* created if there is none.
Start(p) ==
    /\ proc[p].pc = "down"
    /\ proc' = [proc EXCEPT ![p] = At("read", 0, 0)]
    /\ UNCHANGED <<db, versions, stops, torn>>

\* The version the database is at; a read that fails counts as none.
ReadVersion(p) ==
    /\ proc[p].pc = "read"
    /\ \/ /\ proc' = [proc EXCEPT ![p] = At("apply", Max(versions \cup {0}) + 1, 1)]
          /\ UNCHANGED stops
       \/ /\ stops < MaxStops
          /\ proc' = [proc EXCEPT ![p] = At("apply", 1, 1)]
          /\ stops' = stops + 1
    /\ UNCHANGED <<db, versions, torn>>

\* One statement of the version the process is at.
ApplyStatement(p) ==
    LET v == proc[p].v
        k == proc[p].k
    IN /\ proc[p].pc = "apply"
       /\ v \in Version
       /\ k \in DOMAIN migrations[v]
       /\ \/ /\ Fails(db, migrations[v][k])
             /\ proc' = [proc EXCEPT ![p] = Down]
             /\ UNCHANGED db
          \/ /\ ~Fails(db, migrations[v][k])
             /\ proc' = [proc EXCEPT ![p] = At("apply", v, k + 1)]
             /\ db' = Effect(db, migrations[v][k])
       /\ UNCHANGED <<versions, stops, torn>>

\* Mutant: the version is recorded with its last statement still to come.
RecordEarly(p) ==
    LET v == proc[p].v
    IN /\ proc[p].pc = "apply"
       /\ v \in Version
       /\ proc[p].k + 1 \notin DOMAIN migrations[v]
       /\ IF v \in versions
          THEN proc' = [proc EXCEPT ![p] = Down] /\ UNCHANGED versions
          ELSE /\ versions' = versions \cup {v}
               /\ proc' = [proc EXCEPT ![p] = At("apply", v + 1, 1)]
       /\ UNCHANGED <<db, stops, torn>>

\* All statements of a version are done: it is recorded.  When another
\* process was faster, the key is taken and the process gives up.
RecordVersion(p) ==
    LET v == proc[p].v
    IN /\ proc[p].pc = "apply"
       /\ v \in Version
       /\ proc[p].k \notin DOMAIN migrations[v]
       /\ \/ /\ v \in versions
             /\ proc' = [proc EXCEPT ![p] = Down]
             /\ UNCHANGED versions
          \/ /\ v \notin versions
             /\ versions' = versions \cup {v}
             /\ proc' = [proc EXCEPT ![p] = At("apply", v + 1, 1)]
       /\ UNCHANGED <<db, stops, torn>>

\* After the last version the process looks at the shape of worker_state; a
\* look that fails sees none.
Probe(p) ==
    /\ proc[p].pc = "apply"
    /\ proc[p].v \notin Version
    /\ \/ /\ proc' = [proc EXCEPT ![p] = IF needsRebuild(db["worker_state"])
                                         THEN At("drop", 0, 0) ELSE Up]
          /\ UNCHANGED <<stops, torn>>
       \/ /\ stops < MaxStops
          /\ proc' = [proc EXCEPT ![p] = Up]
          /\ stops' = stops + 1
          /\ torn' = TRUE
    /\ UNCHANGED <<db, versions>>

\* The old table goes; dropping what another process has dropped is an error.
DropLegacy(p) ==
    /\ proc[p].pc = "drop"
    /\ \/ /\ db["worker_state"] = {}
          /\ proc' = [proc EXCEPT ![p] = Down]
          /\ UNCHANGED db
       \/ /\ db["worker_state"] # {}
          /\ db' = [db EXCEPT !["worker_state"] = {}]
          /\ proc' = [proc EXCEPT ![p] = At("recreate", 0, 0)]
    /\ UNCHANGED <<versions, stops, torn>>

\* The new table, unless there is one again.
Recreate(p) ==
    /\ proc[p].pc = "recreate"
    /\ db' = [db EXCEPT !["worker_state"] = IF @ = {} THEN {"pool", "slot"} ELSE @]
    /\ proc' = [proc EXCEPT ![p] = Up]
    /\ UNCHANGED <<versions, stops, torn>>

\* The process crashes, or a statement finds the database busy for too long
\* and the process exits.
Stop(p) ==
    /\ stops < MaxStops
    /\ proc[p].pc # "down"
    /\ proc' = [proc EXCEPT ![p] = Down]
    /\ stops' = stops + 1
    /\ torn' = (torn \/ proc[p].pc = "recreate")
    /\ UNCHANGED <<db, versions>>

Step(p) ==
    \/ Start(p)
    \/ ReadVersion(p)
    \/ ApplyStatement(p)
    \/ RecordVersion(p)
    \/ Probe(p)
    \/ DropLegacy(p)
    \/ Recreate(p)

Next == \E p \in Proc : Step(p) \/ Stop(p)

Spec == Init /\ [][Next]_vars

\* A process runs on, and systemd starts it again when it has stopped.
FairSpec == Spec /\ \A p \in Proc : WF_vars(Step(p))

---------------------------------------------------------------------------

\* The schema is complete, leaving worker_state aside.
Complete ==
    \A v \in Version : \A k \in DOMAIN migrations[v] :
        migrations[v][k].table # "worker_state" => Applied(db, migrations[v][k])

\* Open returns a cache only when every migration has been applied,
\* whoever applied it, and however often processes raced, gave up or died on
\* the way there.
OpenMeansSchema == \A p \in Proc : proc[p].pc = "up" => Complete

\* Once a process is up, worker_state has the columns the heartbeats need,
\* except while another process is replacing it or when a replacement was
\* cut short: the versions are recorded then, and nobody makes the table
\* again.
HeartbeatTable ==
    (\E p \in Proc : proc[p].pc = "up") =>
        \/ "pool" \in db["worker_state"]
        \/ torn
        \/ \E q \in Proc : proc[q].pc = "recreate"

\* Processes that start together get in each other's way, but in the end all
\* of them are up.
AllOpen == <>[](\A p \in Proc : proc[p].pc = "up")

===========================================================================
