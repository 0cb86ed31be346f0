-------------------------- MODULE Migration_proofs --------------------------
(***************************************************************************)
(* Open returns only on a complete schema, for any migrations, any         *)
(* databases they may meet and any number of processes.  The argument: a    *)
(* statement that was done stays done, a version is recorded by a process   *)
(* that has seen each of its statements succeed, and versions are recorded  *)
(* in order.                                                                *)
(***************************************************************************)
EXTENDS Migration, TLAPS

\* The statement counts for the schema, worker_state being rebuilt apart.
Counts(v, k) == k \in DOMAIN migrations[v] /\ migrations[v][k].table # "worker_state"

TypeInv ==
    /\ db \in [Table -> SUBSET Column]
    /\ \E n \in 0 .. Len(migrations) : versions = 1 .. n
    /\ proc \in [Proc -> [pc : {"down", "read", "apply", "drop", "recreate", "up"},
                          v : Nat, k : Nat]]

\* What is recorded has been applied.
RecordedApplied ==
    \A v \in versions : \A k \in Nat : Counts(v, k) => Applied(db, migrations[v][k])

\* A table that exists has the columns it is created with.
CreatedWhole ==
    \A v \in Version : \A k \in Nat :
        /\ Counts(v, k)
        /\ migrations[v][k].op = "create"
        /\ db[migrations[v][k].table] # {}
        => Applied(db, migrations[v][k])

\* A process that applies version v finds the earlier versions recorded, and
\* has the first k - 1 statements of v behind it.
Progress(p) ==
    proc[p].pc = "apply" =>
        /\ proc[p].v \in 1 .. Len(migrations) + 1
        /\ proc[p].k # 0
        /\ 1 .. proc[p].v - 1 \subseteq versions
        /\ \A j \in Nat : proc[p].v \in Version /\ j < proc[p].k /\ Counts(proc[p].v, j) =>
               Applied(db, migrations[proc[p].v][j])

\* Past the last version, everything is recorded.
Past(p) == proc[p].pc \in {"drop", "recreate", "up"} => Version \subseteq versions

IInv ==
    /\ TypeInv
    /\ RecordedApplied
    /\ CreatedWhole
    /\ \A p \in Proc : Progress(p) /\ Past(p)

---------------------------------------------------------------------------

LEMMA MigrationTypes ==
    /\ Len(migrations) \in Nat
    /\ \A v \in Version : migrations[v] \in Seq([op : {"create", "add", "index"},
                                                 table : Table, cols : SUBSET Column])
BY MigrationAssumption DEF MigrationAssumption, Version

LEMMA SeqElement ==
    ASSUME NEW S, NEW s \in Seq(S), NEW k \in DOMAIN s
    PROVE  DOMAIN s = 1 .. Len(s) /\ Len(s) \in Nat /\ k \in Nat \ {0} /\ s[k] \in S
OBVIOUS

LEMMA StatementType ==
    ASSUME NEW v \in Version, NEW k \in DOMAIN migrations[v]
    PROVE  /\ k \in Nat \ {0}
           /\ migrations[v][k].table \in Table
           /\ migrations[v][k].cols \subseteq Column
           /\ migrations[v][k].op \in {"create", "add", "index"}
<1>1. migrations[v] \in Seq([op : {"create", "add", "index"}, table : Table,
                              cols : SUBSET Column])
  BY MigrationTypes
<1>2. /\ k \in Nat \ {0}
      /\ migrations[v][k] \in [op : {"create", "add", "index"}, table : Table,
                               cols : SUBSET Column]
  BY <1>1, SeqElement
<1> QED BY <1>2

\* The highest of versions recorded in order is their number.
LEMMA MaxOfVersions ==
    ASSUME NEW n \in Nat
    PROVE  Max((1 .. n) \cup {0}) = n
<1>1. n \in (1 .. n) \cup {0} /\ \A y \in (1 .. n) \cup {0} : n >= y
  OBVIOUS
<1>2. \A x \in (1 .. n) \cup {0} : (\A y \in (1 .. n) \cup {0} : x >= y) => x = n
  BY <1>1
<1> QED BY <1>1, <1>2, Zenon DEF Max

---------------------------------------------------------------------------
\* No table but worker_state loses a column.
Grows == \A t \in Table : t # "worker_state" => db[t] \subseteq db'[t]

LEMMA AppliedStays ==
    ASSUME Grows, NEW v \in Version, NEW k \in Nat, Counts(v, k),
           Applied(db, migrations[v][k])
    PROVE  Applied(db', migrations[v][k])
BY StatementType DEF Grows, Counts, Applied

LEMMA InitIInv == Init => IInv
<1> SUFFICES ASSUME Init PROVE IInv
  OBVIOUS
<1>1. PICK d \in Databases : db = d.tables /\ versions = d.versions
  BY DEF Init
<1>2. PICK n \in 0 .. Len(migrations) : d.versions = 1 .. n
  BY <1>1, MigrationAssumption DEF MigrationAssumption
<1>3. db \in [Table -> SUBSET Column]
  BY <1>1, MigrationAssumption DEF MigrationAssumption
<1>4. TypeInv
  BY <1>1, <1>2, <1>3 DEF Init, TypeInv, Down
<1>5. versions \subseteq Version
  BY <1>1, <1>2, MigrationTypes DEF Version
<1>6. RecordedApplied
  BY <1>1, <1>5, MigrationAssumption DEF MigrationAssumption, RecordedApplied, Counts
<1>7. CreatedWhole
  BY <1>1, MigrationAssumption DEF MigrationAssumption, CreatedWhole, Counts
<1>8. \A p \in Proc : Progress(p) /\ Past(p)
  BY DEF Init, Progress, Past, Down
<1> QED BY <1>4, <1>6, <1>7, <1>8 DEF IInv

\* A step that leaves tables and records alone keeps what is said of them.
LEMMA TablesKept ==
    ASSUME IInv, db' = db, versions' = versions
    PROVE  RecordedApplied' /\ CreatedWhole'
BY DEF IInv, RecordedApplied, CreatedWhole, Applied, Counts

\* A process that was not touched keeps its place when the tables grow and
\* no record is lost.
LEMMA OthersKept ==
    ASSUME IInv, Grows, versions \subseteq versions',
           NEW p \in Proc, proc'[p] = proc[p]
    PROVE  Progress(p)' /\ Past(p)'
<1>1. Progress(p) /\ Past(p)
  BY DEF IInv
<1>2. Past(p)'
  BY <1>1 DEF Past
<1>3. Progress(p)'
  <2> SUFFICES ASSUME proc[p].pc = "apply"
               PROVE  /\ proc[p].v \in 1 .. Len(migrations) + 1
                      /\ proc[p].k # 0
                      /\ 1 .. proc[p].v - 1 \subseteq versions'
                      /\ \A j \in Nat : proc[p].v \in Version /\ j < proc[p].k
                                        /\ Counts(proc[p].v, j) =>
                            Applied(db', migrations[proc[p].v][j])
    BY DEF Progress, Counts
  <2> QED BY <1>1, AppliedStays DEF Progress
<1> QED BY <1>2, <1>3

---------------------------------------------------------------------------
\* Steps that leave tables and records alone.
LEMMA QuietStep ==
    ASSUME IInv, NEW p \in Proc, db' = db, versions' = versions,
           NEW place \in [pc : {"down", "read", "apply", "drop", "recreate", "up"},
                          v : Nat, k : Nat],
           proc' = [proc EXCEPT ![p] = place],
           Progress(p)', Past(p)'
    PROVE  IInv'
<1>1. TypeInv'
  BY DEF IInv, TypeInv
<1>2. Grows
  BY DEF Grows
<1>3. \A q \in Proc : Progress(q)' /\ Past(q)'
  <2> SUFFICES ASSUME NEW q \in Proc, q # p PROVE Progress(q)' /\ Past(q)'
    OBVIOUS
  <2>1. proc'[q] = proc[q]
    BY DEF IInv, TypeInv
  <2> QED BY <1>2, <2>1, OthersKept
<1> QED BY <1>1, <1>3, TablesKept DEF IInv

LEMMA StepDown ==
    ASSUME IInv, NEW p \in Proc, db' = db, versions' = versions,
           proc' = [proc EXCEPT ![p] = Down]
    PROVE  IInv'
<1>1. proc'[p] = Down
  BY DEF IInv, TypeInv
<1>2. Progress(p)' /\ Past(p)'
  BY <1>1 DEF Progress, Past, Down
<1> QED BY <1>2, QuietStep DEF Down

LEMMA StepReadVersion ==
    ASSUME IInv, NEW p \in Proc, ReadVersion(p)
    PROVE  IInv'
<1>1. PICK n \in 0 .. Len(migrations) : versions = 1 .. n
  BY DEF IInv, TypeInv
<1>2. Max(versions \cup {0}) = n
  BY <1>1, MaxOfVersions, MigrationTypes
<1>3. PICK v \in {1, n + 1} : proc' = [proc EXCEPT ![p] = At("apply", v, 1)]
  BY <1>2 DEF ReadVersion
<1>4. proc'[p] = At("apply", v, 1)
  BY <1>3 DEF IInv, TypeInv
<1>5. db' = db /\ versions' = versions
  BY DEF ReadVersion
<1>6. v \in 1 .. Len(migrations) + 1 /\ 1 .. v - 1 \subseteq versions
  BY <1>1, MigrationTypes
<1>7. Progress(p)'
  <2>1. \A j \in Nat : v \in Version /\ j < 1 => ~Counts(v, j)
    BY StatementType DEF Counts
  <2> QED BY <1>4, <1>5, <1>6, <2>1 DEF Progress, At, Counts
<1>8. Past(p)'
  BY <1>4 DEF Past, At
<1>9. At("apply", v, 1) \in [pc : {"down", "read", "apply", "drop", "recreate", "up"},
                             v : Nat, k : Nat]
  BY <1>6, MigrationTypes DEF At
<1> QED BY <1>3, <1>5, <1>7, <1>8, <1>9, QuietStep

\* What a statement that succeeds does to the tables.
LEMMA EffectApplies ==
    ASSUME IInv, NEW v \in Version, NEW k \in DOMAIN migrations[v],
           ~Fails(db, migrations[v][k]),
           db' = Effect(db, migrations[v][k])
    PROVE  /\ db' \in [Table -> SUBSET Column]
           /\ Grows
           /\ migrations[v][k].table # "worker_state" => Applied(db', migrations[v][k])
           /\ CreatedWhole'
<1> DEFINE s == migrations[v][k]
<1>1. /\ s.table \in Table /\ s.cols \subseteq Column
      /\ s.op \in {"create", "add", "index"} /\ k \in Nat
  BY StatementType
<1>2. db \in [Table -> SUBSET Column]
  BY DEF IInv, TypeInv
<1>3. /\ db' \in [Table -> SUBSET Column]
      /\ \A t \in Table : t # s.table => db'[t] = db[t]
      /\ db'[s.table] = CASE s.op = "create" /\ db[s.table] = {} -> s.cols
                          [] s.op = "add" -> db[s.table] \cup s.cols
                          [] OTHER -> db[s.table]
  BY <1>1, <1>2 DEF Effect
<1>4. \A t \in Table : db[t] \subseteq db'[t]
  BY <1>1, <1>2, <1>3
<1>5. ASSUME s.table # "worker_state" PROVE Applied(db', s)
  <2>1. CASE s.op = "create" /\ db[s.table] = {}
    BY <1>3, <2>1 DEF Applied
  <2>2. CASE s.op = "create" /\ db[s.table] # {}
    <3>1. Applied(db, s)
      BY <1>1, <1>5, <2>2 DEF IInv, CreatedWhole, Counts
    <3> QED BY <1>1, <1>4, <3>1 DEF Applied
  <2>3. CASE s.op = "add"
    BY <1>3, <2>3 DEF Applied
  <2>4. CASE s.op = "index"
    BY <1>1, <1>4, <2>4 DEF Applied, Fails
  <2> QED BY <1>1, <2>1, <2>2, <2>3, <2>4
<1>6. ASSUME NEW w \in Version, NEW l \in Nat, Counts(w, l),
             migrations[w][l].op = "create", db'[migrations[w][l].table] # {}
      PROVE  Applied(db', migrations[w][l])
  <2> DEFINE c == migrations[w][l]
  <2>1. c.table \in Table /\ l \in DOMAIN migrations[w] /\ c.table # "worker_state"
    BY <1>6, StatementType DEF Counts
  <2>2. CASE db[c.table] # {}
    <3>1. Applied(db, c)
      BY <1>6, <2>2 DEF IInv, CreatedWhole
    <3> QED BY <1>4, <2>1, <3>1 DEF Applied
  <2>3. CASE db[c.table] = {}
    <3>1. c.table = s.table
      BY <1>3, <1>6, <2>1, <2>3
    <3>2. s.op = "create"
      BY <1>1, <1>3, <1>6, <2>3, <3>1 DEF Fails
    <3>3. s.cols = c.cols
      BY <1>6, <2>1, <3>1, <3>2, MigrationAssumption DEF MigrationAssumption
    <3> QED BY <1>3, <2>3, <3>1, <3>2, <3>3 DEF Applied
  <2> QED BY <2>2, <2>3
<1>7. CreatedWhole'
  BY <1>6 DEF CreatedWhole, Counts
<1>8. Grows
  BY <1>4 DEF Grows
<1> QED BY <1>3, <1>5, <1>7, <1>8

LEMMA StepApplyStatement ==
    ASSUME IInv, NEW p \in Proc, ApplyStatement(p)
    PROVE  IInv'
<1> DEFINE v == proc[p].v
           k == proc[p].k
<1>1. v \in Version /\ k \in DOMAIN migrations[v] /\ proc[p].pc = "apply"
  BY DEF ApplyStatement
<1>2. CASE Fails(db, migrations[v][k]) /\ proc' = [proc EXCEPT ![p] = Down] /\ db' = db
  BY <1>2, StepDown DEF ApplyStatement
<1>3. CASE /\ ~Fails(db, migrations[v][k])
           /\ proc' = [proc EXCEPT ![p] = At("apply", v, k + 1)]
           /\ db' = Effect(db, migrations[v][k])
  <2>1. /\ db' \in [Table -> SUBSET Column]
        /\ Grows
        /\ migrations[v][k].table # "worker_state" => Applied(db', migrations[v][k])
        /\ CreatedWhole'
    BY <1>1, <1>3, EffectApplies
  <2>2. versions' = versions
    BY DEF ApplyStatement
  <2>3. v \in Nat /\ k \in Nat /\ proc'[p] = At("apply", v, k + 1)
    BY <1>3 DEF IInv, TypeInv
  <2>4. TypeInv'
    BY <1>3, <2>1, <2>2, <2>3 DEF IInv, TypeInv, At
  <2>5. RecordedApplied'
    <3>1. versions \subseteq Version
      BY MigrationTypes DEF IInv, TypeInv, Version
    <3> QED BY <2>1, <2>2, <3>1, AppliedStays DEF IInv, RecordedApplied, Counts
  <2>6. Progress(p)' /\ Past(p)'
    <3>1. ASSUME NEW j \in Nat, j < k + 1, Counts(v, j)
          PROVE  Applied(db', migrations[v][j])
      <4>1. CASE j = k
        BY <2>1, <3>1, <4>1 DEF Counts
      <4>2. CASE j < k
        <5>1. Applied(db, migrations[v][j])
          BY <1>1, <3>1, <4>2 DEF IInv, Progress
        <5> QED BY <1>1, <2>1, <3>1, <5>1, AppliedStays
      <4> QED BY <2>3, <3>1, <4>1, <4>2
    <3>2. v \in 1 .. Len(migrations) + 1 /\ 1 .. v - 1 \subseteq versions
      BY <1>1 DEF IInv, Progress
    <3> QED BY <2>2, <2>3, <3>1, <3>2 DEF Progress, Past, At, Counts
  <2>7. \A q \in Proc : Progress(q)' /\ Past(q)'
    <3> SUFFICES ASSUME NEW q \in Proc, q # p PROVE Progress(q)' /\ Past(q)'
      BY <2>6
    <3>1. proc'[q] = proc[q]
      BY <1>3 DEF IInv, TypeInv
    <3> QED BY <2>1, <2>2, <3>1, OthersKept
  <2> QED BY <2>1, <2>4, <2>5, <2>7 DEF IInv
<1> QED BY <1>2, <1>3 DEF ApplyStatement

LEMMA StepRecordVersion ==
    ASSUME IInv, NEW p \in Proc, RecordVersion(p)
    PROVE  IInv'
<1> DEFINE v == proc[p].v
<1>1. /\ v \in Version /\ proc[p].pc = "apply" /\ db' = db
      /\ proc[p].k \notin DOMAIN migrations[v]
  BY DEF RecordVersion
<1>2. CASE proc' = [proc EXCEPT ![p] = Down] /\ versions' = versions
  BY <1>1, <1>2, StepDown
<1>3. CASE /\ v \notin versions
           /\ versions' = versions \cup {v}
           /\ proc' = [proc EXCEPT ![p] = At("apply", v + 1, 1)]
  <2>1. PICK n \in 0 .. Len(migrations) : versions = 1 .. n
    BY DEF IInv, TypeInv
  <2>2. v \in 1 .. Len(migrations) /\ 1 .. v - 1 \subseteq versions
    BY <1>1 DEF IInv, Progress, Version
  <2>3. n = v - 1
    <3>1. v \notin 1 .. n
      BY <1>3, <2>1
    <3>2. \A w \in Nat : w # 0 /\ w <= v - 1 => w <= n
      BY <2>1, <2>2, MigrationTypes
    <3>3. v \in Nat /\ v # 0 /\ n \in Nat /\ v > n
      BY <2>1, <2>2, <3>1, MigrationTypes
    <3>4. v - 1 <= n
      BY <3>2, <3>3
    <3> QED BY <3>3, <3>4
  <2>4. versions' = 1 .. v
    BY <1>3, <2>1, <2>2, <2>3, MigrationTypes
  <2>5. proc'[p] = At("apply", v + 1, 1)
    BY <1>3 DEF IInv, TypeInv
  <2>6. TypeInv'
    BY <1>1, <1>3, <2>2, <2>4, MigrationTypes DEF IInv, TypeInv, At
  <2>7. ASSUME NEW j \in Nat, Counts(v, j)
        PROVE  Applied(db, migrations[v][j])
    <3>1. /\ DOMAIN migrations[v] = 1 .. Len(migrations[v])
          /\ Len(migrations[v]) \in Nat /\ j \in DOMAIN migrations[v]
      BY <1>1, <2>7, MigrationTypes, SeqElement DEF Counts
    <3>2. proc[p].k \in Nat /\ proc[p].k # 0
      BY <1>1 DEF IInv, TypeInv, Progress
    <3>3. j < proc[p].k
      BY <1>1, <3>1, <3>2
    <3> QED BY <1>1, <2>7, <3>3 DEF IInv, Progress
  <2>8. RecordedApplied'
    <3>1. \A w \in versions : \A j \in Nat : Counts(w, j) => Applied(db, migrations[w][j])
      BY DEF IInv, RecordedApplied
    <3> QED BY <1>1, <1>3, <2>7, <3>1 DEF RecordedApplied, Counts, Applied
  <2>9. CreatedWhole'
    BY <1>1 DEF IInv, CreatedWhole, Counts, Applied
  <2>10. Progress(p)' /\ Past(p)'
    <3>1. \A w \in Version, j \in Nat : j < 1 => ~Counts(w, j)
      BY StatementType DEF Counts
    <3>2. v + 1 \in 1 .. Len(migrations) + 1 /\ 1 .. (v + 1) - 1 \subseteq versions'
      BY <2>2, <2>4, MigrationTypes
    <3> QED BY <2>5, <3>1, <3>2 DEF Progress, Past, At, Counts
  <2>11. Grows
    BY <1>1 DEF Grows
  <2>12. ASSUME NEW q \in Proc, q # p PROVE Progress(q)' /\ Past(q)'
    <3>1. proc'[q] = proc[q]
      BY <1>3, <2>12 DEF IInv, TypeInv
    <3>2. versions \subseteq versions'
      BY <1>3
    <3> QED BY <2>11, <3>1, <3>2, OthersKept
  <2> QED BY <2>6, <2>8, <2>9, <2>10, <2>12 DEF IInv
<1> QED BY <1>1, <1>2, <1>3 DEF RecordVersion

LEMMA StepProbe ==
    ASSUME IInv, NEW p \in Proc, Probe(p)
    PROVE  IInv'
<1>1. PICK place \in {At("drop", 0, 0), Up} : proc' = [proc EXCEPT ![p] = place]
  BY DEF Probe
<1>2. db' = db /\ versions' = versions
  BY DEF Probe
<1>3. proc'[p] = place
  BY <1>1 DEF IInv, TypeInv
<1>4. Version \subseteq versions
  <2>1. proc[p].v = Len(migrations) + 1 /\ 1 .. proc[p].v - 1 \subseteq versions
    BY MigrationTypes DEF Probe, IInv, Progress, Version
  <2> QED BY <2>1, MigrationTypes DEF Version
<1>5. Progress(p)' /\ Past(p)'
  BY <1>2, <1>3, <1>4 DEF Progress, Past, At, Up
<1>6. place \in [pc : {"down", "read", "apply", "drop", "recreate", "up"},
                v : Nat, k : Nat]
  BY DEF At, Up
<1> QED BY <1>1, <1>2, <1>5, <1>6, QuietStep

\* Steps that touch worker_state only.
LEMMA RebuildStep ==
    ASSUME IInv, NEW p \in Proc, versions' = versions,
           NEW cols \in SUBSET Column, db' = [db EXCEPT !["worker_state"] = cols],
           NEW place \in {At("recreate", 0, 0), Up}, proc' = [proc EXCEPT ![p] = place],
           proc[p].pc \in {"drop", "recreate"}
    PROVE  IInv'
<1>1. db \in [Table -> SUBSET Column] /\ "worker_state" \in Table
  BY MigrationAssumption DEF MigrationAssumption, IInv, TypeInv
<1>2. \A t \in Table : t # "worker_state" => db'[t] = db[t]
  BY <1>1
<1>3. Grows
  BY <1>2 DEF Grows
<1>4. TypeInv'
  BY <1>1 DEF IInv, TypeInv, At, Up
<1>5. versions \subseteq Version
  BY MigrationTypes DEF IInv, TypeInv, Version
<1>6. RecordedApplied'
  BY <1>3, <1>5, AppliedStays DEF IInv, RecordedApplied, Counts
<1>7. CreatedWhole'
  BY <1>2, StatementType DEF IInv, CreatedWhole, Counts, Applied
<1>8. proc'[p] = place
  BY DEF IInv, TypeInv
<1>9. Progress(p)' /\ Past(p)'
  BY <1>8 DEF IInv, Progress, Past, At, Up
<1>10. ASSUME NEW q \in Proc, q # p PROVE Progress(q)' /\ Past(q)'
  <2>1. proc'[q] = proc[q]
    BY <1>10 DEF IInv, TypeInv
  <2> QED BY <1>3, <2>1, OthersKept
<1> QED BY <1>4, <1>6, <1>7, <1>9, <1>10 DEF IInv

LEMMA StepRebuild ==
    ASSUME IInv, NEW p \in Proc, DropLegacy(p) \/ Recreate(p)
    PROVE  IInv'
<1>1. db["worker_state"] \subseteq Column /\ {"pool", "slot"} \subseteq Column
  BY MigrationAssumption DEF MigrationAssumption, IInv, TypeInv
<1>2. CASE DropLegacy(p)
  <2>1. CASE proc' = [proc EXCEPT ![p] = Down] /\ db' = db
    BY <1>2, <2>1, StepDown DEF DropLegacy
  <2>2. CASE /\ proc' = [proc EXCEPT ![p] = At("recreate", 0, 0)]
             /\ db' = [db EXCEPT !["worker_state"] = {}]
    <3>1. {} \in SUBSET Column /\ proc[p].pc = "drop" /\ versions' = versions
      BY <1>2 DEF DropLegacy
    <3> QED BY <2>2, <3>1, RebuildStep
  <2> QED BY <1>2, <2>1, <2>2 DEF DropLegacy
<1>3. CASE Recreate(p)
  <2>1. PICK cols \in SUBSET Column : db' = [db EXCEPT !["worker_state"] = cols]
    BY <1>1, <1>3 DEF Recreate
  <2> QED BY <1>3, <2>1, RebuildStep DEF Recreate
<1> QED BY <1>2, <1>3

LEMMA IInvHolds == IInv /\ [Next]_vars => IInv'
<1> SUFFICES ASSUME IInv, [Next]_vars PROVE IInv'
  OBVIOUS
<1>1. ASSUME NEW p \in Proc, Start(p) PROVE IInv'
  <2>1. proc'[p] = At("read", 0, 0)
    BY <1>1 DEF Start, IInv, TypeInv
  <2>2. Progress(p)' /\ Past(p)'
    BY <2>1 DEF Progress, Past, At
  <2> QED BY <1>1, <2>2, QuietStep DEF Start, At
<1>2. ASSUME NEW p \in Proc, Stop(p) PROVE IInv'
  BY <1>2, StepDown DEF Stop
<1>3. CASE UNCHANGED vars
  <2>1. Grows /\ versions \subseteq versions' /\ proc' = proc
    BY <1>3 DEF vars, Grows
  <2>2. TypeInv' /\ RecordedApplied' /\ CreatedWhole'
    BY <1>3, TablesKept DEF vars, IInv, TypeInv
  <2> QED BY <2>1, <2>2, OthersKept DEF IInv
<1> QED BY <1>1, <1>2, <1>3, StepReadVersion, StepApplyStatement, StepRecordVersion,
           StepProbe, StepRebuild DEF Next, Step

LEMMA Invariance == Spec => []IInv
BY InitIInv, IInvHolds, PTL DEF Spec

\* Open returns only on a complete schema: every migration has been applied,
\* whoever applied it and whatever stopped on the way.
THEOREM SchemaComplete == Spec => []OpenMeansSchema
<1>1. IInv => OpenMeansSchema
  <2> SUFFICES ASSUME IInv, NEW p \in Proc, proc[p].pc = "up",
                      NEW v \in Version, NEW k \in DOMAIN migrations[v],
                      migrations[v][k].table # "worker_state"
               PROVE  Applied(db, migrations[v][k])
    BY DEF OpenMeansSchema, Complete
  <2>1. v \in versions
    BY DEF IInv, Past
  <2> QED BY <2>1, StatementType DEF IInv, RecordedApplied, Counts
<1> QED BY <1>1, Invariance, PTL

---------------------------------------------------------------------------
(* The table of the heartbeats.                                            *)

State == db["worker_state"]

\* The table is there, or somebody is about to make it, or the hand that was
\* to make it was stopped.
Made == State # {} \/ torn \/ \E q \in Proc : proc[q].pc = "recreate"

\* Only a rebuild takes the table away once its statement is done.
MadeOnce ==
    \A v \in Version : \A k \in DOMAIN migrations[v] :
        /\ MakesState(v, k)
        /\ \/ v \in versions
           \/ \E p \in Proc : proc[p].pc = "apply" /\ proc[p].v = v /\ k < proc[p].k
        => Made

\* The old shape does not come back.
NewShape ==
    (\E p \in Proc : proc[p].pc \in {"up", "recreate"}) =>
        torn \/ State = {} \/ "pool" \in State

StateInv == MadeOnce /\ NewShape

LEMMA InitStateInv == Init => StateInv
<1> SUFFICES ASSUME Init PROVE StateInv
  OBVIOUS
<1>1. \A p \in Proc : proc[p].pc = "down"
  BY DEF Init, Down
<1>2. PICK d \in Databases : db = d.tables /\ versions = d.versions
  BY DEF Init
<1>3. MadeOnce
  BY <1>1, <1>2, StateAssumption DEF MadeOnce, Made, State
<1> QED BY <1>1, <1>3 DEF StateInv, NewShape

\* p goes on to a place of its own, the others stay where they are.
Moves(p, place) ==
    /\ proc' = [proc EXCEPT ![p] = place]
    /\ torn => torn'
    /\ State # {} => State' # {} \/ place.pc = "recreate"
    /\ proc[p].pc = "recreate" => torn' \/ State' # {}

LEMMA MadeStays ==
    ASSUME IInv, NEW p \in Proc, NEW place, Moves(p, place), Made
    PROVE  Made'
<1>1. proc'[p] = place /\ \A q \in Proc \ {p} : proc'[q] = proc[q]
  BY DEF Moves, IInv, TypeInv
<1>2. CASE State # {} \/ torn
  BY <1>1, <1>2 DEF Moves, Made
<1>3. ASSUME NEW q \in Proc, proc[q].pc = "recreate" PROVE Made'
  BY <1>1, <1>3 DEF Moves, Made
<1> QED BY <1>2, <1>3 DEF Made

\* What a step has to show of worker_state.
LEMMA StateMoves ==
    ASSUME IInv, StateInv, NEW p \in Proc, NEW place, Moves(p, place),
           \A v \in Version : \A k \in DOMAIN migrations[v] :
               /\ MakesState(v, k)
               /\ \/ v \in versions' \ versions
                  \/ place.pc = "apply" /\ place.v = v /\ k < place.k
               => Made',
           State = {} => State' = {} \/ "pool" \in State',
           "pool" \in State => State' = {} \/ "pool" \in State',
           place.pc \in {"up", "recreate"} => torn' \/ State' = {} \/ "pool" \in State'
    PROVE  StateInv'
<1>1. proc'[p] = place /\ \A q \in Proc \ {p} : proc'[q] = proc[q]
  BY DEF Moves, IInv, TypeInv
<1>2. ASSUME NEW v \in Version, NEW k \in DOMAIN migrations[v], MakesState(v, k),
             \/ v \in versions'
             \/ \E q \in Proc : proc'[q].pc = "apply" /\ proc'[q].v = v /\ k < proc'[q].k
      PROVE  Made'
  <2>1. CASE \/ v \in versions
             \/ \E q \in Proc : proc[q].pc = "apply" /\ proc[q].v = v /\ k < proc[q].k
    BY <1>2, <2>1, MadeStays DEF StateInv, MadeOnce
  <2>2. CASE \/ v \in versions' \ versions
             \/ place.pc = "apply" /\ place.v = v /\ k < place.k
    BY <1>2, <2>2
  <2> QED BY <1>1, <1>2, <2>1, <2>2
<1>3. NewShape'
  BY <1>1 DEF StateInv, NewShape, Moves
<1> QED BY <1>2, <1>3 DEF StateInv, MadeOnce, MakesState

\* The step leaves the tables and the records alone.
LEMMA StateKept ==
    ASSUME IInv, StateInv, NEW p \in Proc, NEW place, proc' = [proc EXCEPT ![p] = place],
           UNCHANGED <<db, versions>>, torn => torn',
           proc[p].pc = "recreate" => torn',
           place.pc = "apply" => place.k = 1,
           place.pc \in {"up", "recreate"} => torn' \/ State = {} \/ "pool" \in State
    PROVE  StateInv'
<1>1. State' = State
  BY DEF State
<1>2. \A v \in Version : \A k \in DOMAIN migrations[v] : ~(k < 1)
  BY StatementType
<1>3. Moves(p, place)
  BY <1>1 DEF Moves
<1> QED BY <1>1, <1>2, <1>3, StateMoves

\* What a statement makes of worker_state: it creates it, in its new shape, or
\* adds to it, or leaves it alone.
LEMMA StateEffect ==
    ASSUME IInv, NEW v \in Version, NEW k \in DOMAIN migrations[v],
           ~Fails(db, migrations[v][k]), db' = Effect(db, migrations[v][k])
    PROVE  /\ State \subseteq State'
           /\ State = {} => State' = {} \/ "pool" \in State'
           /\ MakesState(v, k) => State' # {}
<1> DEFINE s == migrations[v][k]
<1>1. /\ s.table \in Table /\ db \in [Table -> SUBSET Column] /\ "worker_state" \in Table
  BY StatementType, MigrationAssumption DEF MigrationAssumption, IInv, TypeInv
<1>2. CASE s.table # "worker_state"
  BY <1>1, <1>2 DEF Effect, State, MakesState
<1>3. CASE s.table = "worker_state"
  <2>1. State' = CASE s.op = "create" /\ State = {} -> s.cols
                   [] s.op = "add" -> State \cup s.cols
                   [] OTHER -> State
    BY <1>1, <1>3 DEF Effect, State
  <2>2. s.op = "create" => "pool" \in s.cols
    BY <1>3, StateAssumption DEF MakesState
  <2>3. s.op = "add" => State # {}
    BY <1>3 DEF Fails, State
  <2>4. CASE s.op = "create" /\ State = {}
    BY <2>1, <2>2, <2>4
  <2>5. CASE s.op = "add"
    BY <2>1, <2>3, <2>5 DEF MakesState
  <2>6. CASE s.op # "add" /\ ~(s.op = "create" /\ State = {})
    BY <2>1, <2>6 DEF MakesState
  <2> QED BY <2>4, <2>5, <2>6
<1> QED BY <1>2, <1>3

LEMMA StateApply ==
    ASSUME IInv, StateInv, NEW p \in Proc, ApplyStatement(p)
    PROVE  StateInv'
<1> SUFFICES ASSUME NEW v, v = proc[p].v, NEW k, k = proc[p].k PROVE StateInv'
  OBVIOUS
<1>1. /\ v \in Version /\ k \in DOMAIN migrations[v] /\ k \in Nat /\ proc[p].pc = "apply"
      /\ UNCHANGED <<versions, torn>>
  BY StatementType DEF ApplyStatement
<1>2. CASE proc' = [proc EXCEPT ![p] = Down] /\ db' = db
  BY <1>1, <1>2, StateKept DEF Down
<1>3. ASSUME ~Fails(db, migrations[v][k]), db' = Effect(db, migrations[v][k]),
             NEW place, place = At("apply", v, k + 1), proc' = [proc EXCEPT ![p] = place]
      PROVE  StateInv'
  <2>1. /\ State \subseteq State'
        /\ State = {} => State' = {} \/ "pool" \in State'
        /\ MakesState(v, k) => State' # {}
    BY <1>1, <1>3, StateEffect
  <2>2. place.pc = "apply" /\ place.v = v /\ place.k = k + 1
    BY <1>3 DEF At
  <2>3. Moves(p, place)
    BY <1>1, <1>3, <2>1 DEF Moves
  <2>4. ASSUME NEW j \in DOMAIN migrations[v], MakesState(v, j), j < k + 1 PROVE Made'
    <3>1. CASE j = k
      BY <2>1, <2>4, <3>1 DEF Made
    <3>2. CASE j # k
      <4>1. j \in Nat /\ j < k
        BY <1>1, <2>4, <3>2, StatementType
      <4>2. Made
        BY <1>1, <2>4, <4>1 DEF StateInv, MadeOnce
      <4> QED BY <2>3, <4>2, MadeStays
    <3> QED BY <3>1, <3>2
  <2> QED BY <1>1, <2>1, <2>2, <2>3, <2>4, StateMoves
<1> QED BY <1>1, <1>2, <1>3 DEF ApplyStatement

LEMMA StateRecord ==
    ASSUME IInv, StateInv, NEW p \in Proc, RecordVersion(p)
    PROVE  StateInv'
<1> SUFFICES ASSUME NEW v, v = proc[p].v PROVE StateInv'
  OBVIOUS
<1>1. /\ v \in Version /\ proc[p].pc = "apply" /\ proc[p].k \notin DOMAIN migrations[v]
      /\ UNCHANGED <<db, torn>>
  BY DEF RecordVersion
<1>2. CASE proc' = [proc EXCEPT ![p] = Down] /\ versions' = versions
  BY <1>1, <1>2, StateKept DEF Down
<1>3. ASSUME versions' = versions \cup {v}, NEW place, place = At("apply", v + 1, 1),
             proc' = [proc EXCEPT ![p] = place]
      PROVE  StateInv'
  <2>1. State' = State /\ place.pc = "apply" /\ place.k = 1
    BY <1>1, <1>3 DEF State, At
  <2>2. Moves(p, place)
    BY <1>1, <1>3, <2>1 DEF Moves
  <2>3. ASSUME NEW k \in DOMAIN migrations[v], MakesState(v, k) PROVE Made'
    <3>1. /\ DOMAIN migrations[v] = 1 .. Len(migrations[v])
          /\ Len(migrations[v]) \in Nat
      BY <1>1, <2>3, MigrationTypes, SeqElement
    <3>2. proc[p].k \in Nat /\ proc[p].k # 0
      BY <1>1 DEF IInv, TypeInv, Progress
    <3>3. k < proc[p].k
      BY <1>1, <3>1, <3>2
    <3>4. Made
      BY <1>1, <2>3, <3>3 DEF StateInv, MadeOnce
    <3> QED BY <2>2, <3>4, MadeStays
  <2>4. \A w \in Version : \A k \in DOMAIN migrations[w] : ~(k < 1)
    BY StatementType
  <2>5. versions' \ versions \subseteq {v}
    BY <1>3
  <2> QED BY <2>1, <2>2, <2>3, <2>4, <2>5, StateMoves
<1> QED BY <1>1, <1>2, <1>3 DEF RecordVersion

LEMMA StateRebuild ==
    ASSUME IInv, StateInv, NEW p \in Proc, DropLegacy(p) \/ Recreate(p)
    PROVE  StateInv'
<1>1. /\ "worker_state" \in Table /\ db \in [Table -> SUBSET Column]
      /\ UNCHANGED <<versions, torn>>
  BY MigrationAssumption DEF MigrationAssumption, IInv, TypeInv, DropLegacy, Recreate
<1>2. CASE proc' = [proc EXCEPT ![p] = Down] /\ db' = db /\ proc[p].pc = "drop"
  BY <1>1, <1>2, StateKept DEF Down
<1>3. ASSUME proc[p].pc = "drop", State' = {},
             NEW place, place = At("recreate", 0, 0), proc' = [proc EXCEPT ![p] = place]
      PROVE  StateInv'
  <2>1. place.pc = "recreate"
    BY <1>3 DEF At
  <2>2. Moves(p, place)
    BY <1>1, <1>3, <2>1 DEF Moves
  <2> QED BY <1>1, <1>3, <2>1, <2>2, StateMoves
<1>4. CASE Recreate(p)
  <2>1. /\ proc[p].pc = "recreate" /\ proc' = [proc EXCEPT ![p] = Up] /\ Up.pc = "up"
        /\ State' = IF State = {} THEN {"pool", "slot"} ELSE State
    BY <1>1, <1>4 DEF Recreate, State, Up
  <2>2. State' # {} /\ (torn \/ "pool" \in State')
    BY <2>1 DEF StateInv, NewShape
  <2>3. Moves(p, Up)
    BY <1>1, <2>1, <2>2 DEF Moves
  <2> QED BY <1>1, <2>1, <2>2, <2>3, StateMoves
<1>5. CASE DropLegacy(p)
  <2>1. ASSUME db' = [db EXCEPT !["worker_state"] = {}] PROVE State' = {}
    BY <1>1, <2>1 DEF State
  <2> QED BY <1>2, <1>3, <1>5, <2>1 DEF DropLegacy
<1> QED BY <1>4, <1>5

LEMMA StateInvHolds == IInv /\ StateInv /\ [Next]_vars => StateInv'
<1> SUFFICES ASSUME IInv, StateInv, [Next]_vars PROVE StateInv'
  OBVIOUS
<1>1. ASSUME NEW p \in Proc, Start(p) \/ ReadVersion(p) PROVE StateInv'
  <2>1. proc[p].pc # "recreate" /\ UNCHANGED <<db, versions, torn>>
    BY <1>1 DEF Start, ReadVersion
  <2>2. ASSUME NEW place, proc' = [proc EXCEPT ![p] = place],
               \/ place = At("read", 0, 0)
               \/ \E v : place = At("apply", v, 1)
        PROVE  StateInv'
    BY <2>1, <2>2, StateKept DEF At
  <2> QED BY <1>1, <2>2 DEF Start, ReadVersion
<1>2. ASSUME NEW p \in Proc, Probe(p) PROVE StateInv'
  <2>1. /\ proc[p].pc = "apply" /\ UNCHANGED <<db, versions>>
        /\ torn => torn'
    BY <1>2 DEF Probe
  <2>2. ASSUME NEW place, proc' = [proc EXCEPT ![p] = place],
               \/ place = At("drop", 0, 0)
               \/ place = Up /\ (torn' \/ ~needsRebuild(State))
        PROVE  StateInv'
    <3>1. ~needsRebuild(State) => State = {} \/ "pool" \in State
      BY DEF needsRebuild
    <3> QED BY <2>1, <2>2, <3>1, StateKept DEF At, Up
  <2> QED BY <1>2, <2>2 DEF Probe, State
<1>3. ASSUME NEW p \in Proc, Stop(p) PROVE StateInv'
  BY <1>3, StateKept DEF Stop, Down
<1>4. CASE UNCHANGED vars
  BY <1>4 DEF vars, StateInv, MadeOnce, NewShape, Made, State, MakesState
<1> QED BY <1>1, <1>2, <1>3, <1>4, StateApply, StateRecord, StateRebuild DEF Next, Step

\* A process that is up finds the table of the heartbeats in its new shape,
\* unless a rebuild is under way or was cut short
\* (rebuildLegacyWorkerStateIfNeeded).
THEOREM HeartbeatsHaveTable == Spec => []HeartbeatTable
<1>1. IInv /\ StateInv => HeartbeatTable
  <2> SUFFICES ASSUME IInv, StateInv, NEW p \in Proc, proc[p].pc = "up"
               PROVE  \/ "pool" \in State \/ torn
                      \/ \E q \in Proc : proc[q].pc = "recreate"
    BY DEF HeartbeatTable, State
  <2>1. Version \subseteq versions
    BY DEF IInv, Past
  <2>2. Made
    BY <2>1, StateAssumption DEF StateInv, MadeOnce
  <2> QED BY <2>2 DEF StateInv, NewShape, Made
<1> QED BY <1>1, InitStateInv, StateInvHolds, Invariance, PTL DEF Spec

===========================================================================
