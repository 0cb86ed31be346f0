----------------------------- MODULE WorkerLedger -----------------------------
(* dispatch-worker keeps the ledger: the refinement of Ledger by Worker. *)
EXTENDS Worker, FiniteSets

\* The pools are started by loops that end.
ASSUME PoolsAssumption == IsFiniteSet(Sorters) /\ IsFiniteSet(Procs)

\* The holders of an extraction of m that has not been written yet: a sort
\* worker about to hand it over, places in the two channels, and extract and
\* fallback workers that have not stored a result.
HandsOver(x, m) == x.pc = "handoff" /\ x.m = m

WorksOn(x, m) == x.m = m /\ x.pc \notin {"recon", "block"}

Places(q, m) == {i \in 1 .. Len(q) : q[i].m = m}

Open(m) ==
    Cardinality({s \in Sorters : HandsOver(sorter[s], m)})
    + Cardinality(Places(extractQ, m))
    + Cardinality(Places(fallbackQ, m))
    + Cardinality({p \in Procs : WorksOn(proc[p], m)})

\* The ledger's entry for a row.
EntryOf(r) ==
    CASE r.model = "absent" -> "none"
      [] r.model \in {"skip", "stub"} -> r.model
      [] OTHER -> "read"

\* The ledger as it is written in the worker's state.
entryBar == [m \in Msg |-> EntryOf(row[m])]

writesBar == [m \in Msg |-> row[m].attempts]

flaggedBar == {m \in Msg : row[m].rescan}

askedBar == {m \in Msg : \E s \in Sorters : sorter[s].pc = "has" /\ sorter[s].m = m}

dueBar == toRescan \cup (IF rescan.pc = "next" THEN {} ELSE {rescan.m})

openBar == [m \in Msg |-> Open(m)]

LosesBar == Faults \cap {"write", "crash"} # {}

Kept == INSTANCE Ledger WITH
    Misreads <- ReadFails,
    Loses <- LosesBar,
    entry <- entryBar,
    writes <- writesBar,
    flagged <- flaggedBar,
    asked <- askedBar,
    due <- dueBar,
    open <- openBar

\* Whatever the pools do with an extraction - queue it, read it with one
\* model after another, pass it to the fallback pool - they neither lose nor
\* double it: every step of the worker is a step of the ledger or none, so
\* that each extraction ordered writes one row, a request is declined only
\* for a row, and the attempts of a row count what was really done (processMessage,
\* verifyInvoice, processFallbackJob, StoreInvoiceExtraction).
KeepsTheLedger == Kept!Spec

===============================================================================
