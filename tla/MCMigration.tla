---------------------------- MODULE MCMigration ----------------------------
(* Migrations and databases for model-checking Migration. *)
EXTENDS Migration

CONSTANTS web, worker

Stmt(op, table, cols) == [op |-> op, table |-> table, cols |-> cols]

\* The kinds of statement the three versions are made of.
Three == <<
    <<Stmt("create", "extractions", {"key"}),
      Stmt("add", "extractions", {"rescan"}),
      Stmt("index", "extractions", {"rescan"}),
      Stmt("create", "messages", {"key"}),
      Stmt("create", "worker_state", {"pool", "slot"})>>,
    <<Stmt("add", "messages", {"followup"}),
      Stmt("index", "messages", {"followup"})>>,
    <<Stmt("create", "verdicts", {"key"})>>>>

Holding(extractions, messages, state, recorded) ==
    [tables |-> [t \in Table |-> CASE t = "extractions" -> extractions
                                   [] t = "messages" -> messages
                                   [] t = "worker_state" -> state
                                   [] OTHER -> {}],
     versions |-> recorded]

\* A new file, one from before the versions with either old shape of
\* worker_state, and one at version 1 whose worker_state is still old.
Files == {
    Holding({}, {}, {}, {}),
    Holding({"key", "rescan"}, {"key"}, {"check"}, {}),
    Holding({"key"}, {"key"}, {"slot"}, {}),
    Holding({"key", "rescan"}, {"key"}, {"slot"}, {1})}
===========================================================================
