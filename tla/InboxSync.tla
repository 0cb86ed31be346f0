------------------------------ MODULE InboxSync ------------------------------
(***************************************************************************)
(* The sync loop of dispatch-web (internal/sync): it copies the categories  *)
(* of the inbox into the SQLite cache, incrementally through Graph's delta  *)
(* links and in full when a link cannot be used.  Meanwhile the worker and  *)
(* people in Outlook change Graph, and the process may be restarted.        *)
(*                                                                         *)
(* A delta link is a position in Graph's change feed.  The model keeps, for *)
(* the saved link and for the one in hand, the messages that have changed   *)
(* since it was issued; that is what the next delta call delivers.          *)
(***************************************************************************)
EXTENDS Categories, Naturals, FiniteSets

CONSTANTS
    Msg,            \* messages of the mailbox
    Age,            \* [Msg -> Nat]: lower is newer
    Limit,          \* how many messages a full list returns
    Lists,          \* category lists the worker and people write
    Faults,         \* the faults considered, among FaultKinds
    MaxChanges,     \* bound: changes made in Graph
    MaxRestarts     \* bound: restarts of dispatch-web

FaultKinds ==
    {"delta",   \* a delta call fails, or its link has expired (410)
     "list",    \* the full list fails
     "upsert",  \* storing a message fails
     "link",    \* reading, saving or clearing the link fails
     "crash"}   \* the process dies and starts again

ASSUME SyncAssumption ==
    /\ Age \in [Msg -> Nat]
    /\ Limit \in Nat
    /\ Lists \subseteq SUBSET Category
    /\ Faults \subseteq FaultKinds
    /\ MaxChanges \in Nat /\ MaxRestarts \in Nat

VARIABLES
    inbox,      \* Graph: messages in the Inbox folder
    cats,       \* Graph: the categories of each message
    changed,    \* Graph: messages changed since the saved link was issued
    known,      \* cache: messages that have a row
    cached,     \* cache: the categories in that row
    link,       \* cache: is a delta link saved
    sync,       \* what the running SyncInbox holds
    skipped,    \* history: changes that a saved link has passed without a store
    changes, restarts   \* counters for the bounds

graphVars == <<inbox, cats>>
rowVars == <<known, cached>>
linkVars == <<changed, link, skipped>>
boundVars == <<changes, restarts>>
vars == <<graphVars, rowVars, linkVars, sync, boundVars>>

\* batch is what is left to upsert of a delta or a full list, newer the
\* messages changed since the link in hand was issued, missed the ones the
\* round leaves unstored although its link will not deliver them.
Sync == [pc : {"idle", "list", "upsert", "seeded"}, full : BOOLEAN,
         batch : SUBSET [m : Msg, cats : SUBSET Category],
         newer : SUBSET Msg, missed : SUBSET Msg]

NoSync == [pc |-> "idle", full |-> FALSE, batch |-> {}, newer |-> {}, missed |-> {}]

Init ==
    /\ inbox \in SUBSET Msg
    /\ cats \in [Msg -> Lists]
    /\ changed = {}
    /\ known = {}
    /\ cached = [m \in Msg |-> {}]
    /\ link = FALSE
    /\ sync = NoSync
    /\ skipped = {}
    /\ changes = 0
    /\ restarts = 0

-----------------------------------------------------------------------------
(* Graph. *)

\* A message changes: whatever link is in use will deliver it.
Touch(m) ==
    /\ changed' = changed \cup {m}
    /\ skipped' = skipped \ {m}
    /\ sync' = [sync EXCEPT !.newer = @ \cup {m}]

\* Messages of a delta response or a list, with their categories of now.
Snapshot(ids) == {[m |-> m, cats |-> cats[m]] : m \in ids}

\* ListInboxMessages sorts by date and cuts at its limit, if that is not 0.
Newest == {m \in inbox :
             Limit > 0 => Cardinality({x \in inbox : Age[x] < Age[m]}) < Limit}

\* The worker or a person writes a list, mail arrives, or comes back.
Edit(m) ==
    /\ changes < MaxChanges
    /\ m \in inbox
    /\ \E new \in Lists \ {cats[m]} : cats' = [cats EXCEPT ![m] = new]
    /\ Touch(m)
    /\ changes' = changes + 1
    /\ UNCHANGED <<inbox, rowVars, link, restarts>>

Arrive(m) ==
    /\ changes < MaxChanges
    /\ m \notin inbox
    /\ inbox' = inbox \cup {m}
    /\ Touch(m)
    /\ changes' = changes + 1
    /\ UNCHANGED <<cats, rowVars, link, restarts>>

\* A removal is delivered by id and only logged: rows are never pruned.
Leave(m) ==
    /\ changes < MaxChanges
    /\ m \in inbox
    /\ inbox' = inbox \ {m}
    /\ changes' = changes + 1
    /\ UNCHANGED <<cats, rowVars, linkVars, sync, restarts>>

-----------------------------------------------------------------------------
(* SyncInbox, as the only goroutine that calls it runs it. *)

LinkFails == "link" \in Faults

\* GetDeltaLink and ListInboxDelta.  Without a link, or when it cannot be
\* read, the response holds the whole inbox.
SyncDelta ==
    /\ sync.pc = "idle"
    /\ \/ /\ link
          /\ sync' = [NoSync EXCEPT !.pc = "upsert", !.batch = Snapshot(changed \cap inbox)]
       \/ /\ ~link \/ LinkFails
          /\ sync' = [NoSync EXCEPT !.pc = "upsert", !.batch = Snapshot(inbox)]
    /\ UNCHANGED <<graphVars, rowVars, linkVars, boundVars>>

\* The link has expired and is cleared, or the call fails and the link stays:
\* both fall through to the full list.
SyncDeltaFails ==
    /\ sync.pc = "idle"
    /\ "delta" \in Faults
    /\ \/ link' = FALSE
       \/ UNCHANGED link
    /\ sync' = [NoSync EXCEPT !.pc = "list", !.full = TRUE]
    /\ UNCHANGED <<graphVars, rowVars, changed, skipped, boundVars>>

SyncList ==
    /\ sync.pc = "list"
    /\ sync' = [NoSync EXCEPT !.pc = "upsert", !.full = TRUE,
                              !.batch = Snapshot(Newest), !.missed = inbox \ Newest]
    /\ UNCHANGED <<graphVars, rowVars, linkVars, boundVars>>

SyncListFails ==
    /\ sync.pc = "list"
    /\ "list" \in Faults
    /\ sync' = NoSync
    /\ UNCHANGED <<graphVars, rowVars, linkVars, boundVars>>

\* Mutant: ON CONFLICT DO NOTHING, as other statements of the cache have it.
UpsertKeepsRow ==
    /\ sync.pc = "upsert"
    /\ \E j \in sync.batch :
        /\ known' = known \cup {j.m}
        /\ cached' = [cached EXCEPT ![j.m] = IF j.m \in known THEN @ ELSE j.cats]
        /\ sync' = [sync EXCEPT !.batch = @ \ {j}]
    /\ UNCHANGED <<graphVars, linkVars, boundVars>>

\* Mutant: arguments of the statement in the wrong order, the id in the column
\* of the categories.
UpsertRaw ==
    /\ sync.pc = "upsert"
    /\ \E j \in sync.batch :
        /\ known' = known \cup {j.m}
        /\ cached' = [cached EXCEPT ![j.m] = {j.m}]
        /\ sync' = [sync EXCEPT !.batch = @ \ {j}]
    /\ UNCHANGED <<graphVars, linkVars, boundVars>>

\* upsertAndMirror, message by message, in the order of the response.
Upsert ==
    /\ sync.pc = "upsert"
    /\ \E j \in sync.batch :
        /\ known' = known \cup {j.m}
        /\ cached' = [cached EXCEPT ![j.m] = j.cats]
        /\ sync' = [sync EXCEPT !.batch = @ \ {j}]
    /\ UNCHANGED <<graphVars, linkVars, boundVars>>

\* Mutant: a full resync goes on to its seed after an error.
UpsertFailsSeeds ==
    /\ sync.pc = "upsert"
    /\ sync.batch # {}
    /\ "upsert" \in Faults
    /\ sync' = [sync EXCEPT !.batch = {}]
    /\ UNCHANGED <<graphVars, rowVars, linkVars, boundVars>>

\* The first error ends the upserts.  A full resync gives up; a delta round
\* goes on to save its link.
UpsertFails ==
    /\ sync.pc = "upsert"
    /\ sync.batch # {}
    /\ "upsert" \in Faults
    /\ sync' = IF sync.full THEN NoSync
               ELSE [sync EXCEPT !.batch = {}, !.missed = @ \cup {j.m : j \in sync.batch}]
    /\ UNCHANGED <<graphVars, rowVars, linkVars, boundVars>>

\* SetDeltaLink at the end of a delta round; a failed save is ignored.
SaveLink ==
    /\ sync.pc = "upsert"
    /\ sync.batch = {}
    /\ ~sync.full
    /\ \/ /\ link' = TRUE
          /\ changed' = sync.newer
          /\ skipped' = (skipped \cup sync.missed) \ sync.newer
       \/ LinkFails /\ UNCHANGED linkVars
    /\ sync' = NoSync
    /\ UNCHANGED <<graphVars, rowVars, boundVars>>

\* A full resync ends with a delta call for its link only.  The messages of
\* the response are not stored, so what changed since the list was made is
\* passed over.
SeedFetch ==
    /\ sync.pc = "upsert"
    /\ sync.batch = {}
    /\ sync.full
    /\ \/ sync' = [sync EXCEPT !.pc = "seeded", !.newer = {},
                               !.missed = @ \cup sync.newer]
       \/ "delta" \in Faults /\ sync' = NoSync
    /\ UNCHANGED <<graphVars, rowVars, linkVars, boundVars>>

SeedSave ==
    /\ sync.pc = "seeded"
    /\ \/ /\ link' = TRUE
          /\ changed' = sync.newer
          /\ skipped' = (skipped \cup sync.missed) \ sync.newer
       \/ LinkFails /\ UNCHANGED linkVars
    /\ sync' = NoSync
    /\ UNCHANGED <<graphVars, rowVars, boundVars>>

SyncStep ==
    \/ SyncDelta \/ SyncDeltaFails \/ SyncList \/ SyncListFails \/ Upsert
    \/ UpsertFails \/ SaveLink \/ SeedFetch \/ SeedSave

\* The process dies: what it has read is gone, the link of the last complete
\* round is not.
Restart ==
    /\ "crash" \in Faults
    /\ restarts < MaxRestarts
    /\ restarts' = restarts + 1
    /\ sync' = NoSync
    /\ UNCHANGED <<graphVars, rowVars, linkVars, changes>>

Next ==
    \/ \E m \in Msg : Edit(m) \/ Arrive(m) \/ Leave(m)
    \/ SyncStep
    \/ Restart

Spec == Init /\ [][Next]_vars

\* The ticker runs a sync for as long as the process lives.
FairSpec == Spec /\ WF_vars(SyncStep)

-----------------------------------------------------------------------------
(* Properties. *)

Fresh(m) == m \in known /\ cached[m] = cats[m]

\* Every variable keeps its type, through every fault of a sync (SyncInbox).
TypeOK ==
    /\ inbox \subseteq Msg
    /\ cats \in [Msg -> SUBSET Category]
    /\ changed \subseteq Msg
    /\ known \subseteq Msg
    /\ cached \in [Msg -> SUBSET Category]
    /\ link \in BOOLEAN
    /\ sync \in Sync
    /\ skipped \subseteq Msg
    /\ changes \in 0..MaxChanges
    /\ restarts \in 0..MaxRestarts

\* A message whose row is missing or stale will be delivered by a later round
\* (there is no link, or it changed since the link was issued): no restart,
\* failed save of a link or change during a round makes the sync forget it.
\* SyncInbox and processDeltaResult: the old link stays until all is stored.
NothingMissed == \A m \in inbox : Fresh(m) \/ ~link \/ m \in changed

\* Under every fault, the only changes that are never delivered are those a
\* failed upsert of a delta round left out, those beyond the limit of a full
\* resync, and those made between its list and its seed (SyncInbox).
MissedOnlyWhenSkipped ==
    \A m \in inbox : Fresh(m) \/ ~link \/ m \in changed \/ m \in skipped

\* A call of the round, or a statement that stores a message, fails.
RoundFails ==
    SyncDeltaFails \/ SyncListFails \/ UpsertFails \/ (SeedFetch /\ sync'.pc = "idle")

\* When Graph no longer changes and rounds no longer fail, the cache comes to
\* agree with the inbox for good, but for what was passed over before: from
\* whatever the failures left, and although the link can still not be read or
\* saved at times.
Converges ==
    <>[][~RoundFails]_vars => <>[](\A m \in inbox : Fresh(m) \/ m \in skipped)

=============================================================================
