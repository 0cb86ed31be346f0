-------------------------- MODULE InboxSync_proofs --------------------------
(***************************************************************************)
(* The sync loop forgets no change it could have stored: the inductive      *)
(* invariant says what the batch in hand still owes, and that what has      *)
(* changed under the loop's feet comes with the next link.                  *)
(***************************************************************************)
EXTENDS InboxSync, TLAPS

LEMMA NoSyncType == NoSync \in Sync
BY DEF NoSync, Sync

LEMMA SnapshotType ==
    ASSUME TypeOK, NEW ids \in SUBSET Msg
    PROVE  Snapshot(ids) \subseteq [m : Msg, cats : SUBSET Category]
BY DEF TypeOK, Snapshot

\* Every variable keeps its type.
THEOREM SyncTypeCorrect == Spec => []TypeOK
<1>1. Init => TypeOK
  <2> SUFFICES ASSUME Init PROVE TypeOK
    OBVIOUS
  <2>1. cats \in [Msg -> SUBSET Category] /\ cached \in [Msg -> SUBSET Category]
    BY SyncAssumption DEF Init
  <2>2. changes \in 0..MaxChanges /\ restarts \in 0..MaxRestarts
    BY SyncAssumption DEF Init
  <2> QED BY <2>1, <2>2, NoSyncType DEF Init, TypeOK
<1>2. TypeOK /\ [Next]_vars => TypeOK'
  <2> SUFFICES ASSUME TypeOK, [Next]_vars PROVE TypeOK'
    OBVIOUS
  <2> USE NoSyncType
  <2>1. ASSUME NEW m \in Msg, Edit(m) \/ Arrive(m) PROVE TypeOK'
    <3>1. sync' \in Sync /\ changed' \subseteq Msg /\ skipped' \subseteq Msg
      BY <2>1 DEF Edit, Arrive, Touch, TypeOK, Sync
    <3>2. changes' \in 0..MaxChanges
      BY <2>1, SyncAssumption DEF Edit, Arrive, TypeOK
    <3> QED BY <2>1, <3>1, <3>2, SyncAssumption
            DEF Edit, Arrive, TypeOK, rowVars, boundVars
  <2>2. ASSUME NEW m \in Msg, Leave(m) PROVE TypeOK'
    BY <2>2, SyncAssumption DEF Leave, TypeOK, rowVars, linkVars
  <2>3. CASE SyncDelta
    <3>1. Snapshot(changed \cap inbox) \subseteq [m : Msg, cats : SUBSET Category]
      BY SnapshotType DEF TypeOK
    <3>2. Snapshot(inbox) \subseteq [m : Msg, cats : SUBSET Category]
      BY SnapshotType DEF TypeOK
    <3>3. sync' \in Sync
      BY <2>3, <3>1, <3>2, ZenonT(40) DEF SyncDelta, Sync, NoSync
    <3> QED BY <2>3, <3>3 DEF SyncDelta, TypeOK, graphVars, rowVars, linkVars, boundVars
  <2>4. CASE SyncDeltaFails
    <3>1. sync' \in Sync
      BY <2>4 DEF SyncDeltaFails, Sync, NoSync
    <3> QED BY <2>4, <3>1 DEF SyncDeltaFails, TypeOK, graphVars, rowVars, boundVars
  <2>5. CASE SyncList
    <3>1. Snapshot(Newest) \subseteq [m : Msg, cats : SUBSET Category]
      BY SnapshotType DEF TypeOK, Newest
    <3>2. sync' \in Sync
      BY <2>5, <3>1 DEF SyncList, Sync, NoSync, TypeOK
    <3> QED BY <2>5, <3>2 DEF SyncList, TypeOK, graphVars, rowVars, linkVars, boundVars
  <2>6. CASE SyncListFails \/ Restart
    BY <2>6, SyncAssumption
    DEF SyncListFails, Restart, TypeOK, graphVars, rowVars, linkVars, boundVars
  <2>7. CASE Upsert
    <3>1. PICK j \in sync.batch :
             /\ known' = known \cup {j.m}
             /\ cached' = [cached EXCEPT ![j.m] = j.cats]
             /\ sync' = [sync EXCEPT !.batch = @ \ {j}]
      BY <2>7 DEF Upsert
    <3>2. j.m \in Msg /\ j.cats \in SUBSET Category
      BY DEF TypeOK, Sync
    <3>3. sync' \in Sync
      BY <3>1 DEF TypeOK, Sync
    <3> QED BY <2>7, <3>1, <3>2, <3>3 DEF Upsert, TypeOK, graphVars, linkVars, boundVars
  <2>8. CASE UpsertFails
    <3>1. {j.m : j \in sync.batch} \subseteq Msg
      BY DEF TypeOK, Sync
    <3>2. sync' \in Sync
      BY <2>8, <3>1 DEF UpsertFails, TypeOK, Sync
    <3> QED BY <2>8, <3>2 DEF UpsertFails, TypeOK, graphVars, rowVars, linkVars, boundVars
  <2>9. CASE SaveLink \/ SeedSave
    <3>1. sync.newer \subseteq Msg /\ sync.missed \subseteq Msg
      BY DEF TypeOK, Sync
    <3> QED BY <2>9, <3>1
            DEF SaveLink, SeedSave, TypeOK, graphVars, rowVars, linkVars, boundVars
  <2>10. CASE SeedFetch
    <3>1. sync' \in Sync
      BY <2>10, ZenonT(40) DEF SeedFetch, TypeOK, Sync
    <3> QED BY <2>10, <3>1 DEF SeedFetch, TypeOK, graphVars, rowVars, linkVars, boundVars
  <2>11. CASE UNCHANGED vars
    BY <2>11 DEF vars, TypeOK, graphVars, rowVars, linkVars, boundVars
  <2> QED BY <2>1, <2>2, <2>3, <2>4, <2>5, <2>6, <2>7, <2>8, <2>9, <2>10, <2>11
          DEF Next, SyncStep
<1> QED BY <1>1, <1>2, PTL DEF Spec

-----------------------------------------------------------------------------
Held(m) == [m |-> m, cats |-> cats[m]] \in sync.batch

\* A batch that is stored leaves nothing behind but what the next link
\* delivers and what is recorded as missed; a stale entry of the batch belongs
\* to a message that has changed since; and the saved link is the older one.
SyncInv ==
    /\ MissedOnlyWhenSkipped
    /\ sync.newer \subseteq changed
    /\ \A j \in sync.batch : j.cats = cats[j.m] \/ j.m \in sync.newer
    /\ sync.pc \in {"upsert", "seeded"} =>
        \A m \in inbox : \/ Fresh(m) \/ Held(m) \/ m \in skipped
                         \/ m \in sync.newer \/ m \in sync.missed
    /\ sync.pc = "seeded" => sync.batch = {}

LEMMA SyncInvInit == Init => SyncInv
BY DEF Init, SyncInv, NoSync, MissedOnlyWhenSkipped

LEMMA SyncInvStep == TypeOK /\ SyncInv /\ [Next]_vars => SyncInv'
<1> SUFFICES ASSUME TypeOK, SyncInv, [Next]_vars PROVE SyncInv'
  OBVIOUS
<1>1. ASSUME NEW m \in Msg, Edit(m) \/ Arrive(m) PROVE SyncInv'
  <2>1. /\ changed' = changed \cup {m}
        /\ skipped' = skipped \ {m}
        /\ sync' = [sync EXCEPT !.newer = @ \cup {m}]
        /\ inbox' \subseteq inbox \cup {m}
        /\ \A x \in Msg : x # m => cats'[x] = cats[x]
        /\ link' = link /\ known' = known /\ cached' = cached
    BY <1>1 DEF Edit, Arrive, Touch, TypeOK, rowVars
  <2>2. /\ sync'.newer = sync.newer \cup {m} /\ sync'.batch = sync.batch
        /\ sync'.pc = sync.pc /\ sync'.missed = sync.missed
    BY <2>1 DEF TypeOK, Sync
  <2>3. MissedOnlyWhenSkipped'
    BY <2>1 DEF SyncInv, MissedOnlyWhenSkipped, Fresh, TypeOK
  <2>4. \A j \in sync'.batch : j.cats = cats'[j.m] \/ j.m \in sync'.newer
    BY <2>1, <2>2 DEF SyncInv, TypeOK, Sync
  <2>5. ASSUME sync'.pc \in {"upsert", "seeded"}, NEW x \in inbox', x # m
        PROVE  \/ Fresh(x)' \/ Held(x)' \/ x \in skipped'
               \/ x \in sync'.newer \/ x \in sync'.missed
    BY <2>1, <2>2, <2>5 DEF SyncInv, TypeOK, Fresh, Held
  <2> QED BY <2>1, <2>2, <2>3, <2>4, <2>5 DEF SyncInv
<1>2. ASSUME NEW m \in Msg, Leave(m) PROVE SyncInv'
  BY <1>2 DEF Leave, SyncInv, MissedOnlyWhenSkipped, Fresh, Held, rowVars, linkVars
<1>3. CASE SyncDelta
  <2>1. /\ sync'.pc = "upsert" /\ sync'.newer = {}
        /\ \/ sync'.batch = Snapshot(inbox)
           \/ link /\ sync'.batch = Snapshot(changed \cap inbox)
        /\ UNCHANGED <<inbox, cats, known, cached, changed, link, skipped>>
    BY <1>3 DEF SyncDelta, NoSync, graphVars, rowVars, linkVars
  <2>2. \A j \in sync'.batch : j.cats = cats'[j.m]
    BY <2>1 DEF Snapshot
  <2>3. \A m \in inbox : Fresh(m)' \/ Held(m)' \/ m \in skipped'
    BY <2>1 DEF SyncInv, MissedOnlyWhenSkipped, Fresh, Held, Snapshot
  <2>4. MissedOnlyWhenSkipped'
    BY <2>1 DEF SyncInv, MissedOnlyWhenSkipped, Fresh
  <2> QED BY <2>1, <2>2, <2>3, <2>4 DEF SyncInv
<1>4. CASE SyncDeltaFails \/ SyncListFails \/ Restart
  <2>1. /\ sync'.pc \in {"idle", "list"} /\ sync'.newer = {} /\ sync'.batch = {}
        /\ UNCHANGED <<inbox, cats, known, cached, changed, skipped>>
        /\ UNCHANGED link \/ link' = FALSE
    <3>1. CASE SyncDeltaFails
      BY <3>1 DEF SyncDeltaFails, NoSync, graphVars, rowVars
    <3>2. CASE SyncListFails \/ Restart
      BY <3>2 DEF SyncListFails, Restart, NoSync, graphVars, rowVars, linkVars
    <3> QED BY <1>4, <3>1, <3>2
  <2>2. MissedOnlyWhenSkipped'
    BY <2>1 DEF SyncInv, MissedOnlyWhenSkipped, Fresh
  <2> QED BY <2>1, <2>2 DEF SyncInv
<1>5. CASE SyncList
  <2>1. /\ sync'.pc = "upsert" /\ sync'.newer = {} /\ sync'.missed = inbox \ Newest
        /\ sync'.batch = Snapshot(Newest)
        /\ UNCHANGED <<inbox, cats, known, cached, changed, link, skipped>>
    BY <1>5 DEF SyncList, NoSync, graphVars, rowVars, linkVars
  <2>2. \A j \in sync'.batch : j.cats = cats'[j.m]
    BY <2>1 DEF Snapshot
  <2>3. \A m \in inbox : Held(m)' \/ m \in sync'.missed
    BY <2>1 DEF Held, Snapshot
  <2>4. MissedOnlyWhenSkipped'
    BY <2>1 DEF SyncInv, MissedOnlyWhenSkipped, Fresh
  <2> QED BY <2>1, <2>2, <2>3, <2>4 DEF SyncInv
<1>6. CASE Upsert
  <2>1. PICK j \in sync.batch :
           /\ known' = known \cup {j.m}
           /\ cached' = [cached EXCEPT ![j.m] = j.cats]
           /\ sync' = [sync EXCEPT !.batch = @ \ {j}]
    BY <1>6 DEF Upsert
  <2>2. UNCHANGED <<inbox, cats, changed, link, skipped>>
    BY <1>6 DEF Upsert, graphVars, linkVars
  <2>3. /\ sync'.newer = sync.newer /\ sync'.batch = sync.batch \ {j}
        /\ sync'.pc = sync.pc /\ sync'.missed = sync.missed /\ sync.pc = "upsert"
    BY <1>6, <2>1 DEF Upsert, TypeOK, Sync
  <2>4. j.m \in Msg /\ j.cats \in SUBSET Category
    BY DEF TypeOK, Sync
  <2>5. j.cats = cats[j.m] \/ j.m \in sync.newer
    BY DEF SyncInv
  <2>6. \A m \in inbox : Fresh(m) => Fresh(m)' \/ m \in sync.newer
    BY <2>1, <2>2, <2>4, <2>5 DEF Fresh, TypeOK
  <2>7. \A m \in inbox : Held(m) => Fresh(m)' \/ Held(m)'
    BY <2>1, <2>2, <2>3, <2>4 DEF Held, Fresh, TypeOK
  <2>8. MissedOnlyWhenSkipped'
    BY <2>2, <2>6 DEF SyncInv, MissedOnlyWhenSkipped
  <2>9. \A m \in inbox' : \/ Fresh(m)' \/ Held(m)' \/ m \in skipped'
                          \/ m \in sync'.newer \/ m \in sync'.missed
    BY <2>2, <2>3, <2>6, <2>7 DEF SyncInv
  <2> QED BY <2>2, <2>3, <2>8, <2>9 DEF SyncInv
<1>7. CASE UpsertFails
  <2>1. UNCHANGED <<inbox, cats, known, cached, changed, link, skipped>>
    BY <1>7 DEF UpsertFails, graphVars, rowVars, linkVars
  <2>2. MissedOnlyWhenSkipped'
    BY <2>1 DEF SyncInv, MissedOnlyWhenSkipped, Fresh
  <2>3. CASE sync' = NoSync
    BY <2>1, <2>2, <2>3 DEF SyncInv, NoSync
  <2>4. CASE sync' = [sync EXCEPT !.batch = {}, !.missed = @ \cup {j.m : j \in sync.batch}]
                /\ ~sync.full
    <3>1. /\ sync'.newer = sync.newer /\ sync'.batch = {}
          /\ sync.pc = "upsert" /\ sync'.pc = "upsert"
          /\ sync'.missed = sync.missed \cup {j.m : j \in sync.batch}
      BY <1>7, <2>4 DEF UpsertFails, TypeOK, Sync
    <3>2. \A m \in inbox : Held(m) => m \in sync'.missed
      BY <3>1 DEF Held
    <3>3. \A m \in inbox : \/ Fresh(m)' \/ m \in skipped'
                           \/ m \in sync'.newer \/ m \in sync'.missed
      <4>1. \A m \in inbox : \/ Fresh(m) \/ m \in skipped
                             \/ m \in sync.newer \/ m \in sync'.missed
        BY <3>1, <3>2 DEF SyncInv
      <4>2. \A m \in inbox : Fresh(m) => Fresh(m)'
        BY <2>1 DEF Fresh
      <4> QED BY <2>1, <3>1, <4>1, <4>2
    <3> QED BY <2>1, <2>2, <3>1, <3>3 DEF SyncInv
  <2> QED BY <1>7, <2>3, <2>4 DEF UpsertFails
<1>8. CASE SaveLink \/ SeedSave
  <2>1. /\ sync'.newer = {} /\ sync'.batch = {} /\ sync'.pc = "idle"
        /\ UNCHANGED <<inbox, cats, known, cached>>
        /\ sync.pc \in {"upsert", "seeded"} /\ sync.batch = {}
    BY <1>8 DEF SaveLink, SeedSave, NoSync, graphVars, rowVars, SyncInv
  <2>2. \/ changed' = sync.newer /\ skipped' = (skipped \cup sync.missed) \ sync.newer
        \/ UNCHANGED <<changed, link, skipped>>
    BY <1>8 DEF SaveLink, SeedSave, linkVars
  <2>3. \A m \in inbox : Fresh(m) \/ m \in skipped \/ m \in sync.newer \/ m \in sync.missed
    BY <2>1 DEF SyncInv, Held
  <2>4. MissedOnlyWhenSkipped'
    BY <2>1, <2>2, <2>3 DEF SyncInv, MissedOnlyWhenSkipped, Fresh
  <2> QED BY <2>1, <2>4 DEF SyncInv
<1>9. CASE SeedFetch
  <2>1. /\ UNCHANGED <<inbox, cats, known, cached, changed, link, skipped>>
        /\ sync.pc = "upsert" /\ sync.batch = {}
    BY <1>9 DEF SeedFetch, graphVars, rowVars, linkVars
  <2>2. MissedOnlyWhenSkipped'
    BY <2>1 DEF SyncInv, MissedOnlyWhenSkipped, Fresh
  <2>3. CASE sync' = NoSync
    BY <2>1, <2>2, <2>3 DEF SyncInv, NoSync
  <2>4. CASE sync' = [sync EXCEPT !.pc = "seeded", !.newer = {},
                                  !.missed = @ \cup sync.newer]
    <3>1. /\ sync'.newer = {} /\ sync'.batch = {}
          /\ sync'.missed = sync.missed \cup sync.newer
      BY <2>1, <2>4 DEF TypeOK, Sync
    <3> QED BY <2>1, <2>2, <3>1 DEF SyncInv, Fresh, Held
  <2> QED BY <1>9, <2>3, <2>4 DEF SeedFetch
<1>10. CASE UNCHANGED vars
  BY <1>10 DEF vars, SyncInv, MissedOnlyWhenSkipped, Fresh, Held,
               graphVars, rowVars, linkVars
<1> QED BY <1>1, <1>2, <1>3, <1>4, <1>5, <1>6, <1>7, <1>8, <1>9, <1>10 DEF Next, SyncStep

\* Under every fault a change is delivered later unless a saved link has passed
\* it in one of three ways (SyncInbox, processDeltaResult).
THEOREM OnlySkippedMissed == Spec => []MissedOnlyWhenSkipped
<1>1. SyncInv => MissedOnlyWhenSkipped
  BY DEF SyncInv
<1> QED BY <1>1, SyncInvInit, SyncInvStep, SyncTypeCorrect, PTL DEF Spec

-----------------------------------------------------------------------------
\* Faults that make a link pass a change: a failing store, and the fallback.
NoSkip == Faults \cap {"delta", "upsert"} = {}

NothingSkipped ==
    /\ skipped = {} /\ sync.missed = {}
    /\ sync.pc \in {"idle", "upsert"} /\ ~sync.full

\* Without failing stores and delta calls, no restart, unsaved link or change
\* during a round makes the sync forget a message (processDeltaResult saves the
\* link last).
THEOREM MissesNothing ==
    ASSUME NoSkip
    PROVE  Spec => []NothingMissed
<1>1. Init => NothingSkipped
  BY DEF Init, NothingSkipped, NoSync
<1>2. TypeOK /\ NothingSkipped /\ [Next]_vars => NothingSkipped'
  <2> SUFFICES ASSUME TypeOK, NothingSkipped, [Next]_vars PROVE NothingSkipped'
    OBVIOUS
  <2>1. ASSUME NEW m \in Msg, Edit(m) \/ Arrive(m) \/ Leave(m) PROVE NothingSkipped'
    BY <2>1 DEF Edit, Arrive, Leave, Touch, NothingSkipped, TypeOK, Sync, linkVars
  <2>2. CASE SyncDelta \/ Restart
    <3>1. sync'.missed = {} /\ sync'.pc \in {"idle", "upsert"} /\ ~sync'.full
      <4>1. CASE SyncDelta
        BY <4>1 DEF SyncDelta, NoSync
      <4>2. CASE Restart
        BY <4>2 DEF Restart, NoSync
      <4> QED BY <2>2, <4>1, <4>2
    <3>2. UNCHANGED skipped
      BY <2>2 DEF SyncDelta, Restart, linkVars
    <3> QED BY <3>1, <3>2 DEF NothingSkipped
  <2>3. CASE SyncDeltaFails \/ SyncList \/ SyncListFails \/ UpsertFails
             \/ SeedFetch \/ SeedSave
    BY <2>3, NoSkip DEF NoSkip, NothingSkipped, SyncDeltaFails, SyncList, SyncListFails,
       UpsertFails, SeedFetch, SeedSave
  <2>4. CASE Upsert \/ SaveLink
    BY <2>4 DEF Upsert, SaveLink, NothingSkipped, NoSync, TypeOK, Sync, linkVars
  <2>5. CASE UNCHANGED vars
    BY <2>5 DEF vars, NothingSkipped, linkVars
  <2> QED BY <2>1, <2>2, <2>3, <2>4, <2>5 DEF Next, SyncStep
<1>3. MissedOnlyWhenSkipped /\ NothingSkipped => NothingMissed
  BY DEF MissedOnlyWhenSkipped, NothingSkipped, NothingMissed
<1> QED BY <1>1, <1>2, <1>3, SyncTypeCorrect, OnlySkippedMissed, PTL DEF Spec

=============================================================================
