---------------------------- MODULE Worker_proofs ----------------------------
(***************************************************************************)
(* Proofs about Worker, for any mailbox, pools, channel capacities and     *)
(* faults: its types; that a shutdown loses nothing, a stored status       *)
(* stays and a discrepancy is listed as one; and that no extraction job is *)
(* lost, as long as every store succeeds, every answer to a PATCH arrives  *)
(* and the process lives.                                                  *)
(***************************************************************************)
EXTENDS WorkerView, TLAPS

-----------------------------------------------------------------------------
(* What the operators on categories and rows return. *)

\* The lists the worker and the clerks send consist of categories.
LEMMA CategoryTypes ==
    ASSUME NEW old \in SUBSET Category
    PROVE  /\ \A vendor \in Vendors, buyer \in SUBSET Buyers, kind \in SUBSET MailKinds :
                mergeCategories(old, vendor, buyer, kind) \in SUBSET Category
           /\ \A class \in Classes :
                skipCategories(old, skipKind(class)) \in SUBSET Category
           /\ \A v \in VerifyResults :
                applyAutoBlockers(old, autoBlockersFromRecon(v)) \in SUBSET Category
           /\ \A status \in Statuses : ReplaceStatus(old, status) \in SUBSET Category
<1>1. ASSUME NEW vendor \in Vendors, NEW buyer \in SUBSET Buyers, NEW kind \in SUBSET MailKinds
      PROVE  mergeCategories(old, vendor, buyer, kind) \in SUBSET Category
  <2>1. <<"Vendor", vendor>> \in Category /\ <<"Status", "New">> \in Category
    BY DEF Category, Statuses
  <2>2. {"Buyer"} \X buyer \subseteq Category
    BY DEF Category
  <2>3. {"Kind"} \X kind \subseteq Category
    BY DEF Category, Kinds
  <2> QED BY <2>1, <2>2, <2>3 DEF mergeCategories, Without
<1>2. ASSUME NEW class \in Classes
      PROVE  skipCategories(old, skipKind(class)) \in SUBSET Category
  <2>1. skipKind(class) \in Kinds
    BY DEF Kinds, skipKind
  <2>2. <<"Status", "Done">> \in Category /\ <<"Kind", skipKind(class)>> \in Category
    BY <2>1 DEF Category, Statuses
  <2> QED BY <2>2 DEF skipCategories, Without
<1>3. ASSUME NEW v \in VerifyResults
      PROVE  applyAutoBlockers(old, autoBlockersFromRecon(v)) \in SUBSET Category
  <2>1. autoBlockersFromRecon(v) \subseteq BlockerOptions
    BY DEF autoBlockersFromRecon, BlockerOptions
  <2>2. <<"Status", "Blocked">> \in Category
    BY DEF Category, Statuses
  <2>3. {"Blocker"} \X autoBlockersFromRecon(v) \subseteq Category
    BY <2>1 DEF Category
  <2> QED BY <2>2, <2>3 DEF applyAutoBlockers
<1>4. ASSUME NEW status \in Statuses
      PROVE  ReplaceStatus(old, status) \in SUBSET Category
  BY DEF ReplaceStatus, Without, Category
<1> QED BY <1>1, <1>2, <1>3, <1>4

\* The SQL statements turn rows into rows.
LEMMA RowTypes ==
    ASSUME NEW r \in Row
    PROVE  /\ NoRow \in Row
           /\ \A model \in Models, data \in Data, rescanIt \in BOOLEAN :
                StoreInvoiceExtraction(r, model, data, rescanIt) \in Row
           /\ \A v \in VerifyResults : StoreReconciliation(r, v) \in Row
           /\ StubExtractionForRescan(r) \in Row
           /\ MarkSkipExtraction(r) \in Row
           /\ MarkRescanExhausted(r) \in Row
           /\ SweepOrphanedRescans(r) \in Row
<1>1. NoRow \in Row
  BY DEF Row, NoRow, Data
<1>2. ASSUME NEW model \in Models, NEW data \in Data, NEW rescanIt \in BOOLEAN
      PROVE  StoreInvoiceExtraction(r, model, data, rescanIt) \in Row
  BY DEF Row, StoreInvoiceExtraction
<1>3. ASSUME NEW v \in VerifyResults
      PROVE  StoreReconciliation(r, v) \in Row
  BY DEF Row, StoreReconciliation
<1>4. StubExtractionForRescan(r) \in Row /\ MarkSkipExtraction(r) \in Row
  BY DEF Row, Models, VerdictModels, Data, NoRow, StubExtractionForRescan, MarkSkipExtraction
<1>5. MarkRescanExhausted(r) \in Row /\ SweepOrphanedRescans(r) \in Row
  BY MaxAttemptsAssumption DEF Row, MarkRescanExhausted, SweepOrphanedRescans
<1> QED BY <1>1, <1>2, <1>3, <1>4, <1>5

-----------------------------------------------------------------------------
(* Type correctness. *)

\* A PATCH with a list of categories leaves lists of categories.
LEMMA SetCategoriesType ==
    ASSUME GraphType, NEW m \in Msg, NEW new \in SUBSET Category,
           SetCategories(m, new), UNCHANGED where
    PROVE  GraphType'
BY DEF GraphType, SetCategories

\* A statement that leaves a row leaves rows.
LEMMA WriteRowType ==
    ASSUME CacheType, NEW m \in Msg, NEW new \in Row, WriteRow(m, new),
           UNCHANGED <<cached, cooldown>>
    PROVE  CacheType'
BY DEF CacheType, WriteRow

\* A sort worker that takes a step with a message in hand, or becomes idle.
LEMMA SorterUpdateType ==
    ASSUME SorterType, NEW s \in Sorters, NEW x \in Sorter,
           x.pc # "idle" => x.m \in Msg, sorter' = [sorter EXCEPT ![s] = x]
    PROVE  SorterType'
BY DEF SorterType

LEMMA SorterIdleType ==
    ASSUME SorterType, NEW s \in Sorters, sorter' = [sorter EXCEPT ![s] = IdleSorter]
    PROVE  SorterType'
<1>1. IdleSorter \in Sorter /\ IdleSorter.pc = "idle"
  BY DEF IdleSorter, Sorter
<1> QED BY <1>1, SorterUpdateType

LEMMA SorterStepType ==
    ASSUME SorterType, NEW s \in Sorters, NEW pc \in {"mark", "handoff"},
           sorter[s].pc # "idle", sorter' = [sorter EXCEPT ![s].pc = pc]
    PROVE  SorterType'
<1> DEFINE x == [sorter[s] EXCEPT !.pc = pc]
<1>1. x \in Sorter /\ x.m \in Msg
  BY DEF SorterType, Sorter
<1>2. sorter' = [sorter EXCEPT ![s] = x]
  OBVIOUS
<1> QED BY <1>1, <1>2, SorterUpdateType

\* The same for the extract and fallback workers.
LEMMA ProcUpdateType ==
    ASSUME ProcType, NEW p \in Procs, NEW x \in Proc, x.pc # "idle" => x.m \in Msg,
           x.v \in VerdictsAt(x.pc), proc' = [proc EXCEPT ![p] = x]
    PROVE  ProcType'
BY DEF ProcType

LEMMA FinishType ==
    ASSUME ProcType, NEW p \in Procs, Finish(p)
    PROVE  ProcType'
<1>1. IdleProc \in Proc /\ IdleProc.pc = "idle" /\ IdleProc.v \in VerdictsAt(IdleProc.pc)
  BY DEF IdleProc, Proc, ProcSteps, VerdictModels, VerdictsAt, topExtractionTier
<1> QED BY <1>1, ProcUpdateType DEF Finish

LEMMA GoToType ==
    ASSUME ProcType, NEW p \in Procs, NEW pc \in ProcSteps, proc[p].pc # "idle",
           proc[p].v \in VerdictsAt(pc), GoTo(p, pc)
    PROVE  ProcType'
<1> DEFINE x == [proc[p] EXCEPT !.pc = pc]
<1>1. x \in Proc /\ x.m \in Msg /\ x.pc = pc /\ x.v = proc[p].v
  BY DEF ProcType, Proc
<1>2. proc' = [proc EXCEPT ![p] = x]
  BY DEF GoTo
<1> HIDE DEF x
<1> QED BY <1>1, <1>2, ProcUpdateType

LEMMA GoStoreType ==
    ASSUME ProcType, NEW p \in Procs, NEW v \in Results \cup {"open"},
           NEW model \in VerdictModels,
           proc[p].pc # "idle", GoStore(p, v, model)
    PROVE  ProcType'
<1> DEFINE x == [proc[p] EXCEPT !.pc = "store", !.v = v, !.model = model]
<1>1. x \in Proc /\ x.m \in Msg /\ x.pc = "store" /\ x.v = v
  BY DEF ProcType, Proc, ProcSteps
<1>2. proc' = [proc EXCEPT ![p] = x]
  BY DEF GoStore
<1>3. v \in VerdictsAt("store")
  BY DEF VerdictsAt
<1> HIDE DEF x
<1> QED BY <1>1, <1>2, <1>3, ProcUpdateType

\* A part of the state that a step leaves alone keeps its type.
LEMMA StableTypes ==
    /\ GraphType /\ UNCHANGED graphVars => GraphType'
    /\ CacheType /\ UNCHANGED cacheVars => CacheType'
    /\ MainType /\ UNCHANGED <<mainVars, crashes>> => MainType'
    /\ SorterType /\ UNCHANGED sorter => SorterType'
    /\ ChannelType /\ UNCHANGED queueVars => ChannelType'
    /\ ProcType /\ UNCHANGED proc => ProcType'
    /\ ClerkType /\ UNCHANGED clerkVars => ClerkType'
BY DEF GraphType, CacheType, MainType, SorterType, ChannelType, ProcType, ClerkType,
       graphVars, cacheVars, queueVars, mainVars, clerkVars

\* A send by a sender that found room, and a receive, keep the channel typed.
LEMMA ChannelTypes ==
    ASSUME NEW Job, NEW q \in Seq(Job), NEW cap \in Nat, Len(q) <= cap
    PROVE  /\ \A j \in Job : HasRoom(q, cap) =>
                Append(q, j) \in Seq(Job) /\ Len(Append(q, j)) <= cap
           /\ q # <<>> => /\ Head(q) \in Job
                          /\ Tail(q) \in Seq(Job) /\ Len(Tail(q)) <= cap
BY DEF HasRoom

LEMMA SortStepType ==
    ASSUME TypeOK, NEW s \in Sorters, SortStep(s)
    PROVE  TypeOK'
<1> USE DEF TypeOK, graphVars, cacheVars, queueVars, mainVars, clerkVars
<1> DEFINE m == sorter[s].m
<1>1. sorter[s] \in Sorter /\ (sorter[s].pc # "idle" => m \in Msg)
  BY DEF SorterType
<1>2. CASE SortTake(s)
  <2>1. MainType'
    BY <1>2 DEF SortTake, MainType
  <2>2. SorterType'
    <3>1. PICK j \in listed :
            \/ UNCHANGED sorter
            \/ sorter' = [sorter EXCEPT ![s] = [pc |-> "look", m |-> j.m, cats |-> j.cats]]
      BY <1>2 DEF SortTake
    <3>2. j.m \in Msg /\ [pc |-> "look", m |-> j.m, cats |-> j.cats] \in Sorter
      BY DEF MainType, ListedMsg, Sorter
    <3> QED BY <3>1, <3>2, SorterUpdateType, StableTypes
  <2> QED BY <1>2, <2>1, <2>2, StableTypes DEF SortTake
<1>3. CASE SortSkip(s)
  <2>1. m \in Msg /\ skipCategories(sorter[s].cats, skipKind(Class[m])) \in SUBSET Category
    BY <1>1, <1>3, CategoryTypes, WorkerAssumption DEF SortSkip, Sorter
  <2>2. GraphType'
    BY <1>3, <2>1, SetCategoriesType, StableTypes DEF SortSkip
  <2>3. SorterType'
    BY <1>3, SorterStepType DEF SortSkip
  <2> QED BY <1>3, <2>2, <2>3, StableTypes DEF SortSkip
<1>4. CASE SortMark(s)
  <2>1. m \in Msg /\ MarkSkipExtraction(row[m]) \in Row
    BY <1>1, <1>4, RowTypes DEF SortMark, CacheType
  <2>2. CacheType'
    BY <1>4, <2>1, WriteRowType, StableTypes DEF SortMark
  <2>3. SorterType'
    BY <1>4, SorterIdleType DEF SortMark
  <2> QED BY <1>4, <2>2, <2>3, StableTypes DEF SortMark
<1>5. ASSUME sorter[s].pc = "look"
      PROVE  SortTags(s) \subseteq SUBSET Category
  <2> SUFFICES ASSUME NEW new \in SortTags(s) PROVE new \in SUBSET Category
    OBVIOUS
  <2>1. PICK vendor \in Vendors,
             buyer \in {{}} \cup {{b} : b \in Buyers},
             kind \in {{}} \cup {{k} : k \in MailKinds} :
          new = mergeCategories(sorter[s].cats, vendor, buyer, kind)
    BY DEF SortTags
  <2>2. buyer \in SUBSET Buyers /\ kind \in SUBSET MailKinds
    OBVIOUS
  <2>3. sorter[s].cats \in SUBSET Category
    BY <1>1 DEF Sorter
  <2> QED BY <2>1, <2>2, <2>3, CategoryTypes
<1>6. CASE SortTag(s)
  <2>1. PICK outcome \in SortOutcomes(Class[m]) \ {"skip"}, new \in SortTags(s) :
          /\ SetCategories(m, new)
          /\ sorter' = [sorter EXCEPT ![s] =
                 IF outcome = "extract" THEN [pc |-> "has", m |-> m, cats |-> new]
                 ELSE IdleSorter]
    BY <1>6 DEF SortTag
  <2>2. m \in Msg /\ new \in SUBSET Category
    BY <1>1, <1>5, <1>6 DEF SortTag
  <2>3. GraphType'
    BY <1>6, <2>1, <2>2, SetCategoriesType DEF SortTag
  <2>4. [pc |-> "has", m |-> m, cats |-> new] \in Sorter
    BY <2>2 DEF Sorter
  <2>5. SorterType'
    BY <2>1, <2>2, <2>4, SorterUpdateType, SorterIdleType
  <2> QED BY <1>6, <2>3, <2>5, StableTypes DEF SortTag
<1>7. CASE SortTagFails(s)
  <2>1. GraphType'
    BY <1>1, <1>5, <1>7, SetCategoriesType, StableTypes DEF SortTagFails
  <2>2. SorterType'
    BY <1>7, SorterIdleType DEF SortTagFails
  <2> QED BY <1>7, <2>1, <2>2, StableTypes DEF SortTagFails
<1>8. CASE SortHas(s)
  <2>1. SorterType'
    BY <1>8, SorterIdleType, SorterStepType DEF SortHas
  <2> QED BY <1>8, <2>1, StableTypes DEF SortHas
<1>9. CASE SortHandOff(s)
  <2>1. m \in Msg /\ [m |-> m, cats |-> sorter[s].cats, minTier |-> 0] \in ExtractJob
    BY <1>1, <1>9 DEF SortHandOff, Sorter, ExtractJob, topExtractionTier
  <2>2. StubExtractionForRescan(row[m]) \in Row
    BY <2>1, RowTypes DEF CacheType
  <2>3. CacheType'
    BY <1>9, <2>1, <2>2, WriteRowType, StableTypes DEF SortHandOff
  <2>4. ChannelType'
    <3> DEFINE j == [m |-> m, cats |-> sorter[s].cats, minTier |-> 0]
    <3>1. HasRoom(extractQ, ExtractCap) =>
            /\ Append(extractQ, j) \in Seq(ExtractJob)
            /\ Len(Append(extractQ, j)) <= ExtractCap
      BY <2>1, ChannelTypes, WorkerAssumption DEF ChannelType
    <3> QED BY <1>9, <3>1 DEF SortHandOff, ChannelType
  <2>5. SorterType'
    BY <1>9, SorterIdleType DEF SortHandOff
  <2> QED BY <1>9, <2>3, <2>4, <2>5, StableTypes DEF SortHandOff
<1> QED BY <1>2, <1>3, <1>4, <1>6, <1>7, <1>8, <1>9 DEF SortStep

LEMMA ExtractStepType ==
    ASSUME TypeOK, NEW e \in Extractors, ExtractStep(e)
    PROVE  TypeOK'
<1> USE DEF TypeOK, graphVars, cacheVars, queueVars, mainVars, clerkVars
<1>1. /\ e \in Procs
      /\ proc[e] \in Proc
      /\ proc[e].pc # "idle" => proc[e].m \in Msg
      /\ proc[e].v \in VerdictsAt(proc[e].pc)
  BY DEF ProcType, Procs
<1>2. \A minTier : TextModels(minTier) \cup {"vision", "kept"} \subseteq VerdictModels
  BY DEF TextModels, VerdictModels
\* A job for the fallback pool.
<1>3. ASSUME NEW v \in Results \cup {"error", "none"}, proc[e].pc # "idle",
             HasRoom(fallbackQ, FallbackCap)
      PROVE  /\ Append(fallbackQ, FallbackJobOf(e, v)) \in Seq(FallbackJob)
             /\ Len(Append(fallbackQ, FallbackJobOf(e, v))) <= FallbackCap
  <2>1. FallbackJobOf(e, v) \in FallbackJob
    BY <1>1, <1>3 DEF FallbackJobOf, FallbackJob, Proc
  <2> QED BY <1>3, <2>1, ChannelTypes, WorkerAssumption DEF ChannelType
<1>4. CASE ExtractTake(e)
  <2> DEFINE j == Head(extractQ)
             x == Holding("start", j, j.minTier, "none")
  <2>1. /\ j \in ExtractJob
        /\ Tail(extractQ) \in Seq(ExtractJob)
        /\ Len(Tail(extractQ)) <= ExtractCap
    BY <1>4, ChannelTypes, WorkerAssumption DEF ExtractTake, ChannelType
  <2>2. x \in Proc /\ x.pc = "start" /\ x.m \in Msg /\ x.v \in VerdictsAt("start")
    BY <2>1 DEF ExtractJob, Holding, Proc, ProcSteps, VerdictModels, VerdictsAt
  <2>3. proc' = [proc EXCEPT ![e] = x]
    BY <1>4 DEF ExtractTake
  <2> HIDE DEF x
  <2>4. ProcType'
    BY <1>1, <2>2, <2>3, ProcUpdateType
  <2>5. ChannelType'
    BY <1>4, <2>1 DEF ExtractTake, ChannelType
  <2> QED BY <1>4, <2>4, <2>5, StableTypes DEF ExtractTake
<1>5. CASE ExtractUnreadable(e)
  <2>1. ProcType'
    BY <1>1, <1>5, GoToType DEF ExtractUnreadable, VerdictsAt, ProcSteps
  <2> QED BY <1>5, <2>1, StableTypes DEF ExtractUnreadable
<1>6. CASE ExtractOpen(e)
  <2>1. ProcType'
    BY <1>1, <1>2, <1>6, GoStoreType DEF ExtractOpen
  <2> QED BY <1>6, <2>1, StableTypes DEF ExtractOpen
<1>7. CASE ExtractText(e)
  <2>1. ProcType'
    BY <1>1, <1>2, <1>7, GoStoreType DEF ExtractText
  <2> QED BY <1>7, <2>1, StableTypes DEF ExtractText
<1>8. CASE ExtractNoText(e)
  <2>1. ProcType'
    BY <1>1, <1>8, GoToType DEF ExtractNoText, VerdictsAt, ProcSteps
  <2> QED BY <1>8, <2>1, StableTypes DEF ExtractNoText
<1>9. CASE ExtractCheck4(e)
  <2>1. ProcType'
    BY <1>1, <1>9, GoToType DEF ExtractCheck4, VerdictsAt, ProcSteps
  <2> QED BY <1>9, <2>1, StableTypes DEF ExtractCheck4
<1>10. CASE ExtractSend4(e)
  <2>1. ProcType'
    BY <1>1, <1>10, GoToType, FinishType DEF ExtractSend4, VerdictsAt, ProcSteps
  <2>2. ChannelType'
    BY <1>3, <1>10 DEF ExtractSend4, ChannelType
  <2> QED BY <1>10, <2>1, <2>2, StableTypes DEF ExtractSend4
<1>11. CASE ExtractVision(e)
  <2>1. PICK v \in Results \cup {"error"} :
          \/ proc' = [proc EXCEPT ![e].pc = "check", ![e].v = v]
          \/ GoTo(e, "fail")
          \/ v # "error" /\ GoStore(e, v, "vision")
    BY <1>11 DEF ExtractVision
  <2>2. ASSUME proc' = [proc EXCEPT ![e].pc = "check", ![e].v = v] PROVE ProcType'
    <3> DEFINE x == [proc[e] EXCEPT !.pc = "check", !.v = v]
    <3>1. x \in Proc /\ x.pc = "check" /\ x.m \in Msg /\ x.v = v
      BY <1>1, <1>11 DEF ExtractVision, Proc, ProcSteps
    <3>2. v \in VerdictsAt("check")
      BY DEF VerdictsAt
    <3>3. proc' = [proc EXCEPT ![e] = x]
      BY <2>2
    <3> HIDE DEF x
    <3> QED BY <1>1, <3>1, <3>2, <3>3, ProcUpdateType
  <2>3. ProcType'
    BY <1>1, <1>2, <1>11, <2>1, <2>2, GoToType, GoStoreType
    DEF ExtractVision, VerdictsAt, ProcSteps
  <2> QED BY <1>11, <2>3, StableTypes DEF ExtractVision
<1>12. CASE ExtractCheck(e)
  <2>1. proc[e].v \in Results \cup {"error"}
    BY <1>1, <1>12 DEF ExtractCheck, VerdictsAt
  <2>2. /\ proc[e].v \in VerdictsAt("cool")
        /\ proc[e].v \in VerdictsAt("send")
    BY <2>1 DEF VerdictsAt
  <2>3. ProcType'
    BY <1>1, <1>2, <1>12, <2>1, <2>2, GoToType, GoStoreType DEF ExtractCheck, ProcSteps
  <2> QED BY <1>12, <2>3, StableTypes DEF ExtractCheck
<1>13. CASE ExtractSend(e)
  <2>1. proc[e].v \in Results \cup {"error"}
    BY <1>1, <1>13 DEF ExtractSend, VerdictsAt
  <2>2. proc[e].v \in VerdictsAt("fail")
    BY <2>1 DEF VerdictsAt
  <2>3. ProcType'
    BY <1>1, <1>2, <1>13, <2>1, <2>2, GoToType, GoStoreType, FinishType
    DEF ExtractSend, ProcSteps
  <2>4. ChannelType'
    BY <1>3, <1>13, <2>1 DEF ExtractSend, ChannelType
  <2> QED BY <1>13, <2>3, <2>4, StableTypes DEF ExtractSend
<1> QED BY <1>4, <1>5, <1>6, <1>7, <1>8, <1>9, <1>10, <1>11, <1>12, <1>13 DEF ExtractStep

LEMMA FallbackStepType ==
    ASSUME TypeOK, NEW f \in Fallbackers, FallbackTake(f) \/ FallbackVerify(f)
    PROVE  TypeOK'
<1> USE DEF TypeOK, graphVars, cacheVars, queueVars, mainVars, clerkVars
<1>1. /\ f \in Procs
      /\ proc[f] \in Proc
      /\ proc[f].pc # "idle" => proc[f].m \in Msg
      /\ proc[f].v \in VerdictsAt(proc[f].pc)
  BY DEF ProcType, Procs
<1>2. CASE FallbackTake(f)
  <2> DEFINE j == Head(fallbackQ)
             x == Holding("verify", j, 0, j.primary)
  <2>1. /\ j \in FallbackJob
        /\ Tail(fallbackQ) \in Seq(FallbackJob)
        /\ Len(Tail(fallbackQ)) <= FallbackCap
    BY <1>2, ChannelTypes, WorkerAssumption DEF FallbackTake, ChannelType
  <2>2. x \in Proc /\ x.pc = "verify" /\ x.m \in Msg /\ x.v = j.primary
    BY <2>1 DEF FallbackJob, Holding, Proc, ProcSteps, VerdictModels, topExtractionTier
  <2>6. j.primary \in VerdictsAt("verify")
    BY <2>1 DEF FallbackJob, VerdictsAt
  <2>3. proc' = [proc EXCEPT ![f] = x]
    BY <1>2 DEF FallbackTake
  <2> HIDE DEF x
  <2>4. ProcType'
    BY <1>1, <2>2, <2>3, <2>6, ProcUpdateType
  <2>5. ChannelType'
    BY <1>2, <2>1 DEF FallbackTake, ChannelType
  <2> QED BY <1>2, <2>4, <2>5, StableTypes DEF FallbackTake
<1>3. CASE FallbackVerify(f)
  <2>1. ASSUME proc' = [proc EXCEPT ![f].pc = "fail", ![f].model = "fallback"]
        PROVE  ProcType'
    <3> DEFINE x == [proc[f] EXCEPT !.pc = "fail", !.model = "fallback"]
    <3>1. x \in Proc /\ x.pc = "fail" /\ x.m \in Msg /\ x.v = proc[f].v
      BY <1>1, <1>3 DEF FallbackVerify, Proc, ProcSteps, VerdictModels
    <3>2. proc[f].v \in VerdictsAt("fail")
      BY <1>1, <1>3 DEF FallbackVerify, VerdictsAt
    <3>3. proc' = [proc EXCEPT ![f] = x]
      BY <2>1
    <3> HIDE DEF x
    <3> QED BY <1>1, <3>1, <3>2, <3>3, ProcUpdateType
  <2>2. {"fallback", "kept"} \subseteq VerdictModels
    BY DEF VerdictModels
  <2>3. ProcType'
    BY <1>1, <1>3, <2>1, <2>2, GoStoreType DEF FallbackVerify
  <2>4. CacheType'
    BY <1>1, <1>3, WorkerAssumption DEF FallbackVerify, CacheType
  <2> QED BY <1>3, <2>3, <2>4, StableTypes DEF FallbackVerify
<1> QED BY <1>2, <1>3

LEMMA FinishStepType ==
    ASSUME TypeOK, NEW p \in Procs, FinishStep(p)
    PROVE  TypeOK'
<1> USE DEF TypeOK, graphVars, cacheVars, queueVars, mainVars, clerkVars
<1> DEFINE m == proc[p].m
           v == proc[p].v
<1>1. /\ proc[p] \in Proc
      /\ proc[p].pc # "idle" => m \in Msg /\ row[m] \in Row
      /\ v \in VerdictsAt(proc[p].pc)
  BY DEF ProcType, CacheType
<1>2. CASE StoreResult(p)
  <2>1. v \in Results \cup {"open"}
    BY <1>1, <1>2 DEF StoreResult, VerdictsAt
  <2>2. StoreInvoiceExtraction(row[m], proc[p].model, v, ~cleanMatch(v)) \in Row
    <3>1. v \in Data
      BY <2>1, WorkerAssumption DEF Data
    <3>2. (~cleanMatch(v)) \in BOOLEAN
      BY DEF cleanMatch
    <3>3. proc[p].model \in Models
      BY <1>1 DEF Proc, Models
    <3> QED BY <1>1, <1>2, <3>1, <3>2, <3>3, RowTypes DEF StoreResult
  <2>3. CacheType'
    BY <1>1, <1>2, <2>2, WriteRowType DEF StoreResult
  <2>4. v # "open" => v \in VerdictsAt("recon")
    BY <2>1 DEF VerdictsAt
  <2>5. ProcType'
    BY <1>2, <2>4, GoToType, FinishType DEF StoreResult, ProcSteps
  <2> QED BY <1>2, <2>3, <2>5, StableTypes DEF StoreResult
<1>3. CASE StoreRecon(p)
  <2>1. v \in Results /\ v \in VerdictsAt("block")
    BY <1>1, <1>3 DEF StoreRecon, VerdictsAt
  <2>2. StoreReconciliation(row[m], v) \in Row
    BY <1>1, <1>3, <2>1, RowTypes, WorkerAssumption DEF StoreRecon
  <2>3. CacheType'
    BY <1>1, <1>3, <2>2, WriteRowType DEF StoreRecon
  <2>4. ProcType'
    BY <1>3, <2>1, GoToType, FinishType DEF StoreRecon, ProcSteps
  <2> QED BY <1>3, <2>3, <2>4, StableTypes DEF StoreRecon
<1>4. CASE AutoBlock(p)
  <2>1. v \in Results
    BY <1>1, <1>4 DEF AutoBlock, VerdictsAt
  <2>2. applyAutoBlockers(proc[p].cats, autoBlockersFromRecon(v)) \in SUBSET Category
    BY <1>1, <2>1, CategoryTypes, WorkerAssumption DEF Proc
  <2>3. GraphType'
    BY <1>1, <1>4, <2>2, SetCategoriesType, StableTypes DEF AutoBlock
  <2>4. ProcType'
    BY <1>4, FinishType DEF AutoBlock
  <2> QED BY <1>4, <2>3, <2>4, StableTypes DEF AutoBlock
<1>5. CASE StoreError(p)
  <2>1. StoreInvoiceExtraction(row[m], proc[p].model, "none", TRUE) \in Row
    BY <1>1, <1>5, RowTypes DEF StoreError, Data, Proc, Models
  <2>2. CacheType'
    BY <1>1, <1>5, <2>1, WriteRowType DEF StoreError
  <2>3. ProcType'
    BY <1>5, FinishType DEF StoreError
  <2> QED BY <1>5, <2>2, <2>3, StableTypes DEF StoreError
<1>6. CASE StoreCooldownSkip(p)
  <2>1. StoreInvoiceExtraction(row[m], "cooldown", "none", FALSE) \in Row
    BY <1>1, <1>6, RowTypes DEF StoreCooldownSkip, Data, Models, VerdictModels
  <2>2. CacheType'
    BY <1>1, <1>6, <2>1, WriteRowType DEF StoreCooldownSkip
  <2>3. ProcType'
    BY <1>6, FinishType DEF StoreCooldownSkip
  <2> QED BY <1>6, <2>2, <2>3, StableTypes DEF StoreCooldownSkip
<1>7. CASE StoreFails(p)
  <2>1. ProcType'
    BY <1>7, FinishType DEF StoreFails
  <2> QED BY <1>7, <2>1, StableTypes DEF StoreFails
<1> QED BY <1>2, <1>3, <1>4, <1>5, <1>6, <1>7 DEF FinishStep

LEMMA MainStepType ==
    ASSUME TypeOK, MainStep
    PROVE  TypeOK'
<1> USE DEF TypeOK, graphVars, cacheVars, queueVars, mainVars, clerkVars
<1>1. /\ rescan \in Rescan
      /\ rescan.pc # "next" => rescan.m \in Msg /\ row[rescan.m] \in Row
  BY DEF MainType, CacheType
<1>2. NoRescan \in Rescan /\ NoRescan.pc = "next"
  BY DEF NoRescan, Rescan, topExtractionTier
<1>3. CASE Boot
  <2>1. CacheType'
    BY <1>3, RowTypes DEF Boot, CacheType
  <2> QED BY <1>3, <2>1, StableTypes DEF Boot, MainType
<1>4. CASE ListInbox
  <2>1. {[m |-> m, cats |-> cats[m]] : m \in {x \in Msg : where[x] = "inbox"}}
          \subseteq ListedMsg
    BY DEF GraphType, ListedMsg
  <2> QED BY <1>4, <2>1, StableTypes DEF ListInbox, MainType
<1>5. CASE ListFails
  BY <1>5, StableTypes DEF ListFails, MainType
<1>6. CASE StartRescan
  BY <1>6, StableTypes DEF StartRescan, MainType
<1>7. CASE RescanRead
  <2>1. PICK m \in toRescan :
          /\ toRescan' = toRescan \ {m}
          /\ \/ rescan' = [pc |-> "act", m |-> m, cats |-> {},
                           tier |-> extractionTier(row[m].model) + 1]
             \/ UNCHANGED rescan
    BY <1>7 DEF RescanRead
  <2>2. \A model : extractionTier(model) \in 0..topExtractionTier
    BY DEF extractionTier, topExtractionTier
  <2>3. /\ m \in Msg
        /\ [pc |-> "act", m |-> m, cats |-> {},
            tier |-> extractionTier(row[m].model) + 1] \in Rescan
    BY <2>2 DEF MainType, Rescan, topExtractionTier
  <2> HIDE DEF extractionTier
  <2> QED BY <1>7, <2>1, <2>3, StableTypes DEF RescanRead, MainType
<1>8. CASE RescanExhaust
  <2>1. CacheType'
    BY <1>1, <1>8, RowTypes, WriteRowType, StableTypes DEF RescanExhaust
  <2> QED BY <1>2, <1>8, <2>1, StableTypes DEF RescanExhaust, MainType
<1>9. CASE RescanFetch
  <2> DEFINE x == [rescan EXCEPT !.pc = "send", !.cats = cats[rescan.m]]
  <2>1. rescan.m \in Msg /\ cats[rescan.m] \in SUBSET Category
    BY <1>1, <1>9 DEF RescanFetch, GraphType
  <2>2. x \in Rescan /\ x.pc = "send" /\ x.m = rescan.m /\ x.tier = rescan.tier
    BY <1>1, <2>1 DEF Rescan
  <2>3. rescan' = x \/ rescan' = NoRescan
    BY <1>9 DEF RescanFetch
  <2> HIDE DEF x
  <2> QED BY <1>2, <1>9, <2>1, <2>2, <2>3, StableTypes DEF RescanFetch, MainType
<1>10. CASE RescanSend
  <2> DEFINE j == [m |-> rescan.m, cats |-> rescan.cats, minTier |-> rescan.tier]
  <2>1. j \in ExtractJob
    BY <1>1, <1>10 DEF RescanSend, MainType, Rescan, ExtractJob, topExtractionTier
  <2>2. HasRoom(extractQ, ExtractCap) =>
          /\ Append(extractQ, j) \in Seq(ExtractJob)
          /\ Len(Append(extractQ, j)) <= ExtractCap
    BY <2>1, ChannelTypes, WorkerAssumption DEF ChannelType
  <2>3. ChannelType'
    BY <1>10, <2>2 DEF RescanSend, ChannelType
  <2> QED BY <1>2, <1>10, <2>3, StableTypes DEF RescanSend, MainType
<1>11. CASE EndRescan
  BY <1>11, StableTypes DEF EndRescan, MainType
<1>12. CASE LoopCheck
  BY <1>12, StableTypes DEF LoopCheck, MainType
<1>13. CASE CloseExtract
  BY <1>13, StableTypes DEF CloseExtract, MainType
<1>14. CASE CloseFallback
  BY <1>14, StableTypes DEF CloseFallback, MainType
<1>15. CASE Exit
  BY <1>15, StableTypes DEF Exit, MainType
<1> QED BY <1>3, <1>4, <1>5, <1>6, <1>7, <1>8, <1>9, <1>10, <1>11, <1>12, <1>13,
           <1>14, <1>15 DEF MainStep

\* The values every process starts from, and falls back to after a crash.
LEMMA IdleTypes ==
    /\ IdleSorter \in Sorter /\ IdleSorter.pc = "idle"
    /\ NoRescan \in Rescan /\ NoRescan.pc = "next"
    /\ IdleProc \in Proc /\ IdleProc.pc = "idle"
    /\ IdleProc.v \in VerdictsAt("idle")
    /\ NoClerk \in Clerk /\ NoClerk.pc = "idle"
BY DEF IdleSorter, Sorter, NoRescan, Rescan, topExtractionTier, IdleProc, Proc, ProcSteps,
       VerdictModels, VerdictsAt, NoClerk, Clerk

LEMMA CrashType ==
    ASSUME TypeOK, Crash
    PROVE  TypeOK'
<1> USE DEF TypeOK, graphVars, cacheVars, clerkVars
<1>1. MainType'
  BY IdleTypes, WorkerAssumption DEF Crash, MainType
<1>2. SorterType'
  BY IdleTypes DEF Crash, SorterType
<1>3. ChannelType'
  BY WorkerAssumption DEF Crash, ChannelType
<1>4. ProcType'
  BY IdleTypes DEF Crash, ProcType
<1> QED BY <1>1, <1>2, <1>3, <1>4, StableTypes DEF Crash

LEMMA WorldStepType ==
    ASSUME TypeOK, WorldStep
    PROVE  TypeOK'
<1> USE DEF TypeOK, graphVars, cacheVars, queueVars, mainVars, clerkVars
<1>1. ASSUME NEW m \in Msg, Deliver(m) \/ Leave(m)
      PROVE  TypeOK'
  <2>1. GraphType'
    BY <1>1 DEF Deliver, Leave, GraphType
  <2> QED BY <1>1, <2>1, StableTypes DEF Deliver, Leave
<1>2. ASSUME NEW m \in Msg, SyncMessage(m)
      PROVE  TypeOK'
  <2>1. CacheType'
    BY <1>2 DEF SyncMessage, CacheType
  <2> QED BY <1>2, <2>1, StableTypes DEF SyncMessage
<1>3. ASSUME NEW m \in Msg, ClerkRead(m)
      PROVE  TypeOK'
  <2>1. PICK status \in ClerkStatuses :
          clerk' = [pc |-> "write", m |-> m, cats |-> ReplaceStatus(cats[m], status)]
    BY <1>3 DEF ClerkRead
  <2>2. ReplaceStatus(cats[m], status) \in SUBSET Category
    BY CategoryTypes, WorkerAssumption DEF GraphType
  <2>3. ClerkType'
    BY <1>3, <2>1, <2>2, WorkerAssumption DEF ClerkRead, ClerkType, Clerk
  <2> QED BY <1>3, <2>3, StableTypes DEF ClerkRead
<1>4. ASSUME NEW pdf \in Pdf, CooldownExpires(pdf)
      PROVE  TypeOK'
  <2>1. CacheType'
    BY <1>4 DEF CooldownExpires, CacheType
  <2> QED BY <1>4, <2>1, StableTypes DEF CooldownExpires
<1>5. CASE ClerkWrite
  <2>1. clerk.m \in Msg /\ clerk.cats \in SUBSET Category
    BY <1>5 DEF ClerkWrite, ClerkType, Clerk
  <2>2. GraphType'
    BY <1>5, <2>1, SetCategoriesType, StableTypes DEF ClerkWrite
  <2>3. CacheType'
    BY <1>5 DEF ClerkWrite, CacheType
  <2>4. ClerkType'
    BY <1>5, IdleTypes DEF ClerkWrite, ClerkType
  <2> QED BY <1>5, <2>2, <2>3, <2>4, StableTypes DEF ClerkWrite
<1> QED BY <1>1, <1>2, <1>3, <1>4, <1>5 DEF WorldStep

\* Type correctness: in every reachable state each process holds what its
\* next step needs, whatever the mailbox, the pools, the capacities and the
\* faults (processMessage, verifyInvoice, processFallbackJob, runRescanPass).
THEOREM TypeCorrect == Spec => []TypeOK
<1>1. Init => TypeOK
  <2> SUFFICES ASSUME Init PROVE TypeOK
    OBVIOUS
  <2>1. GraphType /\ CacheType
    BY RowTypes DEF Init, GraphType, CacheType, NoRow, Row, Data
  <2>2. MainType /\ SorterType
    BY IdleTypes, WorkerAssumption DEF Init, MainType, SorterType
  <2>3. ChannelType /\ ProcType /\ ClerkType
    BY IdleTypes, WorkerAssumption DEF Init, ChannelType, ProcType, ClerkType
  <2> QED BY <2>1, <2>2, <2>3 DEF TypeOK
<1>2. TypeOK /\ [Next]_vars => TypeOK'
  <2> SUFFICES ASSUME TypeOK, [Next]_vars PROVE TypeOK'
    OBVIOUS
  <2>1. ASSUME UNCHANGED vars PROVE TypeOK'
    BY <2>1, StableTypes DEF TypeOK, vars, mainVars
  <2>2. ASSUME Done PROVE TypeOK'
    BY <2>1, <2>2 DEF Done
  <2> QED BY <2>1, <2>2, SortStepType, ExtractStepType, FallbackStepType, FinishStepType,
             MainStepType, CrashType, WorldStepType DEF Next
<1> QED BY <1>1, <1>2, PTL DEF Spec

-----------------------------------------------------------------------------
(* What a step leaves alone. *)

\* A step of an extract worker is its own: it takes a job from the channel or
\* is in the middle of one.
LEMMA ExtractFrame ==
    ASSUME TypeOK, NEW e \in Extractors, ExtractStep(e)
    PROVE  /\ UNCHANGED <<cats, where, cached, row, cooldown, phase, listed, toRescan,
                          rescan, sorter, clerk>>
           /\ \A q \in Procs \ {e} : proc'[q] = proc[q]
           /\ proc[e].pc # "idle" \/ extractQ # <<>>
           /\ extractQ # <<>> \/ UNCHANGED extractQ
BY DEF TypeOK, ProcType, Procs, ExtractStep, ExtractTake, ExtractUnreadable, ExtractOpen,
       ExtractText, ExtractNoText, ExtractCheck4, ExtractSend4, ExtractVision,
       ExtractCheck, ExtractSend, GoTo, GoStore, Finish, graphVars, cacheVars, queueVars,
       mainVars, clerkVars

\* A step of a fallback worker is its own.
LEMMA FallbackFrame ==
    ASSUME TypeOK, NEW f \in Fallbackers, FallbackTake(f) \/ FallbackVerify(f)
    PROVE  /\ UNCHANGED <<cats, where, cached, row, phase, listed, toRescan, rescan,
                          sorter, extractQ, clerk>>
           /\ \A q \in Procs \ {f} : proc'[q] = proc[q]
           /\ proc[f].pc # "idle" \/ fallbackQ # <<>>
BY DEF TypeOK, ProcType, Procs, FallbackTake, FallbackVerify, GoStore, graphVars,
       cacheVars, queueVars, mainVars, clerkVars

\* The end of a job is a step of the worker that holds it, and touches the row
\* and the categories of that job's message only.
LEMMA FinishFrame ==
    ASSUME TypeOK, NEW p \in Procs, FinishStep(p)
    PROVE  /\ UNCHANGED <<where, cached, cooldown, phase, listed, toRescan, rescan,
                          sorter, extractQ, fallbackQ, clerk>>
           /\ \A q \in Procs \ {p} : proc'[q] = proc[q]
           /\ proc[p].pc # "idle"
BY DEF TypeOK, ProcType, FinishStep, StoreResult, StoreRecon, AutoBlock, StoreError,
       StoreCooldownSkip, StoreFails, GoTo, Finish, graphVars, cacheVars, queueVars,
       mainVars, clerkVars

-----------------------------------------------------------------------------
(* Shutdown. *)

\* What makes the order in which main closes the channels safe: outside the
\* sort phase no sort worker is busy, outside the rescan no id is half done,
\* and each pool is through before the channel it sends on is closed.
ShutdownInv ==
    /\ phase # "sort" => \A s \in Sorters : sorter[s].pc = "idle"
    /\ phase # "rescan" => rescan.pc = "next"
    /\ fallbackClosed => extractQ = <<>> /\ AllIdle(Extractors)
    /\ phase = "exited" => fallbackQ = <<>> /\ AllIdle(Fallbackers)

LEMMA ShutdownInit == Init => ShutdownInv
BY DEF Init, ShutdownInv, fallbackClosed, IdleSorter, NoRescan

LEMMA ShutdownStep == TypeOK /\ ShutdownInv /\ [Next]_vars => ShutdownInv'
<1> SUFFICES ASSUME TypeOK, ShutdownInv, [Next]_vars PROVE ShutdownInv'
  OBVIOUS
<1>1. Extractors \subseteq Procs /\ Fallbackers \subseteq Procs
      /\ Procs = Extractors \cup Fallbackers /\ Extractors \cap Fallbackers = {}
  BY WorkerAssumption DEF Procs
<1>2. ASSUME NEW s \in Sorters, SortStep(s) PROVE ShutdownInv'
  <2>1. /\ phase = "sort"
        /\ UNCHANGED <<phase, rescan>>
    BY <1>2 DEF ShutdownInv, SortStep, SortTake, SortSkip, SortMark, SortTag, SortTagFails,
                SortHas, SortHandOff, mainVars
  <2> QED BY <2>1 DEF ShutdownInv, fallbackClosed
<1>3. ASSUME NEW e \in Extractors, ExtractStep(e) PROVE ShutdownInv'
  <2>1. ~fallbackClosed /\ phase # "exited"
    BY <1>3, ExtractFrame DEF ShutdownInv, AllIdle, fallbackClosed
  <2> QED BY <1>3, <2>1, ExtractFrame DEF ShutdownInv, fallbackClosed
<1>4. ASSUME NEW f \in Fallbackers, FallbackTake(f) \/ FallbackVerify(f) PROVE ShutdownInv'
  <2>1. phase # "exited"
    BY <1>4, FallbackFrame DEF ShutdownInv, AllIdle
  <2> QED BY <1>1, <1>4, <2>1, FallbackFrame DEF ShutdownInv, fallbackClosed, AllIdle
<1>5. ASSUME NEW p \in Procs, FinishStep(p) PROVE ShutdownInv'
  <2>1. p \in Extractors => ~fallbackClosed
    BY <1>5, FinishFrame DEF ShutdownInv, AllIdle
  <2>2. phase # "exited"
    BY <1>1, <1>5, <2>1, FinishFrame DEF ShutdownInv, AllIdle, fallbackClosed
  <2> QED BY <1>1, <1>5, <2>1, <2>2, FinishFrame DEF ShutdownInv, fallbackClosed, AllIdle
<1>6. CASE MainStep
  BY <1>6 DEF ShutdownInv, fallbackClosed, AllIdle, MainStep, Boot, ListInbox, ListFails,
              StartRescan, RescanRead, RescanExhaust, RescanFetch, RescanSend, EndRescan,
              LoopCheck, CloseExtract, CloseFallback, Exit, NoRescan, queueVars, TypeOK,
              MainType
<1>7. CASE Crash
  BY <1>7 DEF ShutdownInv, fallbackClosed, Crash, IdleSorter, NoRescan
<1>8. CASE WorldStep \/ Done \/ UNCHANGED vars
  BY <1>8 DEF ShutdownInv, fallbackClosed, AllIdle, WorldStep, Deliver, Leave, SyncMessage,
              CooldownExpires, ClerkRead, ClerkWrite, Done, vars, queueVars, mainVars
<1> QED BY <1>2, <1>3, <1>4, <1>5, <1>6, <1>7, <1>8 DEF Next

\* main never closes a channel that some goroutine may still send on, and
\* returns with both channels empty and both pools idle (the drain in main).
THEOREM SafeShutdown == Spec => [](NoSendOnClosed /\ NothingInHandAtExit)
<1>1. TypeOK /\ ShutdownInv => NoSendOnClosed /\ NothingInHandAtExit
  <2> SUFFICES ASSUME TypeOK, ShutdownInv PROVE NoSendOnClosed /\ NothingInHandAtExit
    OBVIOUS
  <2>1. NoSendOnClosed
    BY DEF ShutdownInv, NoSendOnClosed, extractClosed, fallbackClosed
  <2>2. ASSUME phase = "exited", NEW m \in Msg PROVE ~InHand(m)
    <3>1. extractQ = <<>> /\ fallbackQ = <<>>
      BY <2>2 DEF ShutdownInv, fallbackClosed
    <3>2. ~Buffered(extractQ, m) /\ ~Buffered(fallbackQ, m)
      BY <3>1 DEF Buffered, JobsIn
    <3> QED BY <2>2, <3>2 DEF ShutdownInv, InHand, AllIdle, Procs, fallbackClosed
  <2> QED BY <2>1, <2>2 DEF NothingInHandAtExit
<1> QED BY <1>1, ShutdownInit, ShutdownStep, TypeCorrect, PTL DEF Spec

-----------------------------------------------------------------------------
(* Statuses. *)

\* The jobs of a channel after a send and after a receive.
LEMMA JobsAfter ==
    ASSUME NEW Job, NEW q \in Seq(Job)
    PROVE  /\ \A j \in JobsIn(q) : j \in Job
           /\ \A j \in Job : JobsIn(Append(q, j)) = JobsIn(q) \cup {j}
           /\ q # <<>> => JobsIn(q) = JobsIn(Tail(q)) \cup {Head(q)}
<1>1. ASSUME NEW j \in Job PROVE JobsIn(Append(q, j)) = JobsIn(q) \cup {j}
  <2>1. /\ Len(Append(q, j)) = Len(q) + 1 /\ Len(q) \in Nat
        /\ \A i \in 1..Len(q) : Append(q, j)[i] = q[i]
        /\ Append(q, j)[Len(q) + 1] = j
    OBVIOUS
  <2>2. \A i : i \in 1..(Len(q) + 1) <=> i \in 1..Len(q) \/ i = Len(q) + 1
    BY <2>1
  <2> QED BY <2>1, <2>2 DEF JobsIn
<1>2. ASSUME q # <<>> PROVE JobsIn(q) = JobsIn(Tail(q)) \cup {Head(q)}
  <2>1. /\ Len(Tail(q)) = Len(q) - 1 /\ Len(q) \in Nat \ {0}
        /\ \A i \in 1..Len(Tail(q)) : Tail(q)[i] = q[i + 1]
        /\ Head(q) = q[1]
    BY <1>2
  <2>2. ASSUME NEW i \in 1..Len(q)
        PROVE  q[i] \in JobsIn(Tail(q)) \cup {Head(q)}
    <3>1. CASE i = 1
      BY <2>1, <3>1
    <3>2. CASE i # 1
      <4>1. i - 1 \in 1..Len(Tail(q)) /\ Tail(q)[i - 1] = q[i]
        BY <2>1, <3>2
      <4> QED BY <4>1 DEF JobsIn
    <3> QED BY <3>1, <3>2
  <2>3. ASSUME NEW k \in 1..Len(Tail(q))
        PROVE  Tail(q)[k] \in JobsIn(q)
    <3>1. k + 1 \in 1..Len(q) /\ Tail(q)[k] = q[k + 1]
      BY <2>1
    <3> QED BY <3>1 DEF JobsIn
  <2>4. Head(q) \in JobsIn(q)
    BY <2>1 DEF JobsIn
  <2> QED BY <2>2, <2>3, <2>4 DEF JobsIn
<1>3. \A j \in JobsIn(q) : j \in Job
  BY DEF JobsIn
<1> QED BY <1>1, <1>2, <1>3

\* Every list the worker or a clerk sends carries a status, the auto-blockers'
\* one if the list they started from did.
LEMMA StatusLists ==
    ASSUME NEW old
    PROVE  /\ \A vendor, buyer, kind : hasStatus(mergeCategories(old, vendor, buyer, kind))
           /\ \A kind : hasStatus(skipCategories(old, kind))
           /\ \A blockers : hasStatus(old) => hasStatus(applyAutoBlockers(old, blockers))
           /\ \A status : hasStatus(ReplaceStatus(old, status))
<1>1. \A c : hasStatus(c) <=> \E x \in c : x[1] = "Status"
  BY DEF hasStatus, StatusOf
<1>2. \A value : <<"Status", value>>[1] = "Status"
  OBVIOUS
<1>3. ASSUME NEW blockers, hasStatus(old) PROVE hasStatus(applyAutoBlockers(old, blockers))
  <2>1. PICK x \in old : x[1] = "Status"
    BY <1>1, <1>3
  <2> DEFINE y == IF x = <<"Status", "New">> THEN <<"Status", "Blocked">> ELSE x
  <2>2. y[1] = "Status"
    BY <2>1
  <2>3. y \in applyAutoBlockers(old, blockers)
    BY DEF applyAutoBlockers
  <2> QED BY <1>1, <2>2, <2>3
<1>4. \A vendor, buyer, kind :
        <<"Status", "New">> \in mergeCategories(old, vendor, buyer, kind)
  BY DEF mergeCategories
<1>5. \A kind : <<"Status", "Done">> \in skipCategories(old, kind)
  BY DEF skipCategories
<1>6. \A status : <<"Status", status>> \in ReplaceStatus(old, status)
  BY DEF ReplaceStatus
<1> QED BY <1>1, <1>2, <1>3, <1>4, <1>5, <1>6

\* The inductive form of ExtractedHasStatus.  Every list in a job's or a
\* clerk's hands carries a status too, for it will replace the message's, and
\* so does every row that names a PO, for the rescan starts from those.
SorterStatus ==
    \A s \in Sorters : sorter[s].pc \in {"has", "handoff"} =>
        hasStatus(sorter[s].cats) /\ hasStatus(cats[sorter[s].m])
QueueStatus(q) == \A j \in JobsIn(q) : hasStatus(j.cats) /\ hasStatus(cats[j.m])
ProcStatus ==
    \A p \in Procs : proc[p].pc # "idle" =>
        hasStatus(proc[p].cats) /\ hasStatus(cats[proc[p].m])
RowStatus ==
    \A m \in Msg : /\ Extracted(m) => hasStatus(cats[m])
                   /\ row[m].po => Extracted(m)
RescanStatus ==
    /\ rescan.pc # "next" => Extracted(rescan.m)
    /\ rescan.pc = "send" => hasStatus(rescan.cats)
ClerkStatus == clerk.pc = "write" => hasStatus(clerk.cats)

StatusInv ==
    /\ SorterStatus
    /\ QueueStatus(extractQ)
    /\ QueueStatus(fallbackQ)
    /\ ProcStatus
    /\ RowStatus
    /\ RescanStatus
    /\ ClerkStatus

LEMMA StatusInit == Init => StatusInv
<1> SUFFICES ASSUME Init PROVE StatusInv
  OBVIOUS
<1>1. JobsIn(extractQ) = {} /\ JobsIn(fallbackQ) = {}
  BY DEF Init, JobsIn
<1> QED BY <1>1 DEF Init, StatusInv, SorterStatus, QueueStatus, ProcStatus, RowStatus,
            RescanStatus, ClerkStatus, IdleSorter, IdleProc, NoRescan, NoClerk, NoRow,
            Extracted

\* No message loses its status.
StatusesStay == \A m \in Msg : hasStatus(cats[m]) => hasStatus(cats'[m])

LEMMA SetCategoriesKeepsStatus ==
    ASSUME TypeOK, NEW m, NEW new, SetCategories(m, new), hasStatus(new)
    PROVE  StatusesStay
BY DEF TypeOK, GraphType, SetCategories, StatusesStay

\* What a step leaves alone keeps its part of the invariant, as long as no
\* message loses its status.
LEMMA StableStatus ==
    ASSUME TypeOK, StatusInv, StatusesStay
    PROVE  /\ UNCHANGED sorter => SorterStatus'
           /\ UNCHANGED extractQ => QueueStatus(extractQ)'
           /\ UNCHANGED fallbackQ => QueueStatus(fallbackQ)'
           /\ UNCHANGED proc => ProcStatus'
           /\ UNCHANGED row => RowStatus'
           /\ UNCHANGED <<row, rescan>> => RescanStatus'
           /\ UNCHANGED clerk => ClerkStatus'
<1> USE DEF StatusInv, StatusesStay
<1>1. /\ \A j \in JobsIn(extractQ) : j.m \in Msg
      /\ \A j \in JobsIn(fallbackQ) : j.m \in Msg
  <2>1. /\ \A j \in JobsIn(extractQ) : j \in ExtractJob
        /\ \A j \in JobsIn(fallbackQ) : j \in FallbackJob
    BY JobsAfter DEF TypeOK, ChannelType
  <2> QED BY <2>1 DEF ExtractJob, FallbackJob
<1>2. UNCHANGED sorter => SorterStatus'
  BY DEF SorterStatus, TypeOK, SorterType
<1>3. UNCHANGED extractQ => QueueStatus(extractQ)'
  BY <1>1 DEF QueueStatus
<1>4. UNCHANGED fallbackQ => QueueStatus(fallbackQ)'
  BY <1>1 DEF QueueStatus
<1>5. UNCHANGED proc => ProcStatus'
  BY DEF ProcStatus, TypeOK, ProcType
<1>6. UNCHANGED row => RowStatus'
  BY DEF RowStatus, Extracted
<1>7. /\ UNCHANGED <<row, rescan>> => RescanStatus'
      /\ UNCHANGED clerk => ClerkStatus'
  BY DEF RescanStatus, ClerkStatus, Extracted
<1> QED BY <1>2, <1>3, <1>4, <1>5, <1>6, <1>7

\* A statement on the row of a message that has a status, or one that leaves
\* the row unextracted.
LEMMA WriteRowStatus ==
    ASSUME TypeOK, StatusInv, UNCHANGED cats, NEW m \in Msg, NEW new, WriteRow(m, new),
           new.model \notin {"absent", "skip"} => hasStatus(cats[m]),
           Extracted(m) \/ new.po => new.model \notin {"absent", "skip"}
    PROVE  /\ RowStatus'
           /\ UNCHANGED rescan => RescanStatus'
           /\ rescan' = NoRescan => RescanStatus'
<1>1. /\ row'[m] = new
      /\ \A x \in Msg : x # m => row'[x] = row[x]
  BY DEF WriteRow, TypeOK, CacheType
<1>2. RowStatus'
  BY <1>1 DEF StatusInv, RowStatus, Extracted
<1>3. rescan.pc # "next" => rescan.m \in Msg
  BY DEF TypeOK, MainType
<1> QED BY <1>1, <1>2, <1>3 DEF StatusInv, RescanStatus, Extracted, NoRescan

LEMMA StatusSort ==
    ASSUME TypeOK, StatusInv, NEW s \in Sorters, SortStep(s)
    PROVE  StatusInv'
<1> USE DEF graphVars, cacheVars, queueVars, mainVars, clerkVars
<1> DEFINE m == sorter[s].m
<1>1. ASSUME UNCHANGED cats PROVE StatusesStay
  BY <1>1 DEF StatusesStay
<1>2. sorter[s].pc # "idle" => m \in Msg
  BY DEF TypeOK, SorterType
<1>3. \A x : sorter' = [sorter EXCEPT ![s] = x] =>
        sorter'[s] = x /\ \A t \in Sorters \ {s} : sorter'[t] = sorter[t]
  BY DEF TypeOK, SorterType
<1>4. ASSUME sorter' = [sorter EXCEPT ![s] = IdleSorter], StatusesStay
      PROVE  SorterStatus'
  BY <1>3, <1>4 DEF StatusInv, SorterStatus, StatusesStay, IdleSorter, TypeOK, SorterType
<1>5. CASE SortTake(s)
  <2>1. \/ UNCHANGED sorter
        \/ \E j \in listed : sorter' =
               [sorter EXCEPT ![s] = [pc |-> "look", m |-> j.m, cats |-> j.cats]]
    BY <1>5 DEF SortTake
  <2>2. /\ UNCHANGED sorter \/ sorter'[s].pc = "look"
        /\ \A t \in Sorters \ {s} : sorter'[t] = sorter[t]
    BY <1>3, <2>1
  <2>3. SorterStatus'
    BY <1>5, <2>2 DEF SortTake, StatusInv, SorterStatus
  <2> QED BY <1>1, <1>5, <2>3, StableStatus DEF SortTake, StatusInv
<1>6. CASE SortSkip(s)
  <2>1. StatusesStay
    BY <1>1, <1>6, SetCategoriesKeepsStatus, StatusLists DEF SortSkip
  <2>2. SorterStatus'
    BY <1>6, <2>1 DEF SortSkip, StatusInv, SorterStatus, StatusesStay, TypeOK, SorterType
  <2> QED BY <1>6, <2>1, <2>2, StableStatus DEF SortSkip, StatusInv
<1>7. CASE SortMark(s)
  <2>1. LET new == MarkSkipExtraction(row[m]) IN
          /\ new.model \notin {"absent", "skip"} => Extracted(m)
          /\ Extracted(m) \/ new.po => new.model \notin {"absent", "skip"}
    BY <1>2, <1>7 DEF SortMark, MarkSkipExtraction, HasInvoiceExtraction, NoRow, Extracted,
                      StatusInv, RowStatus
  <2>2. RowStatus' /\ RescanStatus'
    BY <1>1, <1>2, <1>7, <2>1, WriteRowStatus, StableStatus
    DEF SortMark, StatusInv, RowStatus
  <2>3. SorterStatus'
    BY <1>1, <1>4, <1>7 DEF SortMark
  <2> QED BY <1>1, <1>7, <2>2, <2>3, StableStatus DEF SortMark, StatusInv
<1>8. ASSUME NEW new \in SortTags(s) PROVE hasStatus(new)
  BY StatusLists DEF SortTags
<1>9. CASE SortTag(s)
  <2>1. PICK new \in SortTags(s) :
          /\ SetCategories(m, new)
          /\ \/ sorter' = [sorter EXCEPT ![s] = [pc |-> "has", m |-> m, cats |-> new]]
             \/ sorter' = [sorter EXCEPT ![s] = IdleSorter]
    BY <1>9 DEF SortTag
  <2>2. StatusesStay
    BY <1>8, <2>1, SetCategoriesKeepsStatus
  <2>3. m \in Msg /\ hasStatus(cats'[m])
    BY <1>2, <1>8, <1>9, <2>1 DEF SortTag, SetCategories, TypeOK, GraphType
  <2>4. SorterStatus'
    BY <1>3, <1>4, <1>8, <2>1, <2>2, <2>3
    DEF StatusInv, SorterStatus, StatusesStay, TypeOK, SorterType
  <2> QED BY <1>9, <2>2, <2>4, StableStatus DEF SortTag, StatusInv
<1>10. CASE SortTagFails(s)
  <2>1. StatusesStay
    BY <1>1, <1>8, <1>10, SetCategoriesKeepsStatus DEF SortTagFails
  <2>2. SorterStatus'
    BY <1>4, <1>10, <2>1 DEF SortTagFails
  <2> QED BY <1>10, <2>1, <2>2, StableStatus DEF SortTagFails, StatusInv
<1>11. CASE SortHas(s)
  <2>1. SorterStatus'
    <3>1. ASSUME sorter[s].pc = "has", sorter' = [sorter EXCEPT ![s].pc = "handoff"]
          PROVE  SorterStatus'
      <4>1. /\ \A t \in Sorters \ {s} : sorter'[t] = sorter[t]
            /\ sorter'[s].m = sorter[s].m /\ sorter'[s].cats = sorter[s].cats
        BY <3>1 DEF TypeOK, SorterType, Sorter
      <4> QED BY <1>11, <3>1, <4>1 DEF SortHas, StatusInv, SorterStatus
    <3> QED BY <1>1, <1>4, <1>11, <3>1 DEF SortHas
  <2> QED BY <1>1, <1>11, <2>1, StableStatus DEF SortHas, StatusInv
<1>12. CASE SortHandOff(s)
  <2> DEFINE j == [m |-> m, cats |-> sorter[s].cats, minTier |-> 0]
  <2>1. m \in Msg /\ hasStatus(sorter[s].cats) /\ hasStatus(cats[m])
    BY <1>2, <1>12 DEF SortHandOff, StatusInv, SorterStatus
  <2>2. j \in ExtractJob /\ extractQ \in Seq(ExtractJob)
    BY <1>12, <2>1
    DEF SortHandOff, ExtractJob, topExtractionTier, TypeOK, SorterType, Sorter, ChannelType
  <2>3. QueueStatus(extractQ)'
    <3>2. JobsIn(Append(extractQ, j)) = JobsIn(extractQ) \cup {j}
      BY <2>2, JobsAfter
    <3>1. extractQ' = extractQ \/ JobsIn(extractQ') = JobsIn(extractQ) \cup {j}
      BY <1>12, <3>2 DEF SortHandOff
    <3> QED BY <1>12, <2>1, <3>1 DEF SortHandOff, StatusInv, QueueStatus
  <2>4. RowStatus' /\ RescanStatus'
    <3>1. UNCHANGED row \/ WriteRow(m, StubExtractionForRescan(row[m]))
      BY <1>12 DEF SortHandOff
    <3>2. LET new == StubExtractionForRescan(row[m]) IN
            Extracted(m) \/ new.po => new.model \notin {"absent", "skip"}
      BY <2>1 DEF StubExtractionForRescan, HasInvoiceExtraction, NoRow, Extracted,
                  StatusInv, RowStatus
    <3> QED BY <1>1, <1>12, <2>1, <3>1, <3>2, WriteRowStatus, StableStatus DEF SortHandOff
  <2>5. SorterStatus'
    BY <1>1, <1>4, <1>12 DEF SortHandOff
  <2> QED BY <1>1, <1>12, <2>3, <2>4, <2>5, StableStatus DEF SortHandOff, StatusInv
<1> QED BY <1>5, <1>6, <1>7, <1>9, <1>10, <1>11, <1>12 DEF SortStep

\* What a worker of the two pools does with the job it holds: it keeps it, ends
\* it, or takes up one with a status.
LEMMA ProcStepStatus ==
    ASSUME TypeOK, StatusInv, StatusesStay, NEW p \in Procs, NEW m, NEW list,
           \A q \in Procs \ {p} : proc'[q] = proc[q],
           \/ proc'[p].pc = "idle"
           \/ /\ proc[p].pc # "idle"
              /\ proc'[p].m = proc[p].m /\ proc'[p].cats = proc[p].cats
           \/ /\ proc'[p].m \in Msg /\ hasStatus(proc'[p].cats)
              /\ hasStatus(cats[proc'[p].m])
    PROVE  ProcStatus'
BY DEF StatusInv, ProcStatus, StatusesStay, TypeOK, ProcType

\* The three ways to leave a step of a job.
LEMMA ProcMoves ==
    ASSUME TypeOK, NEW p \in Procs
    PROVE  /\ \A pc : GoTo(p, pc) =>
                /\ proc'[p].m = proc[p].m /\ proc'[p].cats = proc[p].cats
           /\ \A v, model : GoStore(p, v, model) =>
                /\ proc'[p].m = proc[p].m /\ proc'[p].cats = proc[p].cats
           /\ Finish(p) => proc'[p].pc = "idle"
<1>1. proc[p] \in Proc /\ proc \in [Procs -> Proc]
  BY DEF TypeOK, ProcType
<1>2. ASSUME NEW pc, GoTo(p, pc)
      PROVE  proc'[p].m = proc[p].m /\ proc'[p].cats = proc[p].cats
  BY <1>1, <1>2 DEF Proc, GoTo
<1>3. ASSUME NEW v, NEW model, GoStore(p, v, model)
      PROVE  proc'[p].m = proc[p].m /\ proc'[p].cats = proc[p].cats
  BY <1>1, <1>3 DEF Proc, GoStore
<1>4. Finish(p) => proc'[p].pc = "idle"
  BY <1>1 DEF Finish, IdleProc
<1> QED BY <1>2, <1>3, <1>4

LEMMA StatusExtract ==
    ASSUME TypeOK, StatusInv, NEW e \in Extractors, ExtractStep(e)
    PROVE  StatusInv'
<1>1. StatusesStay
  BY ExtractFrame DEF StatusesStay
<1>2. e \in Procs /\ (proc[e].pc # "idle" => proc[e].m \in Msg /\ proc[e] \in Proc)
  BY DEF Procs, TypeOK, ProcType
<1>3. extractQ \in Seq(ExtractJob) /\ fallbackQ \in Seq(FallbackJob)
  BY DEF TypeOK, ChannelType
<1>4. CASE ExtractTake(e)
  <2> DEFINE j == Head(extractQ)
  <2>1. JobsIn(extractQ) = JobsIn(Tail(extractQ)) \cup {j}
    BY <1>3, <1>4, JobsAfter DEF ExtractTake
  <2>2. j \in ExtractJob /\ j \in JobsIn(extractQ)
    BY <1>3, <2>1, JobsAfter
  <2>3. QueueStatus(extractQ)'
    BY <1>4, <2>1 DEF ExtractTake, StatusInv, QueueStatus, graphVars
  <2>4. proc'[e].m = j.m /\ proc'[e].cats = j.cats
    BY <1>2, <1>4 DEF ExtractTake, Holding, TypeOK, ProcType
  <2>5. j.m \in Msg /\ hasStatus(j.cats) /\ hasStatus(cats[j.m])
    BY <2>2 DEF ExtractJob, StatusInv, QueueStatus
  <2>6. ProcStatus'
    BY <1>1, <1>2, <2>4, <2>5, ExtractFrame, ProcStepStatus
  <2> QED BY <1>1, <1>4, <2>3, <2>6, ExtractFrame, StableStatus
          DEF ExtractTake, StatusInv, queueVars
<1>5. CASE ~ExtractTake(e)
  <2>1. UNCHANGED extractQ /\ proc[e].pc # "idle"
    BY <1>5 DEF ExtractStep, ExtractUnreadable, ExtractOpen, ExtractText, ExtractNoText,
                ExtractCheck4, ExtractSend4, ExtractVision, ExtractCheck, ExtractSend,
                queueVars
  <2>2. \/ proc'[e].pc = "idle"
        \/ proc'[e].m = proc[e].m /\ proc'[e].cats = proc[e].cats
    <3>1. ASSUME NEW v, proc' = [proc EXCEPT ![e].pc = "check", ![e].v = v]
          PROVE  proc'[e].m = proc[e].m /\ proc'[e].cats = proc[e].cats
      BY <1>2, <3>1 DEF TypeOK, ProcType, Proc
    <3> QED BY <1>2, <1>5, <3>1, ProcMoves
            DEF ExtractStep, ExtractUnreadable, ExtractOpen, ExtractText, ExtractNoText,
                ExtractCheck4, ExtractSend4, ExtractVision, ExtractCheck, ExtractSend
  <2>3. ProcStatus'
    BY <1>1, <1>2, <2>1, <2>2, ExtractFrame, ProcStepStatus
  <2>4. QueueStatus(fallbackQ)'
    <3>1. \/ UNCHANGED fallbackQ
          \/ \E v \in Results \cup {"error", "none"} :
                fallbackQ' = Append(fallbackQ, FallbackJobOf(e, v))
      BY <1>2, <1>5
      DEF ExtractStep, ExtractUnreadable, ExtractOpen, ExtractText, ExtractNoText,
          ExtractCheck4, ExtractSend4, ExtractVision, ExtractCheck, ExtractSend, queueVars,
          TypeOK, ProcType, VerdictsAt
    <3>2. ASSUME NEW v \in Results \cup {"error", "none"},
                 fallbackQ' = Append(fallbackQ, FallbackJobOf(e, v))
          PROVE  QueueStatus(fallbackQ)'
      <4>1. FallbackJobOf(e, v) \in FallbackJob
        BY <1>2, <2>1 DEF FallbackJobOf, FallbackJob, Proc
      <4>2. JobsIn(fallbackQ') = JobsIn(fallbackQ) \cup {FallbackJobOf(e, v)}
        BY <1>3, <3>2, <4>1, JobsAfter
      <4>3. hasStatus(proc[e].cats) /\ hasStatus(cats[proc[e].m])
        BY <1>2, <2>1 DEF StatusInv, ProcStatus
      <4>4. UNCHANGED cats
        BY ExtractFrame
      <4> QED BY <4>2, <4>3, <4>4 DEF FallbackJobOf, StatusInv, QueueStatus
    <3> QED BY <1>1, <3>1, <3>2, StableStatus
  <2> QED BY <1>1, <2>1, <2>3, <2>4, ExtractFrame, StableStatus DEF StatusInv
<1> QED BY <1>4, <1>5

LEMMA StatusFallback ==
    ASSUME TypeOK, StatusInv, NEW f \in Fallbackers, FallbackTake(f) \/ FallbackVerify(f)
    PROVE  StatusInv'
<1>1. StatusesStay
  BY FallbackFrame DEF StatusesStay
<1>2. f \in Procs /\ (proc[f].pc # "idle" => proc[f].m \in Msg /\ proc[f] \in Proc)
  BY DEF Procs, TypeOK, ProcType
<1>3. fallbackQ \in Seq(FallbackJob)
  BY DEF TypeOK, ChannelType
<1>4. CASE FallbackTake(f)
  <2> DEFINE j == Head(fallbackQ)
  <2>1. JobsIn(fallbackQ) = JobsIn(Tail(fallbackQ)) \cup {j}
    BY <1>3, <1>4, JobsAfter DEF FallbackTake
  <2>2. j \in FallbackJob /\ j \in JobsIn(fallbackQ)
    BY <1>3, <2>1, JobsAfter
  <2>3. QueueStatus(fallbackQ)'
    BY <1>4, <2>1 DEF FallbackTake, StatusInv, QueueStatus, graphVars
  <2>4. proc'[f].m = j.m /\ proc'[f].cats = j.cats
    BY <1>2, <1>4 DEF FallbackTake, Holding, TypeOK, ProcType
  <2>5. j.m \in Msg /\ hasStatus(j.cats) /\ hasStatus(cats[j.m])
    BY <2>2 DEF FallbackJob, StatusInv, QueueStatus
  <2>6. ProcStatus'
    BY <1>1, <1>2, <2>4, <2>5, FallbackFrame, ProcStepStatus
  <2> QED BY <1>1, <2>3, <2>6, FallbackFrame, StableStatus DEF StatusInv
<1>5. CASE FallbackVerify(f)
  <2>1. /\ UNCHANGED fallbackQ
        /\ proc[f].pc # "idle"
    BY <1>5 DEF FallbackVerify, queueVars
  <2>2. proc'[f].m = proc[f].m /\ proc'[f].cats = proc[f].cats
    <3>1. ASSUME proc' = [proc EXCEPT ![f].pc = "fail", ![f].model = "fallback"]
          PROVE  proc'[f].m = proc[f].m /\ proc'[f].cats = proc[f].cats
      BY <1>2, <3>1 DEF TypeOK, ProcType, Proc
    <3> QED BY <1>2, <1>5, <3>1, ProcMoves DEF FallbackVerify
  <2>3. ProcStatus'
    BY <1>1, <1>2, <2>1, <2>2, FallbackFrame, ProcStepStatus
  <2> QED BY <1>1, <2>1, <2>3, FallbackFrame, StableStatus DEF StatusInv
<1> QED BY <1>4, <1>5

LEMMA StatusFinish ==
    ASSUME TypeOK, StatusInv, NEW p \in Procs, FinishStep(p)
    PROVE  StatusInv'
<1> USE DEF graphVars, cacheVars, queueVars, mainVars, clerkVars
<1> DEFINE m == proc[p].m
<1>1. /\ proc[p].pc # "idle" /\ m \in Msg /\ proc[p] \in Proc
      /\ hasStatus(proc[p].cats) /\ hasStatus(cats[m])
  BY FinishFrame DEF TypeOK, ProcType, StatusInv, ProcStatus
<1>2. ASSUME StatusesStay PROVE ProcStatus'
  <2>1. \/ proc'[p].pc = "idle"
        \/ proc'[p].m = proc[p].m /\ proc'[p].cats = proc[p].cats
    BY ProcMoves DEF FinishStep, StoreResult, StoreRecon, AutoBlock, StoreError,
                     StoreCooldownSkip, StoreFails
  <2> QED BY <1>1, <1>2, <2>1, FinishFrame, ProcStepStatus
<1>3. CASE AutoBlock(p)
  <2>1. StatusesStay
    <3>1. UNCHANGED cats => StatusesStay
      BY DEF StatusesStay
    <3> QED BY <1>1, <1>3, <3>1, SetCategoriesKeepsStatus, StatusLists DEF AutoBlock
  <2>2. UNCHANGED row
    BY <1>3 DEF AutoBlock
  <2> QED BY <1>2, <2>1, <2>2, FinishFrame, StableStatus DEF StatusInv
<1>4. CASE ~AutoBlock(p)
  <2>1. UNCHANGED cats
    BY <1>4 DEF FinishStep, StoreResult, StoreRecon, StoreError, StoreCooldownSkip,
                StoreFails
  <2>2. StatusesStay
    BY <2>1 DEF StatusesStay
  <2>3. RowStatus' /\ RescanStatus'
    <3>1. CASE UNCHANGED row
      BY <2>2, <3>1, FinishFrame, StableStatus
    <3>2. ASSUME NEW model \in Models \ {"skip"}, NEW data, NEW rescanIt,
                 WriteRow(m, StoreInvoiceExtraction(row[m], model, data, rescanIt))
          PROVE  RowStatus' /\ RescanStatus'
      <4>1. StoreInvoiceExtraction(row[m], model, data, rescanIt).model = model
        BY DEF StoreInvoiceExtraction
      <4> QED BY <1>1, <2>1, <3>2, <4>1, FinishFrame, WriteRowStatus
              DEF Models, VerdictModels
    <3>3. CASE WriteRow(m, StoreReconciliation(row[m], proc[p].v))
      <4> DEFINE new == StoreReconciliation(row[m], proc[p].v)
      <4>1. row[m] \in Row
        BY <1>1 DEF TypeOK, CacheType
      <4>2. new.model = row[m].model /\ new.po = row[m].po
        BY <4>1 DEF StoreReconciliation, Row
      <4>3. new.po => Extracted(m)
        BY <1>1, <4>2 DEF StatusInv, RowStatus
      <4> QED BY <1>1, <2>1, <3>3, <4>2, <4>3, FinishFrame, WriteRowStatus DEF Extracted
    <3>4. proc[p].model \in Models \ {"skip"} /\ "cooldown" \in Models \ {"skip"}
      BY <1>1 DEF Proc, Models, VerdictModels
    <3> QED BY <1>4, <3>1, <3>2, <3>3, <3>4 DEF FinishStep, StoreResult, StoreRecon,
            StoreError, StoreCooldownSkip, StoreFails
  <2> QED BY <1>2, <2>2, <2>3, FinishFrame, StableStatus DEF StatusInv
<1> QED BY <1>3, <1>4

LEMMA StatusMain ==
    ASSUME TypeOK, StatusInv, MainStep
    PROVE  StatusInv'
<1> USE DEF graphVars, cacheVars, queueVars, mainVars, clerkVars
<1>1. UNCHANGED <<cats, sorter, fallbackQ, proc, clerk>>
  BY DEF MainStep, Boot, ListInbox, ListFails, StartRescan, RescanRead, RescanExhaust,
         RescanFetch, RescanSend, EndRescan, LoopCheck, CloseExtract, CloseFallback, Exit
<1>2. StatusesStay
  BY <1>1 DEF StatusesStay
<1>3. /\ rescan.pc # "next" => rescan.m \in Msg
      /\ rescan \in Rescan
      /\ \A m \in Msg : row[m] \in Row
  BY DEF TypeOK, MainType, CacheType
<1>4. CASE Boot
  <2>1. rescan' = rescan /\ UNCHANGED extractQ
    BY <1>4 DEF Boot
  <2>2. \A m \in Msg : row'[m].model = row[m].model /\ row'[m].po = row[m].po
    BY <1>3, <1>4 DEF Boot, SweepOrphanedRescans, Row
  <2>3. RowStatus' /\ RescanStatus'
    BY <1>1, <1>3, <2>1, <2>2 DEF StatusInv, RowStatus, RescanStatus, Extracted
  <2> QED BY <1>1, <1>2, <2>1, <2>3, StableStatus DEF StatusInv
<1>5. CASE RescanExhaust
  <2>1. RowStatus' /\ RescanStatus'
    <3>1. CASE UNCHANGED row
      BY <1>2, <1>5, <3>1, StableStatus DEF RescanExhaust, RescanStatus, NoRescan
    <3>2. CASE WriteRow(rescan.m, MarkRescanExhausted(row[rescan.m]))
      <4> DEFINE new == MarkRescanExhausted(row[rescan.m])
      <4>1. rescan.m \in Msg /\ Extracted(rescan.m)
        BY <1>3, <1>5 DEF RescanExhaust, StatusInv, RescanStatus
      <4>2. new.model = row[rescan.m].model
        BY <1>3, <4>1 DEF MarkRescanExhausted, Row
      <4>3. hasStatus(cats[rescan.m])
        BY <4>1 DEF StatusInv, RowStatus
      <4>4. rescan' = NoRescan
        BY <1>5 DEF RescanExhaust
      <4> QED BY <1>1, <3>2, <4>1, <4>2, <4>3, <4>4, WriteRowStatus DEF Extracted
    <3> QED BY <1>5, <3>1, <3>2 DEF RescanExhaust
  <2> QED BY <1>1, <1>2, <1>5, <2>1, StableStatus DEF RescanExhaust, StatusInv
<1>6. CASE RescanRead
  <2>1. PICK m \in toRescan :
          \/ /\ row[m].po
             /\ rescan' = [pc |-> "act", m |-> m, cats |-> {},
                           tier |-> extractionTier(row[m].model) + 1]
          \/ UNCHANGED rescan
    BY <1>6 DEF RescanRead
  <2>2. m \in Msg /\ (row[m].po => Extracted(m)) /\ UNCHANGED <<row, extractQ>>
    BY <1>6 DEF RescanRead, TypeOK, MainType, StatusInv, RowStatus
  <2>3. RescanStatus'
    BY <2>1, <2>2 DEF StatusInv, RescanStatus, Extracted
  <2> QED BY <1>1, <1>2, <2>2, <2>3, StableStatus DEF StatusInv
<1>7. CASE RescanFetch
  <2>1. UNCHANGED <<row, extractQ>> /\ rescan.pc = "act"
    BY <1>7 DEF RescanFetch
  <2>2. rescan.m \in Msg /\ Extracted(rescan.m) /\ hasStatus(cats[rescan.m])
    BY <1>3, <2>1 DEF StatusInv, RescanStatus, RowStatus
  <2>3. RescanStatus'
    <3>1. CASE rescan' = [rescan EXCEPT !.pc = "send", !.cats = cats[rescan.m]]
      <4>1. rescan'.m = rescan.m /\ rescan'.cats = cats[rescan.m]
        BY <1>3, <3>1 DEF Rescan
      <4> QED BY <2>1, <2>2, <4>1 DEF RescanStatus, Extracted
    <3>2. CASE rescan' = NoRescan
      BY <3>2 DEF RescanStatus, NoRescan
    <3> QED BY <1>7, <3>1, <3>2 DEF RescanFetch
  <2> QED BY <1>1, <1>2, <2>1, <2>3, StableStatus DEF StatusInv
<1>8. CASE RescanSend
  <2> DEFINE j == [m |-> rescan.m, cats |-> rescan.cats, minTier |-> rescan.tier]
  <2>1. rescan.m \in Msg /\ hasStatus(rescan.cats) /\ hasStatus(cats[rescan.m])
    BY <1>3, <1>8 DEF RescanSend, StatusInv, RescanStatus, RowStatus
  <2>2. j \in ExtractJob /\ extractQ \in Seq(ExtractJob)
    BY <1>3, <1>8, <2>1
    DEF RescanSend, ExtractJob, Rescan, topExtractionTier, TypeOK, MainType, ChannelType
  <2>3. JobsIn(Append(extractQ, j)) = JobsIn(extractQ) \cup {j}
    BY <2>2, JobsAfter
  <2>4. extractQ' = extractQ \/ JobsIn(extractQ') = JobsIn(extractQ) \cup {j}
    BY <1>8, <2>3 DEF RescanSend
  <2>5. QueueStatus(extractQ)'
    BY <1>1, <2>1, <2>4 DEF StatusInv, QueueStatus
  <2>6. RescanStatus' /\ UNCHANGED row
    BY <1>8 DEF RescanSend, RescanStatus, NoRescan
  <2> QED BY <1>1, <1>2, <2>5, <2>6, StableStatus DEF StatusInv
<1>9. ASSUME UNCHANGED <<row, rescan, extractQ>> PROVE StatusInv'
  BY <1>1, <1>2, <1>9, StableStatus DEF StatusInv
<1> QED BY <1>4, <1>5, <1>6, <1>7, <1>8, <1>9
        DEF MainStep, ListInbox, ListFails, StartRescan, EndRescan, LoopCheck, CloseExtract,
            CloseFallback, Exit

LEMMA StatusWorld ==
    ASSUME TypeOK, StatusInv, WorldStep
    PROVE  StatusInv'
<1> USE DEF graphVars, cacheVars, queueVars, mainVars, clerkVars
<1>1. UNCHANGED <<row, sorter, extractQ, fallbackQ, proc, rescan>>
  BY DEF WorldStep, Deliver, Leave, SyncMessage, CooldownExpires, ClerkRead, ClerkWrite
<1>2. UNCHANGED cats => StatusesStay
  BY DEF StatusesStay
<1>3. ASSUME NEW m \in Msg, ClerkRead(m) PROVE StatusInv'
  <2>1. ClerkStatus'
    BY <1>3, StatusLists DEF ClerkRead, ClerkStatus
  <2> QED BY <1>1, <1>2, <1>3, <2>1, StableStatus DEF ClerkRead, StatusInv
<1>4. CASE ClerkWrite
  <2>1. StatusesStay
    BY <1>2, <1>4, SetCategoriesKeepsStatus DEF ClerkWrite, StatusInv, ClerkStatus
  <2>2. ClerkStatus'
    BY <1>4 DEF ClerkWrite, ClerkStatus, NoClerk
  <2> QED BY <1>1, <2>1, <2>2, StableStatus DEF StatusInv
<1>5. ASSUME UNCHANGED <<cats, clerk>> PROVE StatusInv'
  BY <1>1, <1>2, <1>5, StableStatus DEF StatusInv
<1> QED BY <1>3, <1>4, <1>5 DEF WorldStep, Deliver, Leave, SyncMessage, CooldownExpires

LEMMA StatusStep == TypeOK /\ StatusInv /\ [Next]_vars => StatusInv'
<1> SUFFICES ASSUME TypeOK, StatusInv, [Next]_vars PROVE StatusInv'
  OBVIOUS
<1>1. ASSUME Crash PROVE StatusInv'
  <2>1. JobsIn(extractQ') = {} /\ JobsIn(fallbackQ') = {}
    BY <1>1 DEF Crash, JobsIn
  <2>2. UNCHANGED <<cats, row, clerk>>
    BY <1>1 DEF Crash, graphVars, cacheVars, clerkVars
  <2>3. SorterStatus' /\ ProcStatus' /\ RescanStatus'
    BY <1>1 DEF Crash, SorterStatus, ProcStatus, RescanStatus, IdleSorter, IdleProc, NoRescan
  <2> QED BY <2>1, <2>2, <2>3, StableStatus DEF StatusInv, QueueStatus, StatusesStay
<1>2. ASSUME UNCHANGED vars PROVE StatusInv'
  BY <1>2, StableStatus
  DEF vars, graphVars, cacheVars, queueVars, mainVars, clerkVars, StatusInv, StatusesStay
<1> QED BY <1>1, <1>2, StatusSort, StatusExtract, StatusFallback, StatusFinish, StatusMain,
           StatusWorld DEF Next, Done

\* Whatever fails, crashes or overtakes what: a message whose extraction exists
\* or is under way never loses its status, so that no pass takes it for new
\* (processMessage's hasStatus check against every PATCH of the worker and of
\* the status menu).
THEOREM StatusKept == Spec => []ExtractedHasStatus
<1>1. StatusInv => ExtractedHasStatus
  BY DEF StatusInv, SorterStatus, QueueStatus, ProcStatus, RowStatus, ExtractedHasStatus,
         InHand, Buffered
<1> QED BY <1>1, StatusInit, StatusStep, TypeCorrect, PTL DEF Spec

-----------------------------------------------------------------------------
(* No extraction job is lost. *)

\* The extraction of a message is done, or in somebody's hands.
Secured(m) == HasInvoiceExtraction(row[m]) \/ InHand(m)

\* The inductive form of NoJobLost.  A clerk's request may hold a list with a
\* vendor from before a tag was replaced, and the auto-blockers' PATCH is the
\* last thing a job does: by then its row is there.
JobInv ==
    /\ NoJobLost
    /\ clerk.pc = "write" /\ Class[clerk.m] = "invoice" /\ hasVendor(clerk.cats) =>
        Secured(clerk.m)
    /\ \A p \in Procs : proc[p].pc \in {"recon", "block"} =>
        HasInvoiceExtraction(row[proc[p].m])

\* The faults that do lose jobs: a store that fails, a tag whose answer is lost,
\* and the death of the process.
NoLoss == Faults \cap {"write", "answer", "crash"} = {}

LEMMA JobInit == Init => JobInv
BY DEF Init, JobInv, NoJobLost, hasVendor, NoClerk, IdleProc

\* No step deletes a row.
RowsStay ==
    \A m \in Msg : HasInvoiceExtraction(row[m]) => HasInvoiceExtraction(row'[m])

\* No step of Job(p) lets go of a message that has no row.
SecuredStay == \A m \in Msg : Secured(m) => Secured(m)'

LEMMA WriteRowKeeps ==
    ASSUME TypeOK, NEW m, NEW new, WriteRow(m, new),
           HasInvoiceExtraction(row[m]) => HasInvoiceExtraction(new)
    PROVE  RowsStay
BY DEF TypeOK, CacheType, WriteRow, RowsStay

\* The statements keep rows, and a store or a stub leaves one.
LEMMA RowsKept ==
    ASSUME NEW r \in Row
    PROVE  /\ \A model \in Models : \A data, rescanIt :
                HasInvoiceExtraction(StoreInvoiceExtraction(r, model, data, rescanIt))
           /\ \A v : HasInvoiceExtraction(r) =>
                HasInvoiceExtraction(StoreReconciliation(r, v))
           /\ HasInvoiceExtraction(StubExtractionForRescan(r))
           /\ HasInvoiceExtraction(MarkSkipExtraction(r))
           /\ HasInvoiceExtraction(r) => HasInvoiceExtraction(MarkRescanExhausted(r))
           /\ HasInvoiceExtraction(r) => HasInvoiceExtraction(SweepOrphanedRescans(r))
BY DEF Row, NoRow, Models, VerdictModels, HasInvoiceExtraction, StoreInvoiceExtraction,
       StoreReconciliation, StubExtractionForRescan, MarkSkipExtraction,
       MarkRescanExhausted, SweepOrphanedRescans

\* A step that changes neither the categories nor the clerk's request, keeps what
\* is secured and starts no reconciliation without a row.
LEMMA JobFrame ==
    ASSUME TypeOK, JobInv, UNCHANGED <<cats, clerk>>, SecuredStay,
           \A p \in Procs : proc'[p].pc \in {"recon", "block"} =>
                HasInvoiceExtraction(row'[proc'[p].m])
    PROVE  JobInv'
<1>1. clerk.pc = "write" => clerk.m \in Msg
  BY DEF TypeOK, ClerkType
<1>2. \A m \in Msg : Secured(m) => Secured(m)'
  BY DEF SecuredStay
<1>3. NoJobLost'
  BY <1>2 DEF JobInv, NoJobLost, Secured
<1> QED BY <1>1, <1>2, <1>3 DEF JobInv

\* The jobs of a channel that a step appends to are still there, and the new one.
LEMMA BufferedAfter ==
    ASSUME NEW Job, NEW q \in Seq(Job), NEW m
    PROVE  /\ \A j \in Job : Buffered(q, m) \/ j.m = m => Buffered(Append(q, j), m)
           /\ q # <<>> /\ Buffered(q, m) => Head(q).m = m \/ Buffered(Tail(q), m)
BY JobsAfter DEF Buffered

LEMMA JobSort ==
    ASSUME NoLoss, TypeOK, JobInv, NEW s \in Sorters, SortStep(s)
    PROVE  JobInv'
<1> USE DEF graphVars, cacheVars, queueVars, mainVars, clerkVars
<1> SUFFICES ASSUME NEW m, m = sorter[s].m PROVE JobInv'
  OBVIOUS
<1>1. sorter[s].pc # "idle" => m \in Msg /\ row[m] \in Row
  BY DEF TypeOK, SorterType, CacheType
<1>2. UNCHANGED <<proc, clerk, fallbackQ>>
  BY DEF SortStep, SortTake, SortSkip, SortMark, SortTag, SortTagFails, SortHas,
         SortHandOff
<1>3. RowsStay
  <2>1. CASE UNCHANGED row
    BY <2>1 DEF RowsStay
  <2>2. CASE SortMark(s) \/ SortHandOff(s)
    BY <1>1, <2>1, <2>2, RowsKept, WriteRowKeeps DEF SortMark, SortHandOff
  <2> QED BY <2>1, <2>2 DEF SortStep, SortTake, SortSkip, SortTag, SortTagFails, SortHas
<1>4. \A t \in Sorters \ {s} : sorter'[t] = sorter[t]
  BY DEF SortStep, SortTake, SortSkip, SortMark, SortTag, SortTagFails, SortHas,
         SortHandOff, TypeOK, SorterType
<1>5. \A x \in Msg : Buffered(extractQ, x) => Buffered(extractQ', x)
  <2>1. CASE UNCHANGED extractQ
    BY <2>1
  <2>2. CASE SortHandOff(s)
    <3> DEFINE j == [m |-> m, cats |-> sorter[s].cats, minTier |-> 0]
    <3>1. j \in ExtractJob /\ extractQ \in Seq(ExtractJob)
      BY <1>1, <2>2 DEF SortHandOff, ExtractJob, topExtractionTier, TypeOK, SorterType,
                        Sorter, ChannelType
    <3>2. \A x : Buffered(extractQ, x) => Buffered(Append(extractQ, j), x)
      BY <3>1, BufferedAfter
    <3> QED BY <2>2, <3>2 DEF SortHandOff
  <2> QED BY <2>1, <2>2 DEF SortStep, SortTake, SortSkip, SortMark, SortTag, SortTagFails,
                            SortHas
\* The message this worker had in hand.
<1>6. ASSUME sorter[s].pc \in {"has", "handoff"} PROVE Secured(m)'
  <2>1. CASE SortHas(s)
    <3>1. CASE HasInvoiceExtraction(row[m])
      BY <1>1, <1>3, <1>6, <3>1 DEF Secured, RowsStay
    <3>2. CASE sorter' = [sorter EXCEPT ![s].pc = "handoff"]
      <4>1. sorter'[s].pc = "handoff" /\ sorter'[s].m = m
        BY <3>2 DEF TypeOK, SorterType, Sorter
      <4> QED BY <4>1 DEF Secured, InHand
    <3> QED BY <2>1, <3>1, <3>2 DEF SortHas
  <2>2. CASE SortHandOff(s)
    <3> DEFINE j == [m |-> m, cats |-> sorter[s].cats, minTier |-> 0]
    <3>1. CASE HasRoom(extractQ, ExtractCap)
      <4>1. j \in ExtractJob /\ extractQ \in Seq(ExtractJob) /\ j.m = m
        BY <1>1, <1>6 DEF ExtractJob, topExtractionTier, TypeOK, SorterType, Sorter,
                          ChannelType
      <4>2. Buffered(Append(extractQ, j), m)
        BY <4>1, BufferedAfter, SMTT(40)
      <4>3. Buffered(extractQ', m)
        BY <2>2, <3>1, <4>2 DEF SortHandOff
      <4> QED BY <4>3 DEF Secured, InHand
    <3>2. CASE ~HasRoom(extractQ, ExtractCap)
      <4>1. WriteRow(m, StubExtractionForRescan(row[m]))
        BY <2>2, <3>2 DEF SortHandOff, NoLoss, WriteFails
      <4>2. HasInvoiceExtraction(row'[m])
        BY <1>1, <1>6, <4>1, RowsKept DEF WriteRow, TypeOK, CacheType
      <4> QED BY <4>2 DEF Secured
    <3> QED BY <3>1, <3>2
  <2> QED BY <1>6, <2>1, <2>2 DEF SortStep, SortTake, SortSkip, SortMark, SortTag,
                                  SortTagFails
<1>7. SecuredStay
  <2> SUFFICES ASSUME NEW x \in Msg, Secured(x) PROVE Secured(x)'
    BY DEF SecuredStay
  <2>1. CASE \E t \in Sorters : sorter[t].pc \in {"has", "handoff"} /\ sorter[t].m = x
    BY <1>4, <1>6, <2>1 DEF Secured, InHand
  <2>2. CASE HasInvoiceExtraction(row[x])
    BY <1>3, <2>2 DEF Secured, RowsStay
  <2>3. CASE Buffered(extractQ, x) \/ Buffered(fallbackQ, x)
    BY <1>2, <1>5, <2>3 DEF Secured, InHand
  <2>4. CASE \E p \in Procs : proc[p].pc # "idle" /\ proc[p].m = x
    BY <1>2, <2>4 DEF Secured, InHand
  <2> QED BY <2>1, <2>2, <2>3, <2>4 DEF Secured, InHand
<1>8. \A p \in Procs : proc'[p].pc \in {"recon", "block"} =>
        HasInvoiceExtraction(row'[proc'[p].m])
  BY <1>2, <1>3 DEF JobInv, RowsStay, TypeOK, ProcType
<1>9. CASE UNCHANGED cats
  BY <1>2, <1>7, <1>8, <1>9, JobFrame
<1>10. ASSUME NEW new, SetCategories(m, new), m \in Msg,
              Class[m] # "invoice" \/ Secured(m)'
       PROVE  JobInv'
  <2>1. \A x \in Msg : x # m => cats'[x] = cats[x]
    BY <1>10 DEF SetCategories, TypeOK, GraphType
  <2>2. NoJobLost'
    BY <1>7, <1>10, <2>1 DEF JobInv, NoJobLost, Secured, SecuredStay
  <2>3. clerk.pc = "write" => clerk.m \in Msg
    BY DEF TypeOK, ClerkType
  <2> QED BY <1>2, <1>7, <1>8, <2>2, <2>3 DEF JobInv, SecuredStay
<1>11. CASE SortSkip(s)
  <2>1. m \in Msg /\ Class[m] # "invoice"
    BY <1>1, <1>11 DEF SortSkip, SortOutcomes
  <2> QED BY <1>9, <1>10, <1>11, <2>1 DEF SortSkip
<1>12. CASE SortTag(s)
  <2>1. PICK outcome \in SortOutcomes(Class[m]) \ {"skip"}, new \in SortTags(s) :
          /\ SetCategories(m, new)
          /\ sorter' = [sorter EXCEPT ![s] =
                 IF outcome = "extract" THEN [pc |-> "has", m |-> m, cats |-> new]
                 ELSE IdleSorter]
    BY <1>12 DEF SortTag
  <2>2. Class[m] = "invoice" => outcome = "extract"
    BY DEF SortOutcomes
  <2>3. outcome = "extract" => sorter'[s].pc = "has" /\ sorter'[s].m = m
    BY <2>1 DEF TypeOK, SorterType
  <2>4. Class[m] # "invoice" \/ Secured(m)'
    BY <2>2, <2>3 DEF Secured, InHand
  <2>5. m \in Msg
    BY <1>1, <1>12 DEF SortTag
  <2> QED BY <1>10, <2>1, <2>4, <2>5
<1>13. CASE SortTagFails(s)
  BY <1>9, <1>13 DEF SortTagFails, NoLoss, AnswerLost
<1> QED BY <1>9, <1>11, <1>12, <1>13
        DEF SortStep, SortTake, SortMark, SortHas, SortHandOff

\* A step of one worker secures what was secured, if it does so for the message
\* it had and for the jobs in the channels.
LEMMA ProcStepSecures ==
    ASSUME NEW p \in Procs, RowsStay, UNCHANGED sorter,
           \A q \in Procs \ {p} : proc'[q] = proc[q],
           \A x \in Msg : Buffered(extractQ, x) \/ Buffered(fallbackQ, x) => Secured(x)',
           \A x \in Msg : proc[p].pc # "idle" /\ proc[p].m = x => Secured(x)'
    PROVE  SecuredStay
<1> SUFFICES ASSUME NEW x \in Msg, Secured(x) PROVE Secured(x)'
  BY DEF SecuredStay
<1>1. CASE HasInvoiceExtraction(row[x])
  BY <1>1 DEF Secured, RowsStay
<1>2. CASE \E s \in Sorters : sorter[s].pc \in {"has", "handoff"} /\ sorter[s].m = x
  BY <1>2 DEF Secured, InHand
<1>3. ASSUME NEW q \in Procs \ {p}, proc[q].pc # "idle", proc[q].m = x
      PROVE  Secured(x)'
  BY <1>3 DEF Secured, InHand
<1> QED BY <1>1, <1>2, <1>3 DEF Secured, InHand

LEMMA JobExtract ==
    ASSUME TypeOK, JobInv, NEW e \in Extractors, ExtractStep(e)
    PROVE  JobInv'
<1>1. e \in Procs /\ (proc[e].pc # "idle" => proc[e].m \in Msg /\ proc[e] \in Proc)
  BY DEF Procs, TypeOK, ProcType
<1>2. extractQ \in Seq(ExtractJob) /\ fallbackQ \in Seq(FallbackJob)
  BY DEF TypeOK, ChannelType
<1>3. RowsStay /\ UNCHANGED <<cats, clerk, sorter>>
  BY ExtractFrame DEF RowsStay
<1>4. proc'[e].pc \notin {"recon", "block"}
  <2>1. proc[e] \in Proc /\ proc \in [Procs -> Proc]
    BY <1>1 DEF TypeOK, ProcType
  <2>2. ASSUME NEW pc, pc \notin {"recon", "block"}, GoTo(e, pc)
        PROVE  proc'[e].pc \notin {"recon", "block"}
    BY <1>1, <2>1, <2>2 DEF GoTo, Proc
  <2>3. ASSUME NEW v, NEW model, GoStore(e, v, model)
        PROVE  proc'[e].pc \notin {"recon", "block"}
    BY <1>1, <2>1, <2>3 DEF GoStore, Proc
  <2>4. ASSUME NEW v, proc' = [proc EXCEPT ![e].pc = "check", ![e].v = v]
        PROVE  proc'[e].pc \notin {"recon", "block"}
    BY <1>1, <2>1, <2>4 DEF Proc
  <2>5. ExtractTake(e) => proc'[e].pc = "start"
    BY <1>1, <2>1 DEF ExtractTake, Holding
  <2>6. Finish(e) => proc'[e].pc = "idle"
    BY <1>1, ProcMoves
  <2> QED BY <2>2, <2>3, <2>4, <2>5, <2>6
          DEF ExtractStep, ExtractUnreadable, ExtractOpen, ExtractText, ExtractNoText,
              ExtractCheck4, ExtractSend4, ExtractVision, ExtractCheck, ExtractSend
<1>5. \A p \in Procs : proc'[p].pc \in {"recon", "block"} =>
        HasInvoiceExtraction(row'[proc'[p].m])
  BY <1>4, ExtractFrame DEF JobInv
<1>6. CASE ExtractTake(e)
  <2>1. \A x \in Msg : Buffered(extractQ, x) => Head(extractQ).m = x \/ Buffered(extractQ', x)
    BY <1>2, <1>6, BufferedAfter DEF ExtractTake
  <2>2. proc'[e].pc # "idle" /\ proc'[e].m = Head(extractQ).m
    BY <1>1, <1>6 DEF ExtractTake, Holding, TypeOK, ProcType
  <2>3. UNCHANGED fallbackQ /\ proc[e].pc = "idle"
    BY <1>6 DEF ExtractTake
  <2>4. \A x \in Msg : Buffered(extractQ, x) \/ Buffered(fallbackQ, x) => Secured(x)'
    BY <1>1, <2>1, <2>2, <2>3 DEF Secured, InHand
  <2> QED BY <1>1, <1>3, <1>5, <2>3, <2>4, ExtractFrame, ProcStepSecures, JobFrame
<1>7. CASE ~ExtractTake(e)
  <2>1. UNCHANGED extractQ /\ proc[e].pc # "idle"
    BY <1>7 DEF ExtractStep, ExtractUnreadable, ExtractOpen, ExtractText, ExtractNoText,
                ExtractCheck4, ExtractSend4, ExtractVision, ExtractCheck, ExtractSend,
                queueVars
  <2>2. ASSUME NEW v \in Results \cup {"error", "none"}, NEW m, m = proc[e].m,
               fallbackQ' = Append(fallbackQ, FallbackJobOf(e, v))
        PROVE  /\ \A x \in Msg : Buffered(fallbackQ, x) => Buffered(fallbackQ', x)
               /\ Secured(m)'
    <3>1. FallbackJobOf(e, v) \in FallbackJob /\ FallbackJobOf(e, v).m = m
      BY <1>1, <2>1, <2>2 DEF FallbackJobOf, FallbackJob, Proc
    <3>2. \A x : Buffered(fallbackQ, x) \/ m = x => Buffered(fallbackQ', x)
      BY <1>2, <2>2, <3>1, BufferedAfter
    <3>3. Secured(m)'
      BY <3>2 DEF Secured, InHand
    <3> QED BY <3>2, <3>3
  <2>3. \/ UNCHANGED fallbackQ /\ proc'[e].pc # "idle" /\ proc'[e].m = proc[e].m
        \/ \E v \in Results \cup {"error", "none"} :
              fallbackQ' = Append(fallbackQ, FallbackJobOf(e, v))
    <3>1. proc[e] \in Proc /\ proc \in [Procs -> Proc]
      BY <1>1, <2>1 DEF TypeOK, ProcType
    <3>2. ASSUME NEW pc, pc # "idle", GoTo(e, pc)
          PROVE  proc'[e].pc # "idle" /\ proc'[e].m = proc[e].m
      BY <1>1, <3>1, <3>2 DEF GoTo, Proc
    <3>3. ASSUME NEW v, NEW model, GoStore(e, v, model)
          PROVE  proc'[e].pc # "idle" /\ proc'[e].m = proc[e].m
      BY <1>1, <3>1, <3>3 DEF GoStore, Proc
    <3>4. ASSUME NEW v, proc' = [proc EXCEPT ![e].pc = "check", ![e].v = v]
          PROVE  proc'[e].pc # "idle" /\ proc'[e].m = proc[e].m
      BY <1>1, <3>1, <3>4 DEF Proc
    <3>5. proc[e].pc = "send" => proc[e].v \in Results \cup {"error"}
      BY <1>1 DEF TypeOK, ProcType, VerdictsAt
    <3> QED BY <1>7, <3>2, <3>3, <3>4, <3>5
            DEF ExtractStep, ExtractUnreadable, ExtractOpen, ExtractText, ExtractNoText,
                ExtractCheck4, ExtractSend4, ExtractVision, ExtractCheck, ExtractSend,
                queueVars
  <2>4. \A x \in Msg : proc[e].m = x => Secured(x)'
    <3> SUFFICES ASSUME NEW x \in Msg, proc[e].m = x PROVE Secured(x)'
      OBVIOUS
    <3>1. CASE proc'[e].pc # "idle" /\ proc'[e].m = x
      BY <1>1, <3>1 DEF Secured, InHand
    <3> QED BY <2>2, <2>3, <3>1
  <2>5. \A x \in Msg : Buffered(fallbackQ, x) => Buffered(fallbackQ', x)
    <3>1. CASE UNCHANGED fallbackQ
      BY <3>1
    <3> QED BY <2>2, <2>3, <3>1
  <2>6. \A x \in Msg : Buffered(extractQ, x) \/ Buffered(fallbackQ, x) => Secured(x)'
    BY <2>1, <2>5 DEF Secured, InHand
  <2> QED BY <1>1, <1>3, <1>5, <2>4, <2>6, ExtractFrame, ProcStepSecures, JobFrame
<1> QED BY <1>6, <1>7

LEMMA JobFallback ==
    ASSUME TypeOK, JobInv, NEW f \in Fallbackers, FallbackTake(f) \/ FallbackVerify(f)
    PROVE  JobInv'
<1>1. /\ f \in Procs /\ (proc[f].pc # "idle" => proc[f].m \in Msg)
      /\ proc[f] \in Proc /\ proc \in [Procs -> Proc]
  BY DEF Procs, TypeOK, ProcType
<1>2. fallbackQ \in Seq(FallbackJob)
  BY DEF TypeOK, ChannelType
<1>3. RowsStay /\ UNCHANGED <<cats, clerk, sorter, extractQ>>
  BY FallbackFrame DEF RowsStay
<1>4. CASE FallbackTake(f)
  <2>1. \A x \in Msg :
          Buffered(fallbackQ, x) => Head(fallbackQ).m = x \/ Buffered(fallbackQ', x)
    BY <1>2, <1>4, BufferedAfter DEF FallbackTake
  <2>2. proc'[f].pc = "verify" /\ proc'[f].m = Head(fallbackQ).m /\ proc[f].pc = "idle"
    BY <1>1, <1>4 DEF FallbackTake, Holding
  <2>3. \A x \in Msg : Buffered(extractQ, x) \/ Buffered(fallbackQ, x) => Secured(x)'
    BY <1>1, <1>3, <2>1, <2>2 DEF Secured, InHand
  <2>4. \A p \in Procs : proc'[p].pc \in {"recon", "block"} =>
          HasInvoiceExtraction(row'[proc'[p].m])
    BY <2>2, FallbackFrame DEF JobInv
  <2> QED BY <1>1, <1>3, <2>2, <2>3, <2>4, FallbackFrame, ProcStepSecures, JobFrame
<1>5. CASE FallbackVerify(f)
  <2>1. UNCHANGED fallbackQ
    BY <1>5 DEF FallbackVerify, queueVars
  <2>2. proc'[f].pc \in {"store", "fail"} /\ proc'[f].m = proc[f].m
    <3>1. ASSUME proc' = [proc EXCEPT ![f].pc = "fail", ![f].model = "fallback"]
          PROVE  proc'[f].pc \in {"store", "fail"} /\ proc'[f].m = proc[f].m
      BY <1>1, <3>1 DEF Proc
    <3>2. ASSUME NEW v, NEW model, GoStore(f, v, model)
          PROVE  proc'[f].pc \in {"store", "fail"} /\ proc'[f].m = proc[f].m
      BY <1>1, <3>2 DEF GoStore, Proc
    <3> QED BY <1>5, <3>1, <3>2 DEF FallbackVerify
  <2>3. \A x \in Msg : proc[f].m = x => Secured(x)'
    BY <1>1, <2>2 DEF Secured, InHand
  <2>4. \A x \in Msg : Buffered(extractQ, x) \/ Buffered(fallbackQ, x) => Secured(x)'
    BY <1>3, <2>1 DEF Secured, InHand
  <2>5. \A p \in Procs : proc'[p].pc \in {"recon", "block"} =>
          HasInvoiceExtraction(row'[proc'[p].m])
    BY <2>2, FallbackFrame DEF JobInv
  <2> QED BY <1>1, <1>3, <2>3, <2>4, <2>5, FallbackFrame, ProcStepSecures, JobFrame
<1> QED BY <1>4, <1>5

LEMMA JobFinish ==
    ASSUME NoLoss, TypeOK, JobInv, NEW p \in Procs, FinishStep(p)
    PROVE  JobInv'
<1> USE DEF graphVars, cacheVars, queueVars, mainVars, clerkVars
<1> SUFFICES ASSUME NEW m, m = proc[p].m PROVE JobInv'
  OBVIOUS
<1>1. /\ m \in Msg /\ row[m] \in Row /\ row \in [Msg -> Row]
      /\ proc[p] \in Proc /\ proc \in [Procs -> Proc]
  BY FinishFrame DEF TypeOK, ProcType, CacheType
<1>2. ~StoreFails(p)
  BY DEF StoreFails, NoLoss, WriteFails
\* However the job ends, its message has a row, and every other row stays.
<1>3. RowsStay /\ HasInvoiceExtraction(row'[m])
  <2>1. CASE AutoBlock(p)
    BY <1>1, <2>1 DEF AutoBlock, JobInv, RowsStay
  <2>2. CASE StoreRecon(p)
    <3>1. WriteRow(m, StoreReconciliation(row[m], proc[p].v))
      BY <2>2 DEF StoreRecon
    <3>2. HasInvoiceExtraction(StoreReconciliation(row[m], proc[p].v))
      BY <1>1, <2>2, RowsKept DEF StoreRecon, JobInv
    <3> QED BY <1>1, <3>1, <3>2, WriteRowKeeps DEF WriteRow
  <2>3. ASSUME NEW model \in Models, NEW data, NEW rescanIt,
               WriteRow(m, StoreInvoiceExtraction(row[m], model, data, rescanIt))
        PROVE  RowsStay /\ HasInvoiceExtraction(row'[m])
    <3>1. HasInvoiceExtraction(StoreInvoiceExtraction(row[m], model, data, rescanIt))
      BY <1>1, RowsKept
    <3> QED BY <1>1, <2>3, <3>1, WriteRowKeeps DEF WriteRow
  <2>4. proc[p].model \in Models /\ "cooldown" \in Models
    BY <1>1 DEF Proc, Models
  <2> QED BY <1>2, <2>1, <2>2, <2>3, <2>4
          DEF FinishStep, StoreResult, StoreError, StoreCooldownSkip
<1>4. Secured(m)'
  BY <1>3 DEF Secured
<1>5. SecuredStay
  <2>1. \A x \in Msg : Buffered(extractQ, x) \/ Buffered(fallbackQ, x) => Secured(x)'
    BY FinishFrame DEF Secured, InHand
  <2> QED BY <1>1, <1>3, <1>4, <2>1, FinishFrame, ProcStepSecures
<1>6. \A q \in Procs : proc'[q].pc \in {"recon", "block"} =>
        HasInvoiceExtraction(row'[proc'[q].m])
  <2>1. proc'[p].pc = "idle" \/ proc'[p].m = m
    BY <1>1, ProcMoves DEF FinishStep, StoreResult, StoreRecon, AutoBlock, StoreError,
                           StoreCooldownSkip, StoreFails
  <2>2. proc'[p].pc \in {"recon", "block"} => HasInvoiceExtraction(row'[proc'[p].m])
    BY <1>3, <2>1
  <2>3. \A q \in Procs \ {p} : proc[q].pc \in {"recon", "block"} => proc[q].m \in Msg
    BY DEF TypeOK, ProcType
  <2> QED BY <1>3, <2>2, <2>3, FinishFrame DEF JobInv, RowsStay
<1>7. CASE UNCHANGED cats
  BY <1>5, <1>6, <1>7, FinishFrame, JobFrame
<1>8. ASSUME NEW new, SetCategories(m, new) PROVE JobInv'
  <2>1. \A x \in Msg : x # m => cats'[x] = cats[x]
    BY <1>1, <1>8 DEF SetCategories, TypeOK, GraphType
  <2>2. NoJobLost'
    BY <1>4, <1>5, <2>1 DEF JobInv, NoJobLost, Secured, SecuredStay
  <2>3. clerk.pc = "write" => clerk.m \in Msg
    BY DEF TypeOK, ClerkType
  <2>4. \A x \in Msg : Secured(x) => Secured(x)'
    BY <1>5 DEF SecuredStay
  <2> QED BY <1>6, <2>2, <2>3, <2>4, FinishFrame DEF JobInv
<1> QED BY <1>7, <1>8 DEF FinishStep, StoreResult, StoreRecon, AutoBlock, StoreError,
                         StoreCooldownSkip, StoreFails

LEMMA JobMain ==
    ASSUME TypeOK, JobInv, MainStep
    PROVE  JobInv'
<1> USE DEF graphVars, cacheVars, queueVars, mainVars, clerkVars
<1>1. UNCHANGED <<cats, sorter, fallbackQ, proc, clerk>>
  BY DEF MainStep, Boot, ListInbox, ListFails, StartRescan, RescanRead, RescanExhaust,
         RescanFetch, RescanSend, EndRescan, LoopCheck, CloseExtract, CloseFallback, Exit
<1>2. RowsStay
  <2>1. row \in [Msg -> Row] /\ (rescan.pc # "next" => rescan.m \in Msg)
    BY DEF TypeOK, CacheType, MainType
  <2>2. CASE UNCHANGED row
    BY <2>2 DEF RowsStay
  <2>3. CASE Boot
    BY <2>1, <2>2, <2>3, RowsKept DEF Boot, RowsStay
  <2>4. CASE RescanExhaust
    BY <2>1, <2>2, <2>4, RowsKept, WriteRowKeeps DEF RescanExhaust
  <2> QED BY <2>2, <2>3, <2>4
          DEF MainStep, ListInbox, ListFails, StartRescan, RescanRead, RescanFetch,
              RescanSend, EndRescan, LoopCheck, CloseExtract, CloseFallback, Exit
<1>3. \A x \in Msg : Buffered(extractQ, x) => Buffered(extractQ', x)
  <2>1. CASE UNCHANGED extractQ
    BY <2>1
  <2>2. CASE RescanSend
    <3> DEFINE j == [m |-> rescan.m, cats |-> rescan.cats, minTier |-> rescan.tier]
    <3>1. j \in ExtractJob /\ extractQ \in Seq(ExtractJob)
      BY <2>2 DEF RescanSend, ExtractJob, Rescan, topExtractionTier, TypeOK, MainType,
                  ChannelType
    <3>2. \A x : Buffered(extractQ, x) => Buffered(Append(extractQ, j), x)
      BY <3>1, BufferedAfter
    <3> QED BY <2>2, <3>2 DEF RescanSend
  <2> QED BY <2>1, <2>2
          DEF MainStep, Boot, ListInbox, ListFails, StartRescan, RescanRead, RescanExhaust,
              RescanFetch, EndRescan, LoopCheck, CloseExtract, CloseFallback, Exit
<1>4. SecuredStay
  <2> SUFFICES ASSUME NEW x \in Msg, Secured(x) PROVE Secured(x)'
    BY DEF SecuredStay
  <2>1. CASE HasInvoiceExtraction(row[x])
    BY <1>2, <2>1 DEF Secured, RowsStay
  <2>2. CASE InHand(x)
    BY <1>1, <1>3, <2>2 DEF Secured, InHand
  <2> QED BY <2>1, <2>2 DEF Secured
<1>5. \A p \in Procs : proc'[p].pc \in {"recon", "block"} =>
        HasInvoiceExtraction(row'[proc'[p].m])
  BY <1>1, <1>2 DEF JobInv, RowsStay, TypeOK, ProcType
<1> QED BY <1>1, <1>4, <1>5, JobFrame

LEMMA JobWorld ==
    ASSUME TypeOK, JobInv, WorldStep
    PROVE  JobInv'
<1> USE DEF graphVars, cacheVars, queueVars, mainVars, clerkVars
<1>1. UNCHANGED <<row, sorter, extractQ, fallbackQ, proc>>
  BY DEF WorldStep, Deliver, Leave, SyncMessage, CooldownExpires, ClerkRead, ClerkWrite
<1>2. \A x \in Msg : Secured(x) => Secured(x)'
  BY <1>1 DEF Secured, InHand
<1>3. \A p \in Procs : proc'[p].pc \in {"recon", "block"} =>
        HasInvoiceExtraction(row'[proc'[p].m])
  BY <1>1 DEF JobInv
<1>4. ASSUME NEW m \in Msg, ClerkRead(m) PROVE JobInv'
  <2>1. UNCHANGED cats
    BY <1>4 DEF ClerkRead
  <2>2. NoJobLost'
    BY <1>2, <2>1 DEF JobInv, NoJobLost, Secured
  <2>3. PICK status \in ClerkStatuses :
          clerk' = [pc |-> "write", m |-> m, cats |-> ReplaceStatus(cats[m], status)]
    BY <1>4 DEF ClerkRead
  <2>4. hasVendor(ReplaceStatus(cats[m], status)) => hasVendor(cats[m])
    BY DEF hasVendor, ReplaceStatus, Without
  <2>5. Class[m] = "invoice" /\ hasVendor(cats[m]) => Secured(m)
    BY DEF JobInv, NoJobLost, Secured
  <2>6. Class[m] = "invoice" /\ hasVendor(clerk'.cats) => Secured(m)'
    BY <1>2, <2>3, <2>4, <2>5
  <2>7. clerk'.m = m
    BY <2>3
  <2> QED BY <1>3, <2>2, <2>6, <2>7 DEF JobInv
<1>5. CASE ClerkWrite
  <2>1. clerk.m \in Msg /\ clerk' = NoClerk
    BY <1>5 DEF ClerkWrite, TypeOK, ClerkType
  <2>2. ASSUME SetCategories(clerk.m, clerk.cats) PROVE NoJobLost'
    <3>1. \A x \in Msg : cats'[x] = IF x = clerk.m THEN clerk.cats ELSE cats[x]
      BY <2>1, <2>2 DEF SetCategories, TypeOK, GraphType
    <3>2. \A x \in Msg : Class[x] = "invoice" /\ hasVendor(cats'[x]) => Secured(x)
      BY <1>5, <3>1 DEF ClerkWrite, JobInv, NoJobLost, Secured
    <3> QED BY <1>2, <3>2 DEF NoJobLost, Secured
  <2>3. ASSUME UNCHANGED cats PROVE NoJobLost'
    BY <1>2, <2>3 DEF JobInv, NoJobLost, Secured
  <2>4. NoJobLost'
    BY <1>5, <2>2, <2>3 DEF ClerkWrite
  <2> QED BY <1>3, <2>1, <2>4 DEF JobInv, NoClerk
<1>6. ASSUME UNCHANGED <<cats, clerk>> PROVE JobInv'
  BY <1>2, <1>3, <1>6, JobFrame DEF SecuredStay
<1> QED BY <1>4, <1>5, <1>6 DEF WorldStep, Deliver, Leave, SyncMessage, CooldownExpires

LEMMA JobStep ==
    ASSUME NoLoss
    PROVE  TypeOK /\ JobInv /\ [Next]_vars => JobInv'
<1> SUFFICES ASSUME TypeOK, JobInv, [Next]_vars PROVE JobInv'
  OBVIOUS
<1>1. ~Crash
  BY DEF NoLoss, Crash
<1>2. ASSUME UNCHANGED vars PROVE JobInv'
  <2>1. UNCHANGED <<row, sorter, extractQ, fallbackQ, proc, cats, clerk>>
    BY <1>2 DEF vars, graphVars, cacheVars, queueVars, mainVars, clerkVars
  <2>2. SecuredStay
    BY <2>1 DEF SecuredStay, Secured, InHand
  <2>3. \A p \in Procs : proc'[p].pc \in {"recon", "block"} =>
          HasInvoiceExtraction(row'[proc'[p].m])
    BY <2>1 DEF JobInv
  <2> QED BY <2>1, <2>2, <2>3, JobFrame
<1> QED BY <1>1, <1>2, JobSort, JobExtract, JobFallback, JobFinish, JobMain, JobWorld
        DEF Next, Done

\* Unless a store fails, the answer to a PATCH is lost or the process dies, an
\* invoice the sort pool has tagged has its row or is in a worker's hands: full
\* channels, escalations, failing reads and Graph calls, messages that vanish
\* and writes by clerks lose no job (the hand-offs of processMessage and
\* verifyInvoice, and the drain of main).
THEOREM JobsKept ==
    ASSUME NoLoss
    PROVE  Spec => []NoJobLost
<1>1. JobInv => NoJobLost
  BY DEF JobInv
<1> QED BY <1>1, JobInit, JobStep, TypeCorrect, PTL DEF Spec

-----------------------------------------------------------------------------
(* One worker a message: who examines a message, and which worker holds the  *)
(* extraction of a row.                                                      *)

\* Only a row that was written has an attempt or a rescan flag.
RowsBegin == \A m \in Msg : row[m].model = "absent" => row[m] = NoRow

\* A worker without a job holds no message.
IdleEmpty == \A p \in Procs : proc[p].pc = "idle" => proc[p].m = NoMsg

\* In one pass a message is with one sort worker, or listed, and listed once:
\* no two workers ask for the same extraction.
SortOnce ==
    /\ \A s, t \in Sorters :
         sorter[s].pc # "idle" /\ sorter[t].pc # "idle" /\ sorter[s].m = sorter[t].m => s = t
    /\ \A s \in Sorters, j \in listed : sorter[s].pc # "idle" => sorter[s].m # j.m
    /\ \A j, k \in listed : j.m = k.m => j = k

\* The ids to rescan are left from this pass, and the one at hand is none of
\* them.
PassOnce ==
    /\ phase # "rescan" => toRescan = {}
    /\ rescan.pc # "next" => rescan.m \notin toRescan

OnceInv ==
    /\ RowsBegin
    /\ IdleEmpty
    /\ SortOnce
    /\ PassOnce

LEMMA OnceInit == Init => OnceInv
BY DEF Init, OnceInv, RowsBegin, IdleEmpty, SortOnce, PassOnce, IdleProc, IdleSorter, NoRescan

\* A statement that leaves a row written, or as it was.
LEMMA RowsBeginKept ==
    ASSUME TypeOK, RowsBegin, NEW m, NEW new, WriteRow(m, new),
           new.model # "absent" \/ new = row[m]
    PROVE  RowsBegin'
BY DEF TypeOK, CacheType, WriteRow, RowsBegin

LEMMA OnceStable ==
    /\ RowsBegin /\ UNCHANGED row => RowsBegin'
    /\ IdleEmpty /\ UNCHANGED proc => IdleEmpty'
    /\ SortOnce /\ UNCHANGED <<sorter, listed>> => SortOnce'
    /\ PassOnce /\ UNCHANGED <<phase, toRescan, rescan>> => PassOnce'
BY DEF RowsBegin, IdleEmpty, SortOnce, PassOnce

\* A sort worker goes on with its message, or is through with it.
LEMMA SortOnceKept ==
    ASSUME SortOnce, UNCHANGED listed, NEW s \in Sorters, sorter[s].pc # "idle",
           \A t \in Sorters \ {s} : sorter'[t] = sorter[t],
           sorter'[s].pc = "idle" \/ sorter'[s].m = sorter[s].m
    PROVE  SortOnce'
BY DEF SortOnce

LEMMA OnceSort ==
    ASSUME TypeOK, OnceInv, NEW s \in Sorters, SortStep(s)
    PROVE  OnceInv'
<1> USE DEF OnceInv, graphVars, cacheVars, queueVars, mainVars, clerkVars
<1>1. \A x : sorter' = [sorter EXCEPT ![s] = x] =>
        sorter'[s] = x /\ \A t \in Sorters \ {s} : sorter'[t] = sorter[t]
  BY DEF TypeOK, SorterType
<1>2. IdleSorter.pc = "idle"
  BY DEF IdleSorter
<1>3. ASSUME NEW pc, sorter' = [sorter EXCEPT ![s].pc = pc]
      PROVE  /\ sorter'[s].m = sorter[s].m
             /\ \A t \in Sorters \ {s} : sorter'[t] = sorter[t]
  BY <1>3 DEF TypeOK, SorterType, Sorter
<1>4. CASE SortTake(s)
  <2>1. PICK j \in listed :
          /\ listed' = listed \ {j}
          /\ \/ UNCHANGED sorter
             \/ sorter' = [sorter EXCEPT ![s] = [pc |-> "look", m |-> j.m, cats |-> j.cats]]
    BY <1>4 DEF SortTake
  <2>2. \/ UNCHANGED sorter
        \/ sorter'[s].m = j.m /\ \A t \in Sorters \ {s} : sorter'[t] = sorter[t]
    BY <1>1, <2>1
  <2>3. SortOnce'
    BY <2>1, <2>2 DEF SortOnce
  <2> QED BY <1>4, <2>3, OnceStable DEF SortTake
<1>5. CASE SortSkip(s)
  <2>1. SortOnce'
    BY <1>3, <1>5, SortOnceKept DEF SortSkip
  <2> QED BY <1>5, <2>1, OnceStable DEF SortSkip
<1>6. CASE SortMark(s)
  <2>1. SortOnce'
    BY <1>1, <1>2, <1>6, SortOnceKept DEF SortMark
  <2>2. RowsBegin'
    <3>1. ASSUME NEW r PROVE MarkSkipExtraction(r).model # "absent" \/ MarkSkipExtraction(r) = r
      BY DEF MarkSkipExtraction, HasInvoiceExtraction, NoRow
    <3> QED BY <1>6, <3>1, RowsBeginKept, OnceStable DEF SortMark
  <2> QED BY <1>6, <2>1, <2>2, OnceStable DEF SortMark
<1>7. CASE SortTag(s)
  <2>1. PICK new :
          \/ sorter' = [sorter EXCEPT ![s] = [pc |-> "has", m |-> sorter[s].m, cats |-> new]]
          \/ sorter' = [sorter EXCEPT ![s] = IdleSorter]
    BY <1>7 DEF SortTag
  <2>2. SortOnce'
    BY <1>1, <1>2, <1>7, <2>1, SortOnceKept DEF SortTag
  <2> QED BY <1>7, <2>2, OnceStable DEF SortTag
<1>8. CASE SortTagFails(s)
  <2>1. SortOnce'
    BY <1>1, <1>2, <1>8, SortOnceKept DEF SortTagFails
  <2> QED BY <1>8, <2>1, OnceStable DEF SortTagFails
<1>9. CASE SortHas(s)
  <2>1. SortOnce'
    BY <1>1, <1>2, <1>3, <1>9, SortOnceKept DEF SortHas
  <2> QED BY <1>9, <2>1, OnceStable DEF SortHas
<1>10. CASE SortHandOff(s)
  <2>1. SortOnce'
    BY <1>1, <1>2, <1>10, SortOnceKept DEF SortHandOff
  <2>2. RowsBegin'
    <3>1. ASSUME NEW r
          PROVE  StubExtractionForRescan(r).model # "absent" \/ StubExtractionForRescan(r) = r
      BY DEF StubExtractionForRescan, HasInvoiceExtraction, NoRow
    <3> QED BY <1>10, <3>1, RowsBeginKept, OnceStable DEF SortHandOff
  <2> QED BY <1>10, <2>1, <2>2, OnceStable DEF SortHandOff
<1> QED BY <1>4, <1>5, <1>6, <1>7, <1>8, <1>9, <1>10 DEF SortStep

-----------------------------------------------------------------------------
(* What a step of an extract or fallback worker does with its extraction.   *)

\* It takes the first of a channel,
Takes(p, q) ==
    /\ proc[p].pc = "idle" /\ q # <<>>
    /\ proc'[p].pc \in {"start", "verify"}
    /\ proc'[p].m = Head(q).m

\* goes on with the one it has,
GoesOn(p) ==
    /\ proc[p].pc \notin {"idle", "recon", "block"}
    /\ proc'[p].pc \notin {"idle", "recon", "block"}
    /\ proc'[p].m = proc[p].m

\* passes it to the fallback pool,
Passes(p) ==
    /\ proc[p].pc \notin {"idle", "recon", "block"}
    /\ proc'[p] = IdleProc
    /\ \E j \in FallbackJob : j.m = proc[p].m /\ fallbackQ' = Append(fallbackQ, j)

\* or ends it, with the reconciliation still to do or not.
Ends(p) ==
    /\ proc[p].pc \notin {"idle", "recon", "block"}
    /\ \/ proc'[p] = IdleProc
       \/ proc'[p].pc = "recon" /\ proc'[p].m = proc[p].m

LEMMA ExtractMoves ==
    ASSUME TypeOK, NEW e \in Extractors, ExtractStep(e)
    PROVE  \/ Takes(e, extractQ) /\ extractQ' = Tail(extractQ) /\ UNCHANGED fallbackQ
           \/ GoesOn(e) /\ UNCHANGED <<extractQ, fallbackQ>>
           \/ Passes(e) /\ UNCHANGED extractQ
<1> USE DEF queueVars
<1>1. /\ e \in Procs /\ proc[e] \in Proc /\ proc \in [Procs -> Proc]
      /\ proc[e].pc # "idle" => proc[e].m \in Msg
      /\ proc[e].v \in VerdictsAt(proc[e].pc)
  BY DEF Procs, TypeOK, ProcType
<1>2. CASE ExtractTake(e)
  BY <1>1, <1>2 DEF ExtractTake, Holding, Takes
<1>3. ASSUME NEW pc, pc \notin {"idle", "recon", "block"}, GoTo(e, pc),
             proc[e].pc \notin {"idle", "recon", "block"}
      PROVE  GoesOn(e)
  BY <1>1, <1>3 DEF GoTo, Proc, GoesOn
<1>4. ASSUME NEW v, NEW model, GoStore(e, v, model),
             proc[e].pc \notin {"idle", "recon", "block"}
      PROVE  GoesOn(e)
  BY <1>1, <1>4 DEF GoStore, Proc, GoesOn
<1>5. ASSUME NEW v, proc' = [proc EXCEPT ![e].pc = "check", ![e].v = v],
             proc[e].pc \notin {"idle", "recon", "block"}
      PROVE  GoesOn(e)
  BY <1>1, <1>5 DEF Proc, GoesOn
<1>6. ASSUME NEW v \in Results \cup {"error", "none"}, Finish(e),
             fallbackQ' = Append(fallbackQ, FallbackJobOf(e, v)),
             proc[e].pc \notin {"idle", "recon", "block"}
      PROVE  Passes(e)
  <2>1. FallbackJobOf(e, v) \in FallbackJob /\ FallbackJobOf(e, v).m = proc[e].m
    BY <1>1, <1>6 DEF FallbackJobOf, FallbackJob, Proc
  <2>2. proc'[e] = IdleProc
    BY <1>1, <1>6 DEF Finish
  <2> QED BY <1>6, <2>1, <2>2 DEF Passes
<1>7. CASE ExtractUnreadable(e)
  BY <1>3, <1>7 DEF ExtractUnreadable
<1>8. CASE ExtractOpen(e)
  BY <1>4, <1>8 DEF ExtractOpen
<1>9. CASE ExtractText(e)
  BY <1>4, <1>9 DEF ExtractText
<1>10. CASE ExtractNoText(e)
  BY <1>3, <1>10 DEF ExtractNoText
<1>11. CASE ExtractCheck4(e)
  BY <1>3, <1>11 DEF ExtractCheck4
<1>12. CASE ExtractSend4(e)
  BY <1>3, <1>6, <1>12 DEF ExtractSend4
<1>13. CASE ExtractVision(e)
  BY <1>3, <1>4, <1>5, <1>13 DEF ExtractVision
<1>14. CASE ExtractCheck(e)
  BY <1>3, <1>4, <1>14 DEF ExtractCheck
<1>15. CASE ExtractSend(e)
  <2>1. proc[e].v \in Results \cup {"error"}
    BY <1>1, <1>15 DEF ExtractSend, VerdictsAt
  <2> QED BY <1>3, <1>4, <1>6, <1>15, <2>1 DEF ExtractSend
<1> QED BY <1>2, <1>7, <1>8, <1>9, <1>10, <1>11, <1>12, <1>13, <1>14, <1>15 DEF ExtractStep

LEMMA FallbackMoves ==
    ASSUME TypeOK, NEW f \in Fallbackers, FallbackTake(f) \/ FallbackVerify(f)
    PROVE  \/ Takes(f, fallbackQ) /\ fallbackQ' = Tail(fallbackQ)
           \/ GoesOn(f) /\ UNCHANGED fallbackQ
<1>1. f \in Procs /\ proc[f] \in Proc /\ proc \in [Procs -> Proc]
  BY DEF Procs, TypeOK, ProcType
<1>2. CASE FallbackTake(f)
  BY <1>1, <1>2 DEF FallbackTake, Holding, Takes
<1>3. CASE FallbackVerify(f)
  <2>1. ASSUME NEW v, NEW model, GoStore(f, v, model) PROVE GoesOn(f)
    BY <1>1, <1>3, <2>1 DEF FallbackVerify, GoStore, Proc, GoesOn
  <2>2. ASSUME proc' = [proc EXCEPT ![f].pc = "fail", ![f].model = "fallback"]
        PROVE  GoesOn(f)
    BY <1>1, <1>3, <2>2 DEF FallbackVerify, Proc, GoesOn
  <2> QED BY <1>3, <2>1, <2>2 DEF FallbackVerify, queueVars
<1> QED BY <1>2, <1>3

\* The statement that ends an extraction.
StoresVerdict(m) ==
    \E model \in Models \ {"stub", "skip"}, data \in Data, again \in BOOLEAN :
        WriteRow(m, StoreInvoiceExtraction(row[m], model, data, again))

LEMMA FinishMoves ==
    ASSUME TypeOK, NEW p \in Procs, FinishStep(p)
    PROVE  \/ Ends(p) /\ StoresVerdict(proc[p].m)
           \/ Ends(p) /\ WriteFails /\ UNCHANGED row
           \/ /\ proc[p].pc \in {"recon", "block"}
              /\ proc'[p] = IdleProc \/ proc'[p].pc = "block"
              /\ \/ UNCHANGED row
                 \/ WriteRow(proc[p].m, StoreReconciliation(row[proc[p].m], proc[p].v))
<1> USE DEF cacheVars
<1> DEFINE m == proc[p].m
<1>1. proc[p] \in Proc /\ proc \in [Procs -> Proc]
  BY DEF TypeOK, ProcType
<1>2. Finish(p) => proc'[p] = IdleProc
  BY <1>1 DEF Finish
<1>3. ASSUME NEW pc, GoTo(p, pc) PROVE proc'[p].pc = pc /\ proc'[p].m = m
  BY <1>1, <1>3 DEF GoTo, Proc
<1>4. /\ proc[p].model \in Models \ {"stub", "skip"}
      /\ "cooldown" \in Models \ {"stub", "skip"}
  BY <1>1 DEF Proc, Models, VerdictModels
<1>11. ASSUME NEW model \in Models \ {"stub", "skip"}, NEW data \in Data, NEW again \in BOOLEAN,
              WriteRow(m, StoreInvoiceExtraction(row[m], model, data, again))
       PROVE  StoresVerdict(m)
  <2> HIDE DEF m
  <2> QED BY <1>11 DEF StoresVerdict
<1>12. "none" \in Data
  BY DEF Data
<1>5. CASE StoreResult(p)
  <2>1. Ends(p)
    BY <1>2, <1>3, <1>5 DEF StoreResult, Ends
  <2>2. (~cleanMatch(proc[p].v)) \in BOOLEAN
    BY DEF cleanMatch
  <2>3. WriteRow(m, StoreInvoiceExtraction(row[m], proc[p].model, proc[p].v,
                                           ~cleanMatch(proc[p].v)))
    BY <1>5 DEF StoreResult
  <2>4. proc[p].v \in Data
    BY <1>5, WorkerAssumption DEF StoreResult, TypeOK, ProcType, VerdictsAt, Data
  <2>5. StoresVerdict(m)
    BY <1>4, <1>11, <2>2, <2>3, <2>4
  <2> QED BY <2>1, <2>5
<1>6. CASE StoreRecon(p)
  BY <1>2, <1>3, <1>6 DEF StoreRecon
<1>7. CASE AutoBlock(p)
  BY <1>2, <1>7 DEF AutoBlock
<1>8. CASE StoreError(p)
  <2>1. Ends(p)
    BY <1>2, <1>8 DEF StoreError, Ends
  <2>2. WriteRow(m, StoreInvoiceExtraction(row[m], proc[p].model, "none", TRUE))
    BY <1>8 DEF StoreError
  <2> QED BY <1>4, <1>12, <1>11, <2>1, <2>2
<1>9. CASE StoreCooldownSkip(p)
  <2>1. Ends(p)
    BY <1>2, <1>9 DEF StoreCooldownSkip, Ends
  <2>2. WriteRow(m, StoreInvoiceExtraction(row[m], "cooldown", "none", FALSE))
    BY <1>9 DEF StoreCooldownSkip
  <2> QED BY <1>4, <1>12, <1>11, <2>1, <2>2
<1>10. CASE StoreFails(p)
  BY <1>2, <1>10 DEF StoreFails, Ends
<1> QED BY <1>5, <1>6, <1>7, <1>8, <1>9, <1>10 DEF FinishStep

\* A worker that takes a step holds a message, or none and is idle.
LEMMA IdleEmptyKept ==
    ASSUME IdleEmpty, NEW p \in Procs, \A q \in Procs \ {p} : proc'[q] = proc[q],
           proc'[p] = IdleProc \/ proc'[p].pc # "idle"
    PROVE  IdleEmpty'
BY DEF IdleEmpty, IdleProc

LEMMA OncePools ==
    ASSUME TypeOK, OnceInv,
           \/ \E e \in Extractors : ExtractStep(e)
           \/ \E f \in Fallbackers : FallbackTake(f) \/ FallbackVerify(f)
           \/ \E p \in Procs : FinishStep(p)
    PROVE  OnceInv'
<1> USE DEF OnceInv
<1>1. ASSUME NEW e \in Extractors, ExtractStep(e) PROVE OnceInv'
  <2>1. IdleEmpty'
    BY <1>1, ExtractMoves, ExtractFrame, IdleEmptyKept DEF Takes, GoesOn, Passes, Procs
  <2> QED BY <1>1, <2>1, ExtractFrame, OnceStable
<1>2. ASSUME NEW f \in Fallbackers, FallbackTake(f) \/ FallbackVerify(f) PROVE OnceInv'
  <2>1. IdleEmpty'
    BY <1>2, FallbackMoves, FallbackFrame, IdleEmptyKept DEF Takes, GoesOn, Procs
  <2> QED BY <1>2, <2>1, FallbackFrame, OnceStable
<1>3. ASSUME NEW p \in Procs, FinishStep(p) PROVE OnceInv'
  <2>1. IdleEmpty'
    BY <1>3, FinishMoves, FinishFrame, IdleEmptyKept DEF Ends
  <2>2. RowsBegin'
    <3>1. ASSUME StoresVerdict(proc[p].m) PROVE RowsBegin'
      <4>1. PICK model \in Models \ {"stub", "skip"}, data \in Data, again \in BOOLEAN :
              WriteRow(proc[p].m, StoreInvoiceExtraction(row[proc[p].m], model, data, again))
        BY <3>1 DEF StoresVerdict
      <4>2. \A r : StoreInvoiceExtraction(r, model, data, again).model # "absent"
        BY DEF StoreInvoiceExtraction, Models, VerdictModels
      <4> QED BY <4>1, <4>2, RowsBeginKept
    <3>2. ASSUME NEW v, NEW m \in Msg, WriteRow(m, StoreReconciliation(row[m], v))
          PROVE  RowsBegin'
      <4>1. ASSUME NEW r \in Row
            PROVE  StoreReconciliation(r, v).model # "absent" \/ StoreReconciliation(r, v) = r
        BY DEF StoreReconciliation, HasInvoiceExtraction, Row
      <4>2. row[m] \in Row
        BY DEF TypeOK, CacheType
      <4> QED BY <3>2, <4>1, <4>2, RowsBeginKept
    <3>3. proc[p].m \in Msg
      BY <1>3, FinishFrame DEF TypeOK, ProcType
    <3> QED BY <1>3, <3>1, <3>2, <3>3, FinishMoves, OnceStable
  <2> QED BY <1>3, <2>1, <2>2, FinishFrame, OnceStable
<1> QED BY <1>1, <1>2, <1>3

LEMMA OnceMain ==
    ASSUME TypeOK, ShutdownInv, OnceInv, MainStep
    PROVE  OnceInv'
<1> USE DEF OnceInv, graphVars, cacheVars, queueVars, clerkVars
<1>1. UNCHANGED <<proc, sorter>>
  BY DEF MainStep, Boot, ListInbox, ListFails, StartRescan, RescanRead, RescanExhaust,
         RescanFetch, RescanSend, EndRescan, LoopCheck, CloseExtract, CloseFallback, Exit
<1>2. IdleEmpty'
  BY <1>1, OnceStable
<1>3. RowsBegin'
  <2>1. CASE UNCHANGED row
    BY <2>1, OnceStable
  <2>2. CASE Boot
    <3>1. SweepOrphanedRescans(NoRow) = NoRow
      <4>1. (NoRow.rescan /\ NoRow.attempts < MaxAttempts) = FALSE
        BY DEF NoRow
      <4>2. SweepOrphanedRescans(NoRow) = [NoRow EXCEPT !.rescan = FALSE]
        BY <4>1 DEF SweepOrphanedRescans
      <4> QED BY <4>2 DEF NoRow
    <3>2. ASSUME NEW r \in Row PROVE SweepOrphanedRescans(r).model = r.model
      BY DEF SweepOrphanedRescans, Row
    <3> QED BY <2>1, <2>2, <3>1, <3>2 DEF Boot, RowsBegin, TypeOK, CacheType
  <2>3. CASE RescanExhaust
    <3>1. rescan.m \in Msg /\ row[rescan.m] \in Row
      BY <2>3 DEF RescanExhaust, TypeOK, MainType, CacheType
    <3>2. ASSUME NEW r \in Row, r.model = "absent" => r = NoRow
          PROVE  MarkRescanExhausted(r).model # "absent" \/ MarkRescanExhausted(r) = r
      BY <3>2 DEF MarkRescanExhausted, Row, NoRow
    <3> QED BY <2>1, <2>3, <3>1, <3>2, RowsBeginKept DEF RescanExhaust, RowsBegin
  <2> QED BY <2>1, <2>2, <2>3
          DEF MainStep, ListInbox, ListFails, StartRescan, RescanRead, RescanFetch,
              RescanSend, EndRescan, LoopCheck, CloseExtract, CloseFallback, Exit
<1>4. SortOnce'
  <2>1. CASE UNCHANGED listed
    BY <1>1, <2>1, OnceStable
  <2>2. CASE ListInbox
    <3>1. \A s \in Sorters : sorter[s].pc = "idle"
      BY <2>2 DEF ListInbox, ShutdownInv
    <3>2. \A j, k \in listed' : j.m = k.m => j = k
      BY <2>2 DEF ListInbox
    <3> QED BY <1>1, <3>1, <3>2 DEF SortOnce
  <2> QED BY <2>1, <2>2
          DEF MainStep, Boot, ListFails, StartRescan, RescanRead, RescanExhaust,
              RescanFetch, RescanSend, EndRescan, LoopCheck, CloseExtract, CloseFallback, Exit
<1>5. PassOnce'
  <2> USE DEF PassOnce
  <2>1. rescan.pc # "next" => phase = "rescan"
    BY DEF ShutdownInv
  <2>2. NoRescan.pc = "next"
    BY DEF NoRescan
  <2>3. CASE StartRescan \/ RescanExhaust \/ RescanSend \/ EndRescan
    BY <2>1, <2>2, <2>3 DEF StartRescan, RescanExhaust, RescanSend, EndRescan
  <2>4. CASE RescanRead
    <3>1. PICK m \in toRescan :
            /\ toRescan' = toRescan \ {m}
            /\ \/ UNCHANGED rescan
               \/ \E x : rescan' = [pc |-> "act", m |-> m, cats |-> {}, tier |-> x]
      BY <2>4 DEF RescanRead
    <3>2. UNCHANGED rescan \/ rescan'.m = m
      BY <3>1
    <3> QED BY <2>4, <3>1, <3>2 DEF RescanRead
  <2>5. CASE RescanFetch
    <3>1. rescan' = NoRescan \/ rescan'.m = rescan.m
      BY <2>5 DEF RescanFetch, TypeOK, MainType, Rescan
    <3> QED BY <2>1, <2>2, <2>5, <3>1 DEF RescanFetch
  <2>6. CASE UNCHANGED <<toRescan, rescan>> /\ phase # "rescan"
    BY <2>6
  <2> QED BY <2>3, <2>4, <2>5, <2>6 DEF MainStep, Boot, ListInbox, ListFails, LoopCheck,
             CloseExtract, CloseFallback, Exit
<1> QED BY <1>2, <1>3, <1>4, <1>5

LEMMA OnceStep ==
    TypeOK /\ ShutdownInv /\ OnceInv /\ [Next]_vars => OnceInv'
<1> SUFFICES ASSUME TypeOK, ShutdownInv, OnceInv, [Next]_vars PROVE OnceInv'
  OBVIOUS
<1>1. CASE Crash
  <2>1. /\ UNCHANGED row /\ listed' = {} /\ toRescan' = {} /\ rescan'.pc = "next"
        /\ \A s \in Sorters : sorter'[s].pc = "idle"
        /\ \A p \in Procs : proc'[p].m = NoMsg
    BY <1>1 DEF Crash, cacheVars, IdleSorter, IdleProc, NoRescan
  <2> QED BY <2>1 DEF OnceInv, RowsBegin, IdleEmpty, SortOnce, PassOnce
<1>2. CASE WorldStep \/ Done \/ UNCHANGED vars
  <2>1. UNCHANGED <<row, proc, sorter, mainVars>>
    BY <1>2 DEF WorldStep, Deliver, Leave, SyncMessage, CooldownExpires, ClerkRead,
                ClerkWrite, Done, vars, cacheVars
  <2> QED BY <2>1, OnceStable DEF OnceInv, mainVars
<1> QED BY <1>1, <1>2, OnceSort, OncePools, OnceMain DEF Next

-----------------------------------------------------------------------------
(* New mail: what the sort pool examines has no extraction anywhere.         *)

\* An extraction of the message is in a channel or with a worker of the pools.
Pending(m) ==
    \/ Buffered(extractQ, m)
    \/ Buffered(fallbackQ, m)
    \/ \E p \in Procs : proc[p].pc # "idle" /\ proc[p].m = m

\* The message is listed as new, or with a sort worker.
InSort(m) ==
    \/ \E j \in listed : j.m = m /\ ~hasStatus(j.cats)
    \/ \E s \in Sorters : sorter[s].pc # "idle" /\ sorter[s].m = m

FreshInv ==
    /\ \A m \in Msg : InSort(m) => ~Pending(m) /\ ~Extracted(m)
    /\ \A s \in Sorters : sorter[s].pc = "look" => ~hasStatus(sorter[s].cats)

\* A row that was skipped has no extraction under way, and none can begin: it
\* names no PO, is not flagged, and no sort worker hands its message over.
SkipInv ==
    \A m \in Msg : row[m].model = "skip" =>
        /\ ~Pending(m)
        /\ ~row[m].po /\ ~row[m].rescan
        /\ \A s \in Sorters : sorter[s].pc = "handoff" => sorter[s].m # m

LEMMA FreshInit == Init => FreshInv /\ SkipInv
BY DEF Init, FreshInv, SkipInv, InSort, NoRow, IdleSorter

\* What the pools do is done for a job that is already there.
LEMMA PoolsOwnJobs ==
    ASSUME TypeOK,
           \/ \E e \in Extractors : ExtractStep(e)
           \/ \E f \in Fallbackers : FallbackTake(f) \/ FallbackVerify(f)
           \/ \E p \in Procs : FinishStep(p)
    PROVE  /\ \A m : Pending(m)' => Pending(m)
           /\ \A m \in Msg : ~Pending(m) => row'[m] = row[m]
           /\ \A m \in Msg : row'[m].model = "skip" => row[m].model = "skip"
           /\ UNCHANGED <<sorter, listed, phase, rescan, clerk, where>>
<1>1. extractQ \in Seq(ExtractJob) /\ fallbackQ \in Seq(FallbackJob)
  BY DEF TypeOK, ChannelType
<1>2. ASSUME NEW q, NEW m, UNCHANGED q PROVE Buffered(q, m)' <=> Buffered(q, m)
  BY <1>2 DEF Buffered, JobsIn
<1>3. ASSUME NEW e \in Extractors, ExtractStep(e), NEW m, Pending(m)' PROVE Pending(m)
  <2>1. e \in Procs
    BY DEF Procs
  <2>2. CASE Takes(e, extractQ) /\ extractQ' = Tail(extractQ) /\ UNCHANGED fallbackQ
    <3>1. Buffered(extractQ', m) => Buffered(extractQ, m)
      BY <1>1, <2>2, JobsAfter DEF Takes, Buffered
    <3>2. Buffered(extractQ, proc'[e].m)
      BY <1>1, <2>2, JobsAfter DEF Takes, Buffered
    <3> QED BY <1>3, <2>1, <2>2, <3>1, <3>2, ExtractFrame DEF Pending, Buffered
  <2>3. CASE GoesOn(e) /\ UNCHANGED <<extractQ, fallbackQ>>
    <3>1. UNCHANGED <<Buffered(extractQ, m), Buffered(fallbackQ, m)>>
      BY <2>3 DEF Buffered, JobsIn
    <3> QED BY <1>3, <2>1, <2>3, <3>1, ExtractFrame DEF Pending, GoesOn
  <2>4. CASE Passes(e) /\ UNCHANGED extractQ
    <3>1. proc[e].pc # "idle" /\ proc'[e].pc = "idle"
      BY <2>4 DEF Passes, IdleProc
    <3>2. Buffered(fallbackQ, m)' => Buffered(fallbackQ, m) \/ m = proc[e].m
      BY <1>1, <2>4, JobsAfter DEF Passes, Buffered
    <3>3. UNCHANGED Buffered(extractQ, m)
      BY <2>4 DEF Buffered, JobsIn
    <3> QED BY <1>3, <2>1, <3>1, <3>2, <3>3, ExtractFrame DEF Pending
  <2> QED BY <1>3, <2>2, <2>3, <2>4, ExtractMoves
<1>4. ASSUME NEW f \in Fallbackers, FallbackTake(f) \/ FallbackVerify(f), NEW m, Pending(m)'
      PROVE  Pending(m)
  <2>1. f \in Procs
    BY DEF Procs
  <2>2. UNCHANGED Buffered(extractQ, m)
    BY <1>4, FallbackFrame DEF Buffered, JobsIn
  <2>3. CASE Takes(f, fallbackQ) /\ fallbackQ' = Tail(fallbackQ)
    <3>1. Buffered(fallbackQ', m) => Buffered(fallbackQ, m)
      BY <1>1, <2>3, JobsAfter DEF Takes, Buffered
    <3>2. Buffered(fallbackQ, proc'[f].m)
      BY <1>1, <2>3, JobsAfter DEF Takes, Buffered
    <3> QED BY <1>4, <2>1, <2>2, <2>3, <3>1, <3>2, FallbackFrame DEF Pending, Buffered
  <2>4. CASE GoesOn(f) /\ UNCHANGED fallbackQ
    <3>1. UNCHANGED Buffered(fallbackQ, m)
      BY <2>4 DEF Buffered, JobsIn
    <3> QED BY <1>4, <2>1, <2>2, <2>4, <3>1, FallbackFrame DEF Pending, GoesOn
  <2> QED BY <1>4, <2>3, <2>4, FallbackMoves
<1>5. ASSUME NEW p \in Procs, FinishStep(p)
      PROVE  /\ \A m : Pending(m)' => Pending(m)
             /\ \A m \in Msg : ~Pending(m) => row'[m] = row[m]
  <2>1. proc[p].pc # "idle" /\ \A q \in Procs \ {p} : proc'[q] = proc[q]
    BY <1>5, FinishFrame
  <2>2. /\ proc'[p].pc = "idle" \/ proc'[p].m = proc[p].m
        /\ \A m \in Msg \ {proc[p].m} : row'[m] = row[m]
    <3>1. \A new : WriteRow(proc[p].m, new) =>
            \A m \in Msg \ {proc[p].m} : row'[m] = row[m]
      BY DEF WriteRow, TypeOK, CacheType
    <3>2. proc'[p].pc = "idle" \/ proc'[p].m = proc[p].m
      BY <1>5, ProcMoves DEF FinishStep, StoreResult, StoreRecon, AutoBlock, StoreError,
                             StoreCooldownSkip, StoreFails
    <3> QED BY <1>5, <3>1, <3>2 DEF FinishStep, StoreResult, StoreRecon, AutoBlock,
               StoreError, StoreCooldownSkip, StoreFails, cacheVars
  <2>3. ASSUME NEW m, Pending(m)' PROVE Pending(m)
    <3>1. UNCHANGED <<Buffered(extractQ, m), Buffered(fallbackQ, m)>>
      BY <1>5, FinishFrame DEF Buffered, JobsIn
    <3> QED BY <2>1, <2>2, <2>3, <3>1 DEF Pending
  <2> QED BY <2>1, <2>2, <2>3 DEF Pending
<1>8. ASSUME NEW p \in Procs, FinishStep(p), NEW m \in Msg, row'[m].model = "skip"
      PROVE  row[m].model = "skip"
  <2>1. ASSUME NEW new, WriteRow(proc[p].m, new), new.model # "skip" PROVE row[m].model = "skip"
    BY <1>8, <2>1 DEF WriteRow, TypeOK, CacheType
  <2>2. CASE StoresVerdict(proc[p].m)
    BY <2>1, <2>2 DEF StoresVerdict, StoreInvoiceExtraction
  <2>3. CASE WriteRow(proc[p].m, StoreReconciliation(row[proc[p].m], proc[p].v))
    <3>1. row[m] \in Row /\ proc[p].m \in Msg
      BY <1>8, FinishFrame DEF TypeOK, CacheType, ProcType
    <3>2. row'[m] = row[m] \/ row'[m] = StoreReconciliation(row[m], proc[p].v)
      BY <2>3, <3>1 DEF WriteRow, TypeOK, CacheType
    <3>3. StoreReconciliation(row[m], proc[p].v).model = row[m].model
      BY <3>1 DEF StoreReconciliation, Row
    <3> QED BY <1>8, <3>2, <3>3
  <2> QED BY <1>8, <2>2, <2>3, FinishMoves
<1>6. \A e \in Extractors : ExtractStep(e) => UNCHANGED row
  BY ExtractFrame
<1>7. \A f \in Fallbackers : FallbackTake(f) \/ FallbackVerify(f) => UNCHANGED row
  BY FallbackFrame
<1> QED BY <1>3, <1>4, <1>5, <1>6, <1>7, <1>8, ExtractFrame, FallbackFrame, FinishFrame

\* A step that takes up no message, adds no job and extracts nothing.
LEMMA FreshStable ==
    ASSUME FreshInv, UNCHANGED <<sorter, listed>>,
           \A m \in Msg : Pending(m)' => Pending(m),
           \A m \in Msg : InSort(m) /\ Extracted(m)' => Extracted(m)
    PROVE  FreshInv'
<1>1. \A m \in Msg : InSort(m)' => InSort(m)
  BY DEF InSort
<1> QED BY <1>1 DEF FreshInv

LEMMA SkipStable ==
    ASSUME SkipInv, UNCHANGED sorter, \A m \in Msg : Pending(m)' => Pending(m),
           \A m \in Msg : row'[m].model = "skip" =>
               row[m].model = "skip" /\ row'[m].po = row[m].po /\ row'[m].rescan = row[m].rescan
    PROVE  SkipInv'
BY DEF SkipInv

\* Channels and pools as they were: so are the jobs.
LEMMA PendingStable ==
    ASSUME UNCHANGED <<extractQ, fallbackQ, proc>>
    PROVE  \A m : Pending(m)' <=> Pending(m)
BY DEF Pending, Buffered, JobsIn

\* A sort worker is with its message or through with it, and the message stays
\* free of jobs until the hand-off.
LEMMA FreshSort ==
    ASSUME TypeOK, OnceInv, FreshInv, NEW s \in Sorters, SortStep(s)
    PROVE  FreshInv'
<1> USE DEF graphVars, cacheVars, queueVars, mainVars, clerkVars
<1> SUFFICES ASSUME NEW m, m = sorter[s].m PROVE FreshInv'
  OBVIOUS
<1>1. sorter[s].pc # "idle" => m \in Msg
  BY DEF TypeOK, SorterType
<1>2. \A x : sorter' = [sorter EXCEPT ![s] = x] =>
        sorter'[s] = x /\ \A t \in Sorters \ {s} : sorter'[t] = sorter[t]
  BY DEF TypeOK, SorterType
<1>3. ASSUME NEW pc, sorter' = [sorter EXCEPT ![s].pc = pc]
      PROVE  /\ sorter'[s].m = m /\ sorter'[s].pc = pc
             /\ \A t \in Sorters \ {s} : sorter'[t] = sorter[t]
  BY <1>3 DEF TypeOK, SorterType, Sorter
<1>4. CASE SortTake(s)
  <2>1. PICK j \in listed :
          /\ listed' = listed \ {j}
          /\ \/ UNCHANGED sorter
             \/ /\ ~hasStatus(j.cats)
                /\ sorter' = [sorter EXCEPT ![s] = [pc |-> "look", m |-> j.m, cats |-> j.cats]]
    BY <1>4 DEF SortTake
  <2>2. \/ UNCHANGED sorter
        \/ /\ ~hasStatus(j.cats)
           /\ sorter'[s].m = j.m /\ sorter'[s].pc = "look" /\ sorter'[s].cats = j.cats
           /\ \A t \in Sorters \ {s} : sorter'[t] = sorter[t]
    BY <1>2, <2>1
  <2>3. \A x \in Msg : InSort(x)' => InSort(x)
    BY <2>1, <2>2 DEF InSort
  <2>4. \A x : (Pending(x)' <=> Pending(x)) /\ (Extracted(x)' <=> Extracted(x))
    BY <1>4, PendingStable DEF SortTake, Extracted
  <2>5. \A t \in Sorters : sorter'[t].pc = "look" => ~hasStatus(sorter'[t].cats)
    BY <2>2 DEF FreshInv
  <2> QED BY <2>3, <2>4, <2>5 DEF FreshInv
<1>5. ASSUME UNCHANGED <<listed, extractQ, fallbackQ, proc>>,
             \A x \in Msg : x # m => Extracted(x)' = Extracted(x),
             \A t \in Sorters \ {s} : sorter'[t] = sorter[t],
             sorter[s].pc # "idle",
             \/ sorter'[s].pc = "idle"
             \/ /\ sorter'[s].pc # "look" /\ sorter'[s].m = m
                /\ Extracted(m)' = Extracted(m)
      PROVE  FreshInv'
  <2>1. \A x \in Msg : InSort(x)' => InSort(x)
    BY <1>5 DEF InSort
  <2>2. sorter'[s].pc = "idle" => ~InSort(m)'
    BY <1>5 DEF InSort, OnceInv, SortOnce
  <2>3. \A x : Pending(x)' <=> Pending(x)
    BY <1>5, PendingStable
  <2>4. ASSUME NEW x \in Msg, InSort(x)' PROVE ~Extracted(x)'
    BY <1>5, <2>1, <2>2, <2>4 DEF FreshInv
  <2>5. \A t \in Sorters : sorter'[t].pc = "look" => ~hasStatus(sorter'[t].cats)
    BY <1>5 DEF FreshInv
  <2> QED BY <2>1, <2>3, <2>4, <2>5 DEF FreshInv
<1>6. UNCHANGED row => \A x : Extracted(x)' = Extracted(x)
  BY DEF Extracted
<1>7. IdleSorter.pc = "idle"
  BY DEF IdleSorter
<1>8. \A new : WriteRow(m, new) => \A x \in Msg : x # m => Extracted(x)' = Extracted(x)
  BY DEF WriteRow, TypeOK, CacheType, Extracted
<1>9. CASE SortSkip(s)
  BY <1>3, <1>5, <1>6, <1>9 DEF SortSkip
<1>10. CASE SortMark(s)
  BY <1>2, <1>5, <1>6, <1>7, <1>8, <1>10 DEF SortMark
<1>11. CASE SortTag(s)
  <2>1. PICK new :
          \/ sorter' = [sorter EXCEPT ![s] = [pc |-> "has", m |-> m, cats |-> new]]
          \/ sorter' = [sorter EXCEPT ![s] = IdleSorter]
    BY <1>11 DEF SortTag
  <2>2. /\ \A t \in Sorters \ {s} : sorter'[t] = sorter[t]
        /\ sorter'[s].pc = "idle" \/ (sorter'[s].pc = "has" /\ sorter'[s].m = m)
    BY <1>2, <1>7, <2>1
  <2>3. UNCHANGED <<listed, extractQ, fallbackQ, proc, row>> /\ sorter[s].pc = "look"
    BY <1>11 DEF SortTag
  <2> QED BY <1>5, <1>6, <2>2, <2>3
<1>12. CASE SortTagFails(s)
  BY <1>2, <1>5, <1>6, <1>7, <1>12 DEF SortTagFails
<1>13. CASE SortHas(s)
  BY <1>2, <1>3, <1>5, <1>6, <1>7, <1>13 DEF SortHas
<1>14. CASE SortHandOff(s)
  <2> DEFINE j == [m |-> m, cats |-> sorter[s].cats, minTier |-> 0]
  <2>1. /\ sorter'[s].pc = "idle" /\ \A t \in Sorters \ {s} : sorter'[t] = sorter[t]
        /\ UNCHANGED <<listed, fallbackQ, proc>>
        /\ UNCHANGED row \/ \E new : WriteRow(m, new)
        /\ UNCHANGED extractQ \/ extractQ' = Append(extractQ, j)
        /\ sorter[s].pc # "idle"
    BY <1>2, <1>7, <1>14 DEF SortHandOff
  <2>2. j \in ExtractJob /\ extractQ \in Seq(ExtractJob)
    BY <1>1, <2>1
    DEF ExtractJob, topExtractionTier, TypeOK, SorterType, Sorter, ChannelType
  <2>3. \A x : Buffered(extractQ, x)' => Buffered(extractQ, x) \/ x = m
    <3>1. CASE UNCHANGED extractQ
      BY <3>1 DEF Buffered, JobsIn
    <3>2. CASE extractQ' = Append(extractQ, j)
      BY <2>2, <3>2, JobsAfter DEF Buffered
    <3> QED BY <2>1, <3>1, <3>2
  <2>4. \A x : UNCHANGED Buffered(fallbackQ, x)
    BY <2>1 DEF Buffered, JobsIn
  <2>5. \A x : Pending(x)' => Pending(x) \/ x = m
    BY <2>1, <2>3, <2>4 DEF Pending
  <2>6. \A x \in Msg : InSort(x)' => InSort(x) /\ x # m
    BY <2>1 DEF InSort, OnceInv, SortOnce
  <2>7. \A x \in Msg : x # m => Extracted(x)' = Extracted(x)
    BY <1>6, <1>8, <2>1
  <2>8. \A t \in Sorters : sorter'[t].pc = "look" => ~hasStatus(sorter'[t].cats)
    BY <2>1 DEF FreshInv
  <2> QED BY <2>5, <2>6, <2>7, <2>8 DEF FreshInv
<1> QED BY <1>4, <1>9, <1>10, <1>11, <1>12, <1>13, <1>14 DEF SortStep

\* What the pass loop does to the jobs and the rows: it adds a job only for the
\* id it rescans, and changes the model of no row.
LEMMA MainOwns ==
    ASSUME TypeOK, MainStep
    PROVE  /\ UNCHANGED <<cats, where, sorter, clerk>>
           /\ \A m : Pending(m)' => Pending(m) \/ (rescan.pc = "send" /\ m = rescan.m)
           /\ \A m \in Msg : row'[m].model = row[m].model
           /\ \A m \in Msg : row'[m].po = row[m].po /\ row'[m].data = row[m].data
           /\ \A m \in Msg : row'[m].rescan => row[m].rescan
<1> USE DEF graphVars, cacheVars, queueVars, mainVars, clerkVars
<1>1. UNCHANGED <<cats, where, sorter, clerk, fallbackQ, proc>>
  BY DEF MainStep, Boot, ListInbox, ListFails, StartRescan, RescanRead, RescanExhaust,
         RescanFetch, RescanSend, EndRescan, LoopCheck, CloseExtract, CloseFallback, Exit
<1>2. \A m \in Msg : row[m] \in Row
  BY DEF TypeOK, CacheType
<1>3. ASSUME NEW m, Pending(m)'
      PROVE  Pending(m) \/ (rescan.pc = "send" /\ m = rescan.m)
  <2>1. CASE RescanSend
    <3> DEFINE j == [m |-> rescan.m, cats |-> rescan.cats, minTier |-> rescan.tier]
    <3>1. j \in ExtractJob /\ extractQ \in Seq(ExtractJob)
      BY <2>1
      DEF RescanSend, ExtractJob, Rescan, topExtractionTier, TypeOK, MainType, ChannelType
    <3>2. UNCHANGED extractQ \/ extractQ' = Append(extractQ, j)
      BY <2>1 DEF RescanSend
    <3>3. Buffered(extractQ, m)' => Buffered(extractQ, m) \/ m = rescan.m
      <4>1. CASE UNCHANGED extractQ
        BY <4>1 DEF Buffered, JobsIn
      <4>2. CASE extractQ' = Append(extractQ, j)
        BY <3>1, <4>2, JobsAfter DEF Buffered
      <4> QED BY <3>2, <4>1, <4>2
    <3>4. UNCHANGED Buffered(fallbackQ, m)
      BY <1>1 DEF Buffered, JobsIn
    <3> QED BY <1>1, <1>3, <2>1, <3>3, <3>4 DEF Pending, RescanSend
  <2>2. CASE UNCHANGED extractQ
    BY <1>1, <1>3, <2>2, PendingStable
  <2> QED BY <2>1, <2>2
          DEF MainStep, Boot, ListInbox, ListFails, StartRescan, RescanRead, RescanExhaust,
              RescanFetch, EndRescan, LoopCheck, CloseExtract, CloseFallback, Exit
<1>4. ASSUME NEW m \in Msg
      PROVE  /\ row'[m].model = row[m].model /\ row'[m].po = row[m].po
             /\ row'[m].data = row[m].data
             /\ row'[m].rescan => row[m].rescan
  <2>1. CASE UNCHANGED row
    BY <2>1
  <2>2. CASE Boot
    BY <1>2, <2>1, <2>2 DEF Boot, SweepOrphanedRescans, Row
  <2>3. CASE RescanExhaust
    <3>1. \A r \in Row : /\ MarkRescanExhausted(r).model = r.model
                         /\ MarkRescanExhausted(r).po = r.po
                         /\ MarkRescanExhausted(r).data = r.data
                         /\ ~MarkRescanExhausted(r).rescan
      BY DEF MarkRescanExhausted, Row
    <3>2. UNCHANGED row \/ WriteRow(rescan.m, MarkRescanExhausted(row[rescan.m]))
      BY <2>3 DEF RescanExhaust
    <3>3. row' = row \/ row'[m] = row[m] \/ row'[m] = MarkRescanExhausted(row[m])
      BY <3>2 DEF WriteRow, TypeOK, CacheType
    <3> QED BY <1>2, <3>1, <3>3
  <2> QED BY <2>1, <2>2, <2>3
          DEF MainStep, ListInbox, ListFails, StartRescan, RescanRead, RescanFetch,
              RescanSend, EndRescan, LoopCheck, CloseExtract, CloseFallback, Exit
<1> QED BY <1>1, <1>3, <1>4

LEMMA FreshMain ==
    ASSUME TypeOK, ShutdownInv, StatusInv, FreshInv, MainStep
    PROVE  FreshInv'
<1>1. CASE ListInbox
  <2>1. /\ UNCHANGED <<cats, sorter, row, extractQ, fallbackQ, proc>>
        /\ \A j \in listed' : j.cats = cats[j.m]
        /\ \A s \in Sorters : sorter[s].pc = "idle"
    BY <1>1 DEF ListInbox, ShutdownInv, graphVars, cacheVars, queueVars
  <2>2. \A m \in Msg : InSort(m)' => ~hasStatus(cats[m])
    BY <2>1 DEF InSort
  <2>3. ASSUME NEW m \in Msg, Pending(m) PROVE hasStatus(cats[m])
    BY <2>3 DEF Pending, StatusInv, QueueStatus, ProcStatus, Buffered
  <2>4. \A m \in Msg : Extracted(m)' => hasStatus(cats[m])
    BY <2>1 DEF Extracted, StatusInv, RowStatus
  <2>5. \A m : Pending(m)' <=> Pending(m)
    BY <2>1, PendingStable
  <2> QED BY <2>1, <2>2, <2>3, <2>4, <2>5 DEF FreshInv
<1>2. CASE StartRescan
  <2>1. UNCHANGED <<sorter, listed, row, extractQ, fallbackQ, proc>>
    BY <1>2 DEF StartRescan, cacheVars, queueVars
  <2> QED BY <2>1, PendingStable, FreshStable DEF Extracted
<1>3. CASE UNCHANGED listed
  <2>1. ASSUME NEW m \in Msg, InSort(m), rescan.pc = "send" PROVE m # rescan.m
    <3>1. Extracted(rescan.m)
      BY <2>1 DEF StatusInv, RescanStatus
    <3> QED BY <2>1, <3>1 DEF FreshInv
  <2>2. \A m \in Msg : InSort(m)' => InSort(m)
    BY <1>3, MainOwns DEF InSort
  <2>3. \A m \in Msg : Extracted(m)' <=> Extracted(m)
    <3>1. \A m \in Msg : row'[m].model = row[m].model
      BY MainOwns
    <3> QED BY <3>1 DEF Extracted
  <2> QED BY <2>1, <2>2, <2>3, MainOwns DEF FreshInv
<1> QED BY <1>1, <1>2, <1>3
        DEF MainStep, Boot, ListFails, RescanRead, RescanExhaust, RescanFetch, RescanSend,
            EndRescan, LoopCheck, CloseExtract, CloseFallback, Exit, mainVars

\* What is left of a step of dispatch-web, of the world or of a crash.
LEMMA RestOwns ==
    ASSUME TypeOK, Crash \/ WorldStep \/ Done \/ UNCHANGED vars
    PROVE  /\ UNCHANGED row
           /\ \A m : Pending(m)' => Pending(m)
           /\ \/ UNCHANGED <<sorter, listed>>
              \/ listed' = {} /\ \A s \in Sorters : sorter'[s] = IdleSorter
<1>1. CASE Crash
  <2>1. /\ UNCHANGED row /\ listed' = {} /\ \A s \in Sorters : sorter'[s] = IdleSorter
        /\ extractQ' = <<>> /\ fallbackQ' = <<>> /\ \A p \in Procs : proc'[p] = IdleProc
    BY <1>1 DEF Crash, cacheVars
  <2> QED BY <2>1 DEF Pending, Buffered, JobsIn, IdleProc
<1>2. CASE WorldStep \/ Done \/ UNCHANGED vars
  <2>1. UNCHANGED <<row, proc, sorter, listed, extractQ, fallbackQ>>
    BY <1>2 DEF WorldStep, Deliver, Leave, SyncMessage, CooldownExpires, ClerkRead,
                ClerkWrite, Done, vars, cacheVars, queueVars, mainVars
  <2> QED BY <2>1, PendingStable
<1> QED BY <1>1, <1>2

LEMMA FreshStep ==
    TypeOK /\ ShutdownInv /\ StatusInv /\ OnceInv /\ FreshInv /\ [Next]_vars => FreshInv'
<1> SUFFICES ASSUME TypeOK, ShutdownInv, StatusInv, OnceInv, FreshInv, [Next]_vars
             PROVE  FreshInv'
  OBVIOUS
<1>1. CASE \/ \E e \in Extractors : ExtractStep(e)
           \/ \E f \in Fallbackers : FallbackTake(f) \/ FallbackVerify(f)
           \/ \E p \in Procs : FinishStep(p)
  <2>1. \A m \in Msg : InSort(m) /\ Extracted(m)' => Extracted(m)
    BY <1>1, PoolsOwnJobs DEF FreshInv, Extracted
  <2> QED BY <1>1, <2>1, PoolsOwnJobs, FreshStable
<1>2. CASE Crash \/ WorldStep \/ Done \/ UNCHANGED vars
  <2>1. \A m \in Msg : InSort(m)' => InSort(m)
    BY <1>2, RestOwns DEF InSort, IdleSorter
  <2>2. \A s \in Sorters : sorter'[s].pc = "look" => ~hasStatus(sorter'[s].cats)
    BY <1>2, RestOwns DEF FreshInv, IdleSorter
  <2>3. \A m : Extracted(m)' <=> Extracted(m)
    BY <1>2, RestOwns DEF Extracted
  <2> QED BY <1>2, <2>1, <2>2, <2>3, RestOwns DEF FreshInv
<1> QED BY <1>1, <1>2, FreshSort, FreshMain DEF Next

\* As long as reads succeed, a sort worker asks before it hands a message over.
LEMMA SkipSort ==
    ASSUME ~ReadFails, TypeOK, OnceInv, FreshInv, SkipInv, NEW s \in Sorters, SortStep(s)
    PROVE  SkipInv' /\ \A x \in Msg : row[x].model = "skip" => row'[x] = row[x]
<1> USE DEF graphVars, cacheVars, queueVars, mainVars, clerkVars
<1> SUFFICES ASSUME NEW m, m = sorter[s].m
             PROVE  SkipInv' /\ \A x \in Msg : row[x].model = "skip" => row'[x] = row[x]
  OBVIOUS
<1>1. sorter[s].pc # "idle" => m \in Msg /\ InSort(m)
  BY DEF TypeOK, SorterType, InSort
<1>2. \A x : sorter' = [sorter EXCEPT ![s] = x] =>
        sorter'[s] = x /\ \A t \in Sorters \ {s} : sorter'[t] = sorter[t]
  BY DEF TypeOK, SorterType
<1>3. ASSUME NEW pc, sorter' = [sorter EXCEPT ![s].pc = pc]
      PROVE  /\ sorter'[s].m = m /\ sorter'[s].pc = pc
             /\ \A t \in Sorters \ {s} : sorter'[t] = sorter[t]
  BY <1>3 DEF TypeOK, SorterType, Sorter
<1>4. IdleSorter.pc = "idle"
  BY DEF IdleSorter
<1>5. ASSUME UNCHANGED <<row, extractQ, fallbackQ, proc>>,
             \A t \in Sorters \ {s} : sorter'[t] = sorter[t], sorter'[s].pc # "handoff"
      PROVE  SkipInv'
  BY <1>5, PendingStable DEF SkipInv
<1>6. CASE SortTake(s)
  <2>1. \/ UNCHANGED sorter
        \/ \E j \in listed : sorter' =
               [sorter EXCEPT ![s] = [pc |-> "look", m |-> j.m, cats |-> j.cats]]
    BY <1>6 DEF SortTake
  <2>2. \/ UNCHANGED sorter
        \/ /\ sorter'[s].pc # "handoff"
           /\ \A t \in Sorters \ {s} : sorter'[t] = sorter[t]
    BY <1>2, <2>1
  <2>3. UNCHANGED <<row, extractQ, fallbackQ, proc>>
    BY <1>6 DEF SortTake
  <2>4. UNCHANGED sorter => SkipInv'
    BY <2>3, SkipStable, PendingStable
  <2> QED BY <1>5, <2>2, <2>3, <2>4
<1>7. CASE SortSkip(s)
  <2>1. UNCHANGED <<row, extractQ, fallbackQ, proc>>
    BY <1>7 DEF SortSkip
  <2> QED BY <1>3, <1>5, <1>7, <2>1 DEF SortSkip
<1>8. CASE SortTag(s) \/ SortTagFails(s)
  <2>1. UNCHANGED <<row, extractQ, fallbackQ, proc>>
    BY <1>8 DEF SortTag, SortTagFails
  <2>2. \/ \E new : sorter' = [sorter EXCEPT ![s] = [pc |-> "has", m |-> m, cats |-> new]]
        \/ sorter' = [sorter EXCEPT ![s] = IdleSorter]
    BY <1>8 DEF SortTag, SortTagFails
  <2>3. /\ \A t \in Sorters \ {s} : sorter'[t] = sorter[t]
        /\ sorter'[s].pc # "handoff"
    BY <1>2, <1>4, <2>2
  <2> QED BY <1>5, <2>1, <2>3
<1>9. CASE SortHas(s)
  <2>1. UNCHANGED <<row, extractQ, fallbackQ, proc>>
    BY <1>9 DEF SortHas
  <2>2. CASE sorter' = [sorter EXCEPT ![s] = IdleSorter]
    BY <1>2, <1>4, <1>5, <2>1, <2>2
  <2>3. CASE sorter' = [sorter EXCEPT ![s].pc = "handoff"] /\ row[m].model # "skip"
    <3>1. \A t \in Sorters : sorter'[t] = sorter[t] \/ sorter'[t].m = m
      BY <1>3, <2>3
    <3>2. \A x : Pending(x)' <=> Pending(x)
      BY <2>1, PendingStable
    <3> QED BY <2>1, <2>3, <3>1, <3>2 DEF SkipInv
  <2>4. HasInvoiceExtraction(row[m]) \/ row[m].model # "skip"
    BY DEF HasInvoiceExtraction
  <2> QED BY <1>9, <2>2, <2>3, <2>4 DEF SortHas
<1>10. CASE SortMark(s)
  <2>1. /\ UNCHANGED <<extractQ, fallbackQ, proc>>
        /\ sorter[s].pc = "mark" /\ sorter' = [sorter EXCEPT ![s] = IdleSorter]
        /\ UNCHANGED row \/ WriteRow(m, MarkSkipExtraction(row[m]))
    BY <1>10 DEF SortMark
  <2>2. CASE UNCHANGED row
    BY <1>2, <1>4, <1>5, <2>1, <2>2
  <2>3. CASE WriteRow(m, MarkSkipExtraction(row[m]))
    <3>1. \A x \in Msg : x # m => row'[x] = row[x]
      BY <2>3 DEF WriteRow, TypeOK, CacheType
    <3>2. \/ row'[m] = row[m]
          \/ /\ row[m].model = "absent"
             /\ ~row'[m].po /\ ~row'[m].rescan
      BY <1>1, <2>1, <2>3 DEF WriteRow, TypeOK, CacheType, MarkSkipExtraction,
                              HasInvoiceExtraction, NoRow
    <3>3. ~Pending(m)
      BY <1>1, <2>1 DEF FreshInv
    <3>4. \A t \in Sorters : sorter'[t].pc = "handoff" => sorter'[t] = sorter[t] /\ sorter[t].m # m
      BY <1>2, <1>4, <2>1 DEF OnceInv, SortOnce
    <3>5. \A x : Pending(x)' <=> Pending(x)
      BY <2>1, PendingStable
    <3> QED BY <3>1, <3>2, <3>3, <3>4, <3>5 DEF SkipInv
  <2> QED BY <2>1, <2>2, <2>3
<1>11. CASE SortHandOff(s)
  <2> DEFINE j == [m |-> m, cats |-> sorter[s].cats, minTier |-> 0]
  <2>1. /\ sorter'[s].pc = "idle" /\ \A t \in Sorters \ {s} : sorter'[t] = sorter[t]
        /\ UNCHANGED <<fallbackQ, proc>>
        /\ UNCHANGED row \/ WriteRow(m, StubExtractionForRescan(row[m]))
        /\ UNCHANGED extractQ \/ extractQ' = Append(extractQ, j)
        /\ sorter[s].pc = "handoff"
    BY <1>2, <1>4, <1>11 DEF SortHandOff
  <2>2. j \in ExtractJob /\ extractQ \in Seq(ExtractJob)
    BY <1>1, <2>1
    DEF ExtractJob, topExtractionTier, TypeOK, SorterType, Sorter, ChannelType
  <2>3. \A x : Buffered(extractQ, x)' => Buffered(extractQ, x) \/ x = m
    <3>1. CASE UNCHANGED extractQ
      BY <3>1 DEF Buffered, JobsIn
    <3>2. CASE extractQ' = Append(extractQ, j)
      BY <2>2, <3>2, JobsAfter DEF Buffered
    <3> QED BY <2>1, <3>1, <3>2
  <2>4. \A x : UNCHANGED Buffered(fallbackQ, x)
    BY <2>1 DEF Buffered, JobsIn
  <2>5. \A x : Pending(x)' => Pending(x) \/ x = m
    BY <2>1, <2>3, <2>4 DEF Pending
  <2>6. row[m].model # "skip"
    BY <1>1, <2>1 DEF SkipInv
  <2>7. /\ \A x \in Msg : x # m => row'[x] = row[x]
        /\ row'[m].model # "skip"
    <3>1. StubExtractionForRescan(row[m]).model # "skip"
      BY <2>6 DEF StubExtractionForRescan, NoRow
    <3> QED BY <1>1, <2>1, <2>6, <3>1 DEF WriteRow, TypeOK, CacheType
  <2>8. \A t \in Sorters : sorter'[t].pc = "handoff" => sorter'[t] = sorter[t]
    BY <2>1
  <2> QED BY <2>5, <2>6, <2>7, <2>8 DEF SkipInv
<1> QED BY <1>6, <1>7, <1>8, <1>9, <1>10, <1>11 DEF SortStep, SortTake, SortSkip, SortTag,
           SortTagFails, SortHas

LEMMA SkipStep ==
    ASSUME ~ReadFails, TypeOK, StatusInv, OnceInv, FreshInv, SkipInv, [Next]_vars
    PROVE  SkipInv' /\ \A m \in Msg : row[m].model = "skip" => row'[m] = row[m]
<1>1. CASE \/ \E e \in Extractors : ExtractStep(e)
           \/ \E f \in Fallbackers : FallbackTake(f) \/ FallbackVerify(f)
           \/ \E p \in Procs : FinishStep(p)
  <2>1. \A m \in Msg : row[m].model = "skip" => row'[m] = row[m]
    BY <1>1, PoolsOwnJobs DEF SkipInv
  <2>2. \A m \in Msg : row'[m].model = "skip" => row'[m] = row[m]
    BY <1>1, <2>1, PoolsOwnJobs
  <2> QED BY <1>1, <2>1, <2>2, PoolsOwnJobs, SkipStable
<1>2. CASE MainStep
  <2>1. ASSUME NEW m \in Msg, row[m].model = "skip", rescan.pc # "next" PROVE m # rescan.m
    BY <2>1 DEF StatusInv, RescanStatus, Extracted
  <2>2. ASSUME NEW m \in Msg, row[m].model = "skip" PROVE row'[m] = row[m]
    <3>1. CASE UNCHANGED row
      BY <3>1
    <3>2. CASE RescanExhaust
      BY <2>1, <2>2, <3>2 DEF RescanExhaust, WriteRow, TypeOK, CacheType
    <3>3. CASE row' = [x \in Msg |-> SweepOrphanedRescans(row[x])]
      <4>1. row[m] \in Row /\ row[m].rescan = FALSE
        BY <2>2 DEF SkipInv, TypeOK, CacheType, Row
      <4>2. SweepOrphanedRescans(row[m]) = row[m]
        BY <4>1 DEF SweepOrphanedRescans, Row
      <4> QED BY <3>3, <4>2
    <3> QED BY <1>2, <3>1, <3>2, <3>3
            DEF MainStep, Boot, ListInbox, ListFails, StartRescan, RescanRead, RescanFetch,
                RescanSend, EndRescan, LoopCheck, CloseExtract, CloseFallback, Exit, cacheVars
  <2>3. \A m \in Msg : row'[m].model = "skip" => row'[m] = row[m]
    <3>1. \A m \in Msg : row'[m].model = row[m].model
      BY <1>2, MainOwns
    <3> QED BY <2>2, <3>1
  <2>4. \A m \in Msg : row'[m].model = "skip" => ~Pending(m)'
    BY <1>2, <2>1, <2>3, MainOwns DEF SkipInv
  <2> QED BY <1>2, <2>2, <2>3, <2>4, MainOwns DEF SkipInv
<1>3. CASE Crash \/ WorldStep \/ Done \/ UNCHANGED vars
  <2>1. \A s \in Sorters : sorter'[s].pc = "handoff" => sorter'[s] = sorter[s]
    BY <1>3, RestOwns DEF IdleSorter
  <2> QED BY <1>3, <2>1, RestOwns DEF SkipInv
<1> QED BY <1>1, <1>2, <1>3, SkipSort DEF Next

\* A skipped message is left alone for good, as long as no read of the cache
\* fails: the question for a row that processMessage asks, and the PO that
\* runRescanPass asks for, are all that stands between it and an extraction
\* when the tag that went with the skip was lost.
THEOREM SkipsLast ==
    ASSUME "read" \notin Faults
    PROVE  Spec => SkippedStaysSkipped
<1> DEFINE IInv == ShutdownInv /\ StatusInv /\ OnceInv /\ FreshInv /\ SkipInv
<1>1. Init => IInv
  BY ShutdownInit, StatusInit, OnceInit, FreshInit
<1>2. TypeOK /\ IInv /\ [Next]_vars => IInv'
  BY ShutdownStep, StatusStep, OnceStep, FreshStep, SkipStep DEF ReadFails
<1>3. TypeOK /\ IInv /\ [Next]_vars =>
        [\A m \in Msg : row[m].model = "skip" => row'[m] = row[m]]_vars
  BY SkipStep DEF ReadFails
<1> HIDE DEF IInv
<1> QED BY <1>1, <1>2, <1>3, TypeCorrect, PTL DEF Spec, SkippedStaysSkipped

-----------------------------------------------------------------------------
(* One status a list, and who takes a status away.                           *)

\* A list has at most one status.
Single(list) == \A x, y \in StatusOf(list) : x = y

QueueSingle(q) == \A j \in JobsIn(q) : Single(j.cats)

\* No list in Graph or in memory has two statuses.
SingleInv ==
    /\ \A m \in Msg : Single(cats[m])
    /\ \A j \in listed : Single(j.cats)
    /\ \A s \in Sorters : Single(sorter[s].cats)
    /\ \A p \in Procs : Single(proc[p].cats)
    /\ QueueSingle(extractQ)
    /\ QueueSingle(fallbackQ)
    /\ Single(rescan.cats)
    /\ Single(clerk.cats)

LEMMA EmptySingle == Single({}) /\ QueueSingle(<<>>)
BY DEF Single, StatusOf, QueueSingle, JobsIn

LEMMA SingleInit == Init => SingleInv
<1>1. /\ IdleSorter.cats = {} /\ IdleProc.cats = {} /\ NoRescan.cats = {} /\ NoClerk.cats = {}
  BY DEF IdleSorter, IdleProc, NoRescan, NoClerk
<1> QED BY <1>1, EmptySingle, ZenonT(40) DEF Init, SingleInv

\* What the writers send has one status: the one they set, or the old one,
\* with New turned into Blocked.
LEMMA SingleLists ==
    ASSUME NEW old
    PROVE  /\ \A vendor, buyer, kind : Single(mergeCategories(old, vendor, buyer, kind))
           /\ \A kind : Single(skipCategories(old, kind))
           /\ \A status : Single(ReplaceStatus(old, status))
           /\ \A blockers : Single(old) => Single(applyAutoBlockers(old, blockers))
<1>1. \A list, only : (\A x \in list : x[1] = "Status" => x = only) => Single(list)
  BY DEF Single, StatusOf
<1>2. ASSUME NEW vendor, NEW buyer, NEW kind
      PROVE  Single(mergeCategories(old, vendor, buyer, kind))
  <2>1. ASSUME NEW x \in mergeCategories(old, vendor, buyer, kind), x[1] = "Status"
        PROVE  x = <<"Status", "New">>
    BY <2>1 DEF mergeCategories, Without
  <2> QED BY <1>1, <2>1
<1>3. ASSUME NEW kind PROVE Single(skipCategories(old, kind))
  <2>1. ASSUME NEW x \in skipCategories(old, kind), x[1] = "Status"
        PROVE  x = <<"Status", "Done">>
    BY <2>1 DEF skipCategories, Without, Managed
  <2> QED BY <1>1, <2>1
<1>4. ASSUME NEW status PROVE Single(ReplaceStatus(old, status))
  <2>1. ASSUME NEW x \in ReplaceStatus(old, status), x[1] = "Status"
        PROVE  x = <<"Status", status>>
    BY <2>1 DEF ReplaceStatus, Without
  <2> QED BY <1>1, <2>1
<1>5. ASSUME NEW blockers, Single(old) PROVE Single(applyAutoBlockers(old, blockers))
  <2> DEFINE To(c) == IF c = <<"Status", "New">> THEN <<"Status", "Blocked">> ELSE c
  <2>1. ASSUME NEW x \in applyAutoBlockers(old, blockers), x[1] = "Status"
        PROVE  \E c \in StatusOf(old) : x = To(c)
    <3>1. PICK c \in old : x = To(c)
      BY <2>1 DEF applyAutoBlockers
    <3>2. c[1] = "Status"
      BY <2>1, <3>1
    <3> QED BY <3>1, <3>2 DEF StatusOf
  <2>2. ASSUME NEW x \in StatusOf(applyAutoBlockers(old, blockers)),
               NEW y \in StatusOf(applyAutoBlockers(old, blockers))
        PROVE  x = y
    <3>1. PICK c \in StatusOf(old) : x = To(c)
      BY <2>1 DEF StatusOf
    <3>2. PICK d \in StatusOf(old) : y = To(d)
      BY <2>1 DEF StatusOf
    <3>3. c = d
      BY <1>5 DEF Single
    <3> QED BY <3>1, <3>2, <3>3
  <2> QED BY <2>2 DEF Single
<1> QED BY <1>2, <1>3, <1>4, <1>5

\* A write of one list to Graph.
LEMMA SetSingle ==
    ASSUME TypeOK, SingleInv, NEW m, NEW new, SetCategories(m, new), Single(new)
    PROVE  \A x \in Msg : Single(cats'[x])
BY DEF TypeOK, GraphType, SetCategories, SingleInv

\* A send and a receive.
LEMMA QueueSingles ==
    ASSUME NEW Entry, NEW q \in Seq(Entry), QueueSingle(q)
    PROVE  /\ \A j \in Entry : Single(j.cats) => QueueSingle(Append(q, j))
           /\ q # <<>> => QueueSingle(Tail(q)) /\ Single(Head(q).cats)
BY JobsAfter DEF QueueSingle

LEMMA SingleSort ==
    ASSUME TypeOK, SingleInv, NEW s \in Sorters, SortStep(s)
    PROVE  SingleInv'
<1> USE DEF graphVars, cacheVars, queueVars, mainVars, clerkVars
<1>1. \A x : sorter' = [sorter EXCEPT ![s] = x] /\ Single(x.cats) =>
        \A t \in Sorters : Single(sorter'[t].cats)
  BY DEF TypeOK, SorterType, SingleInv
<1>2. \A pc : sorter' = [sorter EXCEPT ![s].pc = pc] =>
        \A t \in Sorters : Single(sorter'[t].cats)
  <2>1. ASSUME NEW pc, sorter' = [sorter EXCEPT ![s].pc = pc], NEW t \in Sorters
        PROVE  sorter'[t].cats = sorter[t].cats
    BY <2>1 DEF TypeOK, SorterType, Sorter
  <2> QED BY <2>1 DEF SingleInv
<1>3. Single(IdleSorter.cats)
  BY EmptySingle DEF IdleSorter
<1>4. /\ UNCHANGED <<proc, rescan, fallbackQ, clerk>>
      /\ listed' \subseteq listed
  BY DEF SortStep, SortTake, SortSkip, SortMark, SortTag, SortTagFails, SortHas, SortHandOff
<1>5. ASSUME \A m \in Msg : Single(cats'[m]), \A t \in Sorters : Single(sorter'[t].cats),
             QueueSingle(extractQ')
      PROVE  SingleInv'
  BY <1>4, <1>5 DEF SingleInv
<1>6. UNCHANGED cats => \A m \in Msg : Single(cats'[m])
  BY DEF SingleInv
<1>7. UNCHANGED extractQ => QueueSingle(extractQ')
  BY DEF SingleInv
<1>8. \A new \in SortTags(s) : Single(new)
  BY SingleLists DEF SortTags
<1>9. CASE SortTake(s)
  <2>1. UNCHANGED sorter \/ \E j \in listed : sorter' =
          [sorter EXCEPT ![s] = [pc |-> "look", m |-> j.m, cats |-> j.cats]]
    BY <1>9 DEF SortTake
  <2>2. \A t \in Sorters : Single(sorter'[t].cats)
    BY <1>1, <2>1 DEF SingleInv
  <2> QED BY <1>5, <1>6, <1>7, <1>9, <2>2 DEF SortTake
<1>10. CASE SortSkip(s)
  <2>1. \A m \in Msg : Single(cats'[m])
    BY <1>6, <1>10, SetSingle, SingleLists DEF SortSkip
  <2> QED BY <1>2, <1>5, <1>7, <1>10, <2>1 DEF SortSkip
<1>11. CASE SortMark(s)
  BY <1>1, <1>3, <1>5, <1>6, <1>7, <1>11 DEF SortMark
<1>12. CASE SortTag(s)
  <2>1. PICK new \in SortTags(s) :
          /\ SetCategories(sorter[s].m, new)
          /\ \/ sorter' = [sorter EXCEPT ![s] = [pc |-> "has", m |-> sorter[s].m, cats |-> new]]
             \/ sorter' = [sorter EXCEPT ![s] = IdleSorter]
    BY <1>12 DEF SortTag
  <2>2. \A m \in Msg : Single(cats'[m])
    BY <1>8, <2>1, SetSingle
  <2>3. \A t \in Sorters : Single(sorter'[t].cats)
    BY <1>1, <1>3, <1>8, <2>1
  <2> QED BY <1>5, <1>7, <1>12, <2>2, <2>3 DEF SortTag
<1>13. CASE SortTagFails(s)
  <2>1. \A m \in Msg : Single(cats'[m])
    BY <1>6, <1>8, <1>13, SetSingle DEF SortTagFails
  <2> QED BY <1>1, <1>3, <1>5, <1>7, <1>13, <2>1 DEF SortTagFails
<1>14. CASE SortHas(s)
  BY <1>1, <1>2, <1>3, <1>5, <1>6, <1>7, <1>14 DEF SortHas
<1>15. CASE SortHandOff(s)
  <2> DEFINE j == [m |-> sorter[s].m, cats |-> sorter[s].cats, minTier |-> 0]
  <2>1. j \in ExtractJob /\ extractQ \in Seq(ExtractJob)
    BY <1>15
    DEF SortHandOff, ExtractJob, topExtractionTier, TypeOK, SorterType, Sorter, ChannelType
  <2>2. Single(j.cats) /\ QueueSingle(extractQ)
    BY DEF SingleInv
  <2>3. QueueSingle(Append(extractQ, j))
    BY <2>1, <2>2, QueueSingles
  <2>4. UNCHANGED extractQ \/ extractQ' = Append(extractQ, j)
    BY <1>15 DEF SortHandOff
  <2>5. QueueSingle(extractQ')
    BY <1>7, <2>3, <2>4
  <2> QED BY <1>1, <1>3, <1>5, <1>6, <1>15, <2>5 DEF SortHandOff
<1> QED BY <1>9, <1>10, <1>11, <1>12, <1>13, <1>14, <1>15 DEF SortStep

LEMMA SinglePools ==
    ASSUME TypeOK, SingleInv,
           \/ \E e \in Extractors : ExtractStep(e)
           \/ \E f \in Fallbackers : FallbackTake(f) \/ FallbackVerify(f)
           \/ \E p \in Procs : FinishStep(p)
    PROVE  SingleInv'
<1> USE DEF SingleInv
<1>1. extractQ \in Seq(ExtractJob) /\ fallbackQ \in Seq(FallbackJob)
  BY DEF TypeOK, ChannelType
<1>2. ASSUME NEW p \in Procs, \A q \in Procs \ {p} : proc'[q] = proc[q],
             Single(proc'[p].cats)
      PROVE  \A q \in Procs : Single(proc'[q].cats)
  BY <1>2
<1>3. ASSUME NEW p \in Procs, Finish(p) PROVE Single(proc'[p].cats)
  BY <1>3, EmptySingle DEF Finish, IdleProc, TypeOK, ProcType
<1>4. ASSUME NEW e \in Extractors, ExtractStep(e) PROVE SingleInv'
  <2>1. e \in Procs /\ proc[e] \in Proc
    BY DEF Procs, TypeOK, ProcType
  <2>2. /\ QueueSingle(extractQ') /\ QueueSingle(fallbackQ')
        /\ Single(proc'[e].cats)
    <3>1. CASE ExtractTake(e)
      <4>1. proc'[e].cats = Head(extractQ).cats
        BY <2>1, <3>1 DEF ExtractTake, Holding, TypeOK, ProcType
      <4> QED BY <1>1, <3>1, <4>1, QueueSingles DEF ExtractTake
    <3>2. ASSUME NEW v \in Results \cup {"error", "none"},
                 fallbackQ' = Append(fallbackQ, FallbackJobOf(e, v)), Finish(e),
                 proc[e].pc # "idle", UNCHANGED extractQ
          PROVE  /\ QueueSingle(extractQ') /\ QueueSingle(fallbackQ')
                 /\ Single(proc'[e].cats)
      <4>1. FallbackJobOf(e, v) \in FallbackJob
        BY <2>1, <3>2 DEF FallbackJobOf, FallbackJob, Proc, TypeOK, ProcType
      <4>2. Single(FallbackJobOf(e, v).cats)
        BY <2>1 DEF FallbackJobOf
      <4> QED BY <1>1, <1>3, <2>1, <3>2, <4>1, <4>2, QueueSingles
    <3>3. CASE ExtractSend4(e) \/ ExtractSend(e)
      <4>1. proc[e].pc = "send" => proc[e].v \in Results \cup {"error"}
        BY <2>1 DEF TypeOK, ProcType, VerdictsAt
      <4> QED BY <2>1, <3>2, <3>3, <4>1, ProcMoves DEF ExtractSend4, ExtractSend
    <3>4. CASE \/ ExtractUnreadable(e) \/ ExtractOpen(e) \/ ExtractText(e) \/ ExtractNoText(e)
               \/ ExtractCheck4(e) \/ ExtractVision(e) \/ ExtractCheck(e)
      <4>1. UNCHANGED <<extractQ, fallbackQ>>
        BY <3>4 DEF ExtractUnreadable, ExtractOpen, ExtractText, ExtractNoText,
                    ExtractCheck4, ExtractVision, ExtractCheck, queueVars
      <4>2. \A v : proc' = [proc EXCEPT ![e].pc = "check", ![e].v = v] =>
              proc'[e].cats = proc[e].cats
        BY <2>1 DEF Proc, TypeOK, ProcType
      <4>3. proc'[e].cats = proc[e].cats
        BY <2>1, <3>4, <4>2, ProcMoves
        DEF ExtractUnreadable, ExtractOpen, ExtractText, ExtractNoText, ExtractCheck4,
            ExtractVision, ExtractCheck
      <4> QED BY <2>1, <4>1, <4>3
    <3> QED BY <1>4, <3>1, <3>3, <3>4 DEF ExtractStep
  <2> QED BY <1>2, <1>4, <2>1, <2>2, ExtractFrame
<1>5. ASSUME NEW f \in Fallbackers, FallbackTake(f) \/ FallbackVerify(f) PROVE SingleInv'
  <2>1. f \in Procs /\ proc[f] \in Proc
    BY DEF Procs, TypeOK, ProcType
  <2>2. QueueSingle(fallbackQ') /\ Single(proc'[f].cats)
    <3>1. CASE FallbackTake(f)
      <4>1. proc'[f].cats = Head(fallbackQ).cats
        BY <2>1, <3>1 DEF FallbackTake, Holding, TypeOK, ProcType
      <4> QED BY <1>1, <3>1, <4>1, QueueSingles DEF FallbackTake
    <3>2. CASE FallbackVerify(f)
      <4>1. proc' = [proc EXCEPT ![f].pc = "fail", ![f].model = "fallback"] =>
              proc'[f].cats = proc[f].cats
        BY <2>1 DEF Proc, TypeOK, ProcType
      <4>2. proc'[f].cats = proc[f].cats
        BY <2>1, <3>2, <4>1, ProcMoves DEF FallbackVerify
      <4> QED BY <2>1, <3>2, <4>2 DEF FallbackVerify, queueVars
    <3> QED BY <1>5, <3>1, <3>2
  <2> QED BY <1>2, <1>5, <2>1, <2>2, FallbackFrame
<1>6. ASSUME NEW p \in Procs, FinishStep(p) PROVE SingleInv'
  <2>1. Single(proc'[p].cats)
    BY <1>3, <1>6, ProcMoves DEF FinishStep, StoreResult, StoreRecon, AutoBlock, StoreError,
                                 StoreCooldownSkip, StoreFails
  <2>2. \A m \in Msg : Single(cats'[m])
    <3>1. CASE AutoBlock(p)
      <4>1. Single(applyAutoBlockers(proc[p].cats, autoBlockersFromRecon(proc[p].v)))
        BY SingleLists
      <4> QED BY <3>1, <4>1, SetSingle DEF AutoBlock
    <3>2. CASE ~AutoBlock(p)
      BY <1>6, <3>2 DEF FinishStep, StoreResult, StoreRecon, StoreError, StoreCooldownSkip,
                        StoreFails, graphVars
    <3> QED BY <3>1, <3>2
  <2> QED BY <1>2, <1>6, <2>1, <2>2, FinishFrame
<1> QED BY <1>4, <1>5, <1>6

LEMMA SingleMain ==
    ASSUME TypeOK, SingleInv, MainStep
    PROVE  SingleInv'
<1> USE DEF graphVars, cacheVars, queueVars, mainVars, clerkVars
<1>1. UNCHANGED <<cats, sorter, clerk, fallbackQ, proc>>
  BY DEF MainStep, Boot, ListInbox, ListFails, StartRescan, RescanRead, RescanExhaust,
         RescanFetch, RescanSend, EndRescan, LoopCheck, CloseExtract, CloseFallback, Exit
<1>2. Single(NoRescan.cats)
  BY EmptySingle DEF NoRescan
<1>3. ASSUME \A j \in listed' : Single(j.cats), QueueSingle(extractQ'), Single(rescan'.cats)
      PROVE  SingleInv'
  BY <1>1, <1>3 DEF SingleInv
<1>4. UNCHANGED <<listed, extractQ, rescan>> => SingleInv'
  BY <1>3 DEF SingleInv
<1>5. CASE ListInbox
  <2>1. \A j \in listed' : Single(j.cats)
    BY <1>5 DEF ListInbox, SingleInv
  <2> QED BY <1>3, <1>5, <2>1 DEF ListInbox, SingleInv
<1>6. CASE RescanRead
  <2>1. UNCHANGED rescan \/ \E m, t : rescan' = [pc |-> "act", m |-> m, cats |-> {}, tier |-> t]
    BY <1>6 DEF RescanRead
  <2>2. UNCHANGED rescan \/ rescan'.cats = {}
    BY <2>1
  <2>3. Single(rescan.cats)
    BY DEF SingleInv
  <2>4. Single(rescan'.cats)
    BY <2>2, <2>3, EmptySingle
  <2> QED BY <1>3, <1>6, <2>4 DEF RescanRead, SingleInv
<1>7. CASE RescanFetch
  <2>1. rescan.m \in Msg /\ rescan \in Rescan
    BY <1>7 DEF RescanFetch, TypeOK, MainType
  <2>2. rescan' = NoRescan \/ rescan'.cats = cats[rescan.m]
    BY <1>7, <2>1 DEF RescanFetch, Rescan
  <2>3. Single(rescan'.cats)
    BY <1>2, <2>1, <2>2 DEF SingleInv
  <2> QED BY <1>3, <1>7, <2>3 DEF RescanFetch, SingleInv
<1>8. CASE RescanSend
  <2> DEFINE j == [m |-> rescan.m, cats |-> rescan.cats, minTier |-> rescan.tier]
  <2>1. j \in ExtractJob /\ extractQ \in Seq(ExtractJob)
    BY <1>8
    DEF RescanSend, ExtractJob, Rescan, topExtractionTier, TypeOK, MainType, ChannelType
  <2>2. Single(j.cats) /\ QueueSingle(extractQ)
    BY DEF SingleInv
  <2>3. QueueSingle(Append(extractQ, j))
    BY <2>1, <2>2, QueueSingles
  <2>4. UNCHANGED extractQ \/ extractQ' = Append(extractQ, j)
    BY <1>8 DEF RescanSend
  <2>5. QueueSingle(extractQ')
    BY <2>2, <2>3, <2>4
  <2> QED BY <1>2, <1>3, <1>8, <2>5 DEF RescanSend, SingleInv
<1>9. CASE StartRescan \/ RescanExhaust
  BY <1>2, <1>3, <1>9 DEF StartRescan, RescanExhaust, SingleInv
<1> QED BY <1>4, <1>5, <1>6, <1>7, <1>8, <1>9
        DEF MainStep, Boot, ListFails, EndRescan, LoopCheck, CloseExtract, CloseFallback, Exit

LEMMA SingleStep == TypeOK /\ SingleInv /\ [Next]_vars => SingleInv'
<1> SUFFICES ASSUME TypeOK, SingleInv, [Next]_vars PROVE SingleInv'
  OBVIOUS
<1>1. CASE Crash
  <2>1. /\ UNCHANGED <<cats, clerk>> /\ listed' = {} /\ extractQ' = <<>> /\ fallbackQ' = <<>>
        /\ \A s \in Sorters : sorter'[s].cats = {}
        /\ \A p \in Procs : proc'[p].cats = {}
        /\ rescan'.cats = {}
    BY <1>1 DEF Crash, graphVars, clerkVars, IdleSorter, IdleProc, NoRescan
  <2> QED BY <2>1, EmptySingle DEF SingleInv
<1>2. CASE WorldStep \/ Done \/ UNCHANGED vars
  <2>1. UNCHANGED <<sorter, listed, proc, extractQ, fallbackQ, rescan>>
    BY <1>2 DEF WorldStep, Deliver, Leave, SyncMessage, CooldownExpires, ClerkRead,
                ClerkWrite, Done, vars, queueVars, mainVars
  <2>2. ASSUME \A m \in Msg : Single(cats'[m]), Single(clerk'.cats) PROVE SingleInv'
    BY <2>1, <2>2 DEF SingleInv
  <2>3. UNCHANGED <<cats, clerk>> => SingleInv'
    BY <2>2 DEF SingleInv
  <2>4. ASSUME NEW m \in Msg, ClerkRead(m) PROVE SingleInv'
    <3>1. PICK status : clerk' =
            [pc |-> "write", m |-> m, cats |-> ReplaceStatus(cats[m], status)]
      BY <2>4 DEF ClerkRead
    <3>2. Single(clerk'.cats)
      BY <3>1, SingleLists
    <3> QED BY <2>2, <2>4, <3>2 DEF ClerkRead, graphVars, SingleInv
  <2>5. CASE ClerkWrite
    <3>1. \A m \in Msg : Single(cats'[m])
      BY <2>5, SetSingle DEF ClerkWrite, SingleInv
    <3>2. Single(clerk'.cats)
      BY <2>5, EmptySingle DEF ClerkWrite, NoClerk
    <3> QED BY <2>2, <3>1, <3>2
  <2> QED BY <1>2, <2>3, <2>4, <2>5
          DEF WorldStep, Deliver, Leave, SyncMessage, CooldownExpires, Done, vars, graphVars,
              clerkVars
<1> QED BY <1>1, <1>2, SingleSort, SinglePools, SingleMain DEF Next

\* What StatusLostOnlyByRace says of one step and one message.
LostByRace(m) ==
    StatusOf(cats[m]) \subseteq {<<"Status", "New">>} \/ ActsOnStaleList(m)

LEMMA RaceStep ==
    ASSUME TypeOK, FreshInv, SingleInv, [Next]_vars, NEW m \in Msg,
           clerk' = clerk, StatusOf(cats'[m]) # StatusOf(cats[m])
    PROVE  LostByRace(m)
<1> USE DEF graphVars
<1>1. \A x, new : SetCategories(x, new) /\ x # m => cats'[m] = cats[m]
  BY DEF SetCategories, TypeOK, GraphType
<1>2. ASSUME NEW s \in Sorters, SortStep(s) PROVE LostByRace(m)
  <2>1. /\ sorter[s].pc = "look"
        /\ sorter[s].m = m
    BY <1>1, <1>2 DEF SortStep, SortTake, SortSkip, SortMark, SortTag, SortTagFails, SortHas,
                      SortHandOff
  <2>2. StatusOf(sorter[s].cats) = {}
    BY <2>1 DEF FreshInv, hasStatus
  <2>3. sorter[s].cats # cats[m] => ActsOnStaleList(m)
    BY <2>1 DEF ActsOnStaleList
  <2> QED BY <2>2, <2>3 DEF LostByRace
<1>3. ASSUME NEW p \in Procs, FinishStep(p) PROVE LostByRace(m)
  <2> DEFINE blockers == autoBlockersFromRecon(proc[p].v)
  <2>1. AutoBlock(p) /\ cats' # cats
    BY <1>3 DEF FinishStep, StoreResult, StoreRecon, StoreError, StoreCooldownSkip, StoreFails
  <2>2. /\ SetCategories(proc[p].m, applyAutoBlockers(proc[p].cats, blockers))
        /\ proc[p].pc = "block"
    BY <2>1 DEF AutoBlock
  <2>3. proc[p].m = m
    BY <1>1, <2>2
  <2>4. cats'[m] = applyAutoBlockers(proc[p].cats, blockers)
    BY <2>2, <2>3 DEF SetCategories, TypeOK, GraphType
  <2>5. proc[p].cats # cats[m] => ActsOnStaleList(m)
    BY <2>2, <2>3 DEF ActsOnStaleList
  <2>6. CASE <<"Status", "New">> \in cats[m]
    <3>1. <<"Status", "New">> \in StatusOf(cats[m]) /\ Single(cats[m])
      BY <2>6 DEF StatusOf, SingleInv
    <3> QED BY <3>1 DEF Single, LostByRace
  <2>7. CASE <<"Status", "New">> \notin cats[m] /\ proc[p].cats = cats[m]
    <3>1. cats'[m] = cats[m] \cup ({"Blocker"} \X blockers)
      BY <2>4, <2>7 DEF applyAutoBlockers
    <3>2. \A x \in {"Blocker"} \X blockers : x[1] # "Status"
      OBVIOUS
    <3>3. StatusOf(cats'[m]) = StatusOf(cats[m])
      BY <3>1, <3>2 DEF StatusOf
    <3> QED BY <3>3
  <2> QED BY <2>5, <2>6, <2>7 DEF LostByRace
<1>4. CASE ClerkWrite
  BY <1>4 DEF ClerkWrite, NoClerk
<1>5. UNCHANGED cats => FALSE
  OBVIOUS
<1> QED BY <1>2, <1>3, <1>4, <1>5, ExtractFrame, FallbackFrame, MainOwns
        DEF Next, Crash, WorldStep, Deliver, Leave, SyncMessage, CooldownExpires, ClerkRead,
            Done, vars

\* The worker takes a status other than New away only in a race: whatever
\* fails, and however long a job has waited, a list that was still Graph's own
\* when the PATCH was built keeps it (the hasStatus check of processMessage,
\* applyAutoBlockers).
THEOREM StatusKeptWithoutRace == Spec => StatusLostOnlyByRace
<1> DEFINE IInv == ShutdownInv /\ StatusInv /\ OnceInv /\ FreshInv /\ SingleInv
<1>1. Init => IInv
  BY ShutdownInit, StatusInit, OnceInit, FreshInit, SingleInit
<1>2. TypeOK /\ IInv /\ [Next]_vars => IInv'
  BY ShutdownStep, StatusStep, OnceStep, FreshStep, SingleStep
<1>3. TypeOK /\ IInv /\ [Next]_vars =>
        [\A m \in Msg :
            /\ clerk' = clerk
            /\ StatusOf(cats'[m]) # StatusOf(cats[m])
            => StatusOf(cats[m]) \subseteq {<<"Status", "New">>} \/ ActsOnStaleList(m)]_vars
  BY RaceStep DEF LostByRace
<1> HIDE DEF IInv
<1> QED BY <1>1, <1>2, <1>3, TypeCorrect, PTL DEF Spec, StatusLostOnlyByRace

-----------------------------------------------------------------------------
(* Discrepancies: their blockers are there, or about to be.                  *)

\* Nothing fails but reads, and no clerk changes a status meanwhile: a store or
\* a PATCH that fails leaves a discrepancy without blockers once its rescans
\* are used up, and a clerk's stale list removes them.
Undisturbed == Faults \subseteq {"read"} /\ MaxEdits = 0

Discrepant(v) == v \in VerifyResults /\ ~cleanMatch(v)

Marked(m) == Blockers(cats[m]) # {}

\* The blockers of a list in memory have reached the message.
Covered(list, m) == Blockers(list) # {} => Marked(m)

\* A worker is going to reconcile or to mark the message.
Marks(p, m) ==
    proc[p].pc \in {"recon", "block"} /\ proc[p].m = m /\ Discrepant(proc[p].v)

DataMarked ==
    \A m \in Msg : Discrepant(row[m].data) => Marked(m) \/ \E p \in Procs : Marks(p, m)
ProcMarked == \A p \in Procs : proc[p].pc # "idle" => Covered(proc[p].cats, proc[p].m)
QueueMarked(q) == \A j \in JobsIn(q) : Covered(j.cats, j.m)
RescanMarked == rescan.pc = "send" => Covered(rescan.cats, rescan.m)
SorterMarked ==
    \A s \in Sorters : sorter[s].pc \in {"has", "handoff"} => Covered(sorter[s].cats, sorter[s].m)

\* A row that was never read has no figures.
NoDataYet == \A m \in Msg : row[m].model \in {"absent", "skip", "stub"} => row[m].data = "none"

\* Nobody changes a message that the sort pool is looking at.
ListsFresh ==
    /\ \A j \in listed : ~hasStatus(j.cats) => j.cats = cats[j.m]
    /\ \A s \in Sorters : sorter[s].pc = "look" => sorter[s].cats = cats[sorter[s].m]

CalmWorld == clerk = NoClerk /\ \A m \in Msg : where[m] # "gone"

MarkInv ==
    /\ DataMarked
    /\ ProcMarked
    /\ QueueMarked(extractQ)
    /\ QueueMarked(fallbackQ)
    /\ RescanMarked
    /\ SorterMarked
    /\ NoDataYet
    /\ ListsFresh
    /\ CalmWorld

LEMMA MarkInit == Init => MarkInv
<1> SUFFICES ASSUME Init PROVE MarkInv
  OBVIOUS
<1>1. ~Discrepant("none")
  BY DEF Discrepant, VerifyResults
<1>2. \A m \in Msg : row[m] = NoRow /\ NoRow.data = "none"
  BY DEF Init, NoRow
<1>3. DataMarked /\ NoDataYet
  BY <1>1, <1>2 DEF DataMarked, NoDataYet
<1>4. QueueMarked(extractQ) /\ QueueMarked(fallbackQ)
  BY DEF Init, QueueMarked, JobsIn
<1>5. ProcMarked /\ RescanMarked /\ SorterMarked /\ ListsFresh
  BY DEF Init, ProcMarked, RescanMarked, SorterMarked, ListsFresh, IdleProc, NoRescan, IdleSorter
<1>6. CalmWorld
  BY DEF Init, CalmWorld
<1> QED BY <1>3, <1>4, <1>5, <1>6 DEF MarkInv

\* No message loses its last blocker.
MarksStay == \A m \in Msg : Marked(m) => Marked(m)'

LEMMA MarkStable ==
    ASSUME TypeOK, MarkInv, MarksStay
    PROVE  /\ UNCHANGED proc => ProcMarked'
           /\ UNCHANGED extractQ => QueueMarked(extractQ)'
           /\ UNCHANGED fallbackQ => QueueMarked(fallbackQ)'
           /\ UNCHANGED rescan => RescanMarked'
           /\ UNCHANGED sorter => SorterMarked'
           /\ UNCHANGED row => NoDataYet'
           /\ (\A m \in Msg : row'[m].data = row[m].data) /\ UNCHANGED proc => DataMarked'
           /\ UNCHANGED <<cats, listed, sorter>> => ListsFresh'
           /\ UNCHANGED <<clerk, where>> => CalmWorld'
<1> USE DEF MarkInv, MarksStay
<1>1. /\ \A j \in JobsIn(extractQ) : j.m \in Msg
      /\ \A j \in JobsIn(fallbackQ) : j.m \in Msg
  <2>1. /\ \A j \in JobsIn(extractQ) : j \in ExtractJob
        /\ \A j \in JobsIn(fallbackQ) : j \in FallbackJob
    BY JobsAfter DEF TypeOK, ChannelType
  <2> QED BY <2>1 DEF ExtractJob, FallbackJob
<1>2. \A c : \A m \in Msg : Covered(c, m) => (Blockers(c) # {} => Marked(m)')
  BY DEF Covered
<1>3. UNCHANGED proc => ProcMarked'
  <2> SUFFICES ASSUME UNCHANGED proc, NEW p \in Procs, proc[p].pc # "idle",
                      Blockers(proc[p].cats) # {}
               PROVE  Marked(proc[p].m)'
    BY DEF ProcMarked, Covered
  <2> QED BY DEF ProcMarked, Covered, TypeOK, ProcType
<1>4. UNCHANGED extractQ => QueueMarked(extractQ)'
  BY <1>1 DEF QueueMarked, Covered
<1>5. UNCHANGED fallbackQ => QueueMarked(fallbackQ)'
  BY <1>1 DEF QueueMarked, Covered
<1>6. UNCHANGED rescan => RescanMarked'
  BY DEF RescanMarked, Covered, TypeOK, MainType
<1>7. UNCHANGED sorter => SorterMarked'
  BY DEF SorterMarked, Covered, TypeOK, SorterType
<1>8. (\A m \in Msg : row'[m].data = row[m].data) /\ UNCHANGED proc => DataMarked'
  BY DEF DataMarked, Marks
<1>9. /\ UNCHANGED row => NoDataYet'
      /\ UNCHANGED <<cats, listed, sorter>> => ListsFresh'
      /\ UNCHANGED <<clerk, where>> => CalmWorld'
  BY DEF NoDataYet, ListsFresh, CalmWorld
<1> QED BY <1>3, <1>4, <1>5, <1>6, <1>7, <1>8, <1>9

\* The lists the writers send: a tag keeps the blockers, the auto-blockers add
\* some, and when they add none the list had one.
LEMMA BlockersSent ==
    ASSUME NEW old
    PROVE  /\ \A vendor, buyer, kind :
                Blockers(old) # {} => Blockers(mergeCategories(old, vendor, buyer, kind)) # {}
           /\ \A v : Blockers(applyAutoBlockers(old, autoBlockersFromRecon(v))) # {}
           /\ \A v : applyAutoBlockers(old, autoBlockersFromRecon(v)) = old =>
                Blockers(old) # {}
<1>1. \A list : Blockers(list) # {} <=> \E c \in list : c[1] = "Blocker"
  BY DEF Blockers
<1>2. ASSUME NEW vendor, NEW buyer, NEW kind, Blockers(old) # {}
      PROVE  Blockers(mergeCategories(old, vendor, buyer, kind)) # {}
  <2>1. PICK c \in old : c[1] = "Blocker"
    BY <1>1, <1>2
  <2>2. c \in mergeCategories(old, vendor, buyer, kind)
    BY <2>1 DEF mergeCategories, Without
  <2> QED BY <1>1, <2>1, <2>2
<1>3. ASSUME NEW v PROVE Blockers(applyAutoBlockers(old, autoBlockersFromRecon(v))) # {}
  <2>1. \E b : b \in autoBlockersFromRecon(v)
    BY DEF autoBlockersFromRecon
  <2>2. PICK b : b \in autoBlockersFromRecon(v)
    BY <2>1
  <2>3. <<"Blocker", b>> \in applyAutoBlockers(old, autoBlockersFromRecon(v))
    BY <2>2 DEF applyAutoBlockers
  <2> QED BY <1>1, <2>3
<1> QED BY <1>2, <1>3

\* A worker keeps its job, ends it, or takes one from a channel.
LEMMA ProcMarkedKept ==
    ASSUME TypeOK, MarkInv, MarksStay, NEW p \in Procs,
           \A q \in Procs \ {p} : proc'[q] = proc[q],
           \/ proc'[p].pc = "idle"
           \/ /\ proc[p].pc # "idle"
              /\ proc'[p].m = proc[p].m /\ proc'[p].cats = proc[p].cats
           \/ proc'[p].m \in Msg /\ Covered(proc'[p].cats, proc'[p].m)
    PROVE  ProcMarked'
BY DEF MarkInv, ProcMarked, MarksStay, Covered, TypeOK, ProcType

LEMMA MarkExtract ==
    ASSUME TypeOK, MarkInv, NEW e \in Extractors, ExtractStep(e)
    PROVE  MarkInv'
<1>1. e \in Procs /\ proc[e] \in Proc /\ UNCHANGED <<cats, row>>
  BY ExtractFrame DEF Procs, TypeOK, ProcType
<1>2. MarksStay
  BY <1>1 DEF MarksStay, Marked
<1>3. extractQ \in Seq(ExtractJob) /\ fallbackQ \in Seq(FallbackJob)
  BY DEF TypeOK, ChannelType
<1>4. proc[e].pc \notin {"recon", "block"}
  BY ExtractMoves DEF Takes, GoesOn, Passes
<1>5. DataMarked'
  <2>1. \A q, m : Marks(q, m) /\ q \in Procs => Marks(q, m)'
    BY <1>4, ExtractFrame DEF Marks
  <2>2. \A m \in Msg : Discrepant(row'[m].data) => Marked(m) \/ \E q \in Procs : Marks(q, m)
    BY <1>1 DEF MarkInv, DataMarked
  <2> QED BY <1>2, <2>1, <2>2 DEF DataMarked, MarksStay
<1>6. CASE ExtractTake(e)
  <2>1. /\ proc'[e].m = Head(extractQ).m /\ proc'[e].cats = Head(extractQ).cats
        /\ extractQ # <<>> /\ extractQ' = Tail(extractQ) /\ UNCHANGED fallbackQ
    BY <1>1, <1>6 DEF ExtractTake, Holding, TypeOK, ProcType
  <2>2. /\ Head(extractQ) \in JobsIn(extractQ)
        /\ JobsIn(Tail(extractQ)) \subseteq JobsIn(extractQ)
    BY <1>3, <2>1, JobsAfter
  <2>3. Head(extractQ).m \in Msg
    <3>1. Head(extractQ) \in ExtractJob
      BY <1>3, <2>2, JobsAfter
    <3> QED BY <3>1 DEF ExtractJob
  <2>4. Covered(Head(extractQ).cats, Head(extractQ).m)
    BY <2>2 DEF MarkInv, QueueMarked
  <2>5. Covered(proc'[e].cats, proc'[e].m)
    BY <2>1, <2>4
  <2>6. ProcMarked'
    BY <1>1, <1>2, <2>1, <2>3, <2>5, ExtractFrame, ProcMarkedKept
  <2>7. QueueMarked(extractQ)'
    BY <1>1, <2>1, <2>2 DEF MarkInv, QueueMarked, Covered, Marked
  <2> QED BY <1>1, <1>2, <1>5, <2>1, <2>6, <2>7, ExtractFrame, MarkStable DEF MarkInv
<1>7. CASE ~ExtractTake(e)
  <2>1. /\ UNCHANGED extractQ
        /\ proc[e].pc # "idle"
        /\ \/ proc'[e].pc = "idle"
           \/ proc'[e].m = proc[e].m /\ proc'[e].cats = proc[e].cats
    <3>1. \A v : proc' = [proc EXCEPT ![e].pc = "check", ![e].v = v] =>
            proc'[e].m = proc[e].m /\ proc'[e].cats = proc[e].cats
      BY <1>1 DEF Proc, TypeOK, ProcType
    <3> QED BY <1>1, <1>7, <3>1, ProcMoves
            DEF ExtractStep, ExtractUnreadable, ExtractOpen, ExtractText, ExtractNoText,
                ExtractCheck4, ExtractSend4, ExtractVision, ExtractCheck, ExtractSend, queueVars
  <2>2. ProcMarked'
    BY <1>1, <1>2, <2>1, ExtractFrame, ProcMarkedKept
  <2>3. QueueMarked(fallbackQ)'
    <3>1. UNCHANGED fallbackQ \/ \E v \in Results \cup {"error", "none"} :
            fallbackQ' = Append(fallbackQ, FallbackJobOf(e, v))
      <4>1. proc[e].pc = "send" => proc[e].v \in Results \cup {"error"}
        BY <1>1 DEF TypeOK, ProcType, VerdictsAt
      <4> QED BY <1>7, <4>1
            DEF ExtractStep, ExtractUnreadable, ExtractOpen, ExtractText, ExtractNoText,
                ExtractCheck4, ExtractSend4, ExtractVision, ExtractCheck, ExtractSend, queueVars
    <3>2. ASSUME NEW v \in Results \cup {"error", "none"},
                 fallbackQ' = Append(fallbackQ, FallbackJobOf(e, v))
          PROVE  QueueMarked(fallbackQ)'
      <4>1. FallbackJobOf(e, v) \in FallbackJob
        BY <1>1, <2>1 DEF FallbackJobOf, FallbackJob, Proc, TypeOK, ProcType
      <4>2. JobsIn(fallbackQ') = JobsIn(fallbackQ) \cup {FallbackJobOf(e, v)}
        BY <1>3, <3>2, <4>1, JobsAfter
      <4>3. Covered(FallbackJobOf(e, v).cats, FallbackJobOf(e, v).m)
        BY <1>1, <2>1 DEF FallbackJobOf, MarkInv, ProcMarked
      <4> QED BY <1>1, <4>2, <4>3 DEF MarkInv, QueueMarked, Covered, Marked
    <3> QED BY <1>2, <3>1, <3>2, MarkStable
  <2> QED BY <1>1, <1>2, <1>5, <2>1, <2>2, <2>3, ExtractFrame, MarkStable DEF MarkInv
<1> QED BY <1>6, <1>7

LEMMA MarkFallback ==
    ASSUME TypeOK, MarkInv, NEW f \in Fallbackers, FallbackTake(f) \/ FallbackVerify(f)
    PROVE  MarkInv'
<1>1. f \in Procs /\ proc[f] \in Proc /\ UNCHANGED <<cats, row>>
  BY FallbackFrame DEF Procs, TypeOK, ProcType
<1>2. MarksStay
  BY <1>1 DEF MarksStay, Marked
<1>3. fallbackQ \in Seq(FallbackJob)
  BY DEF TypeOK, ChannelType
<1>4. proc[f].pc \notin {"recon", "block"}
  BY FallbackMoves DEF Takes, GoesOn
<1>5. DataMarked'
  <2>1. \A q, m : Marks(q, m) /\ q \in Procs => Marks(q, m)'
    BY <1>4, FallbackFrame DEF Marks
  <2>2. \A m \in Msg : Discrepant(row'[m].data) => Marked(m) \/ \E q \in Procs : Marks(q, m)
    BY <1>1 DEF MarkInv, DataMarked
  <2> QED BY <1>2, <2>1, <2>2 DEF DataMarked, MarksStay
<1>6. CASE FallbackTake(f)
  <2>1. /\ proc'[f].m = Head(fallbackQ).m /\ proc'[f].cats = Head(fallbackQ).cats
        /\ fallbackQ # <<>> /\ fallbackQ' = Tail(fallbackQ)
    BY <1>1, <1>6 DEF FallbackTake, Holding, TypeOK, ProcType
  <2>2. /\ Head(fallbackQ) \in JobsIn(fallbackQ)
        /\ JobsIn(Tail(fallbackQ)) \subseteq JobsIn(fallbackQ)
    BY <1>3, <2>1, JobsAfter
  <2>3. Head(fallbackQ).m \in Msg
    <3>1. Head(fallbackQ) \in FallbackJob
      BY <1>3, <2>2, JobsAfter
    <3> QED BY <3>1 DEF FallbackJob
  <2>4. Covered(Head(fallbackQ).cats, Head(fallbackQ).m)
    BY <2>2 DEF MarkInv, QueueMarked
  <2>5. Covered(proc'[f].cats, proc'[f].m)
    BY <2>1, <2>4
  <2>6. ProcMarked'
    BY <1>1, <1>2, <2>1, <2>3, <2>5, FallbackFrame, ProcMarkedKept
  <2>7. QueueMarked(fallbackQ)'
    BY <1>1, <2>1, <2>2 DEF MarkInv, QueueMarked, Covered, Marked
  <2> QED BY <1>1, <1>2, <1>5, <2>1, <2>6, <2>7, FallbackFrame, MarkStable DEF MarkInv
<1>7. CASE FallbackVerify(f)
  <2>1. /\ UNCHANGED fallbackQ /\ proc[f].pc # "idle"
        /\ proc'[f].m = proc[f].m /\ proc'[f].cats = proc[f].cats
    <3>1. proc' = [proc EXCEPT ![f].pc = "fail", ![f].model = "fallback"] =>
            proc'[f].m = proc[f].m /\ proc'[f].cats = proc[f].cats
      BY <1>1 DEF Proc, TypeOK, ProcType
    <3> QED BY <1>1, <1>7, <3>1, ProcMoves DEF FallbackVerify, queueVars
  <2>2. ProcMarked'
    BY <1>1, <1>2, <2>1, FallbackFrame, ProcMarkedKept
  <2> QED BY <1>1, <1>2, <1>5, <2>1, <2>2, FallbackFrame, MarkStable DEF MarkInv
<1> QED BY <1>6, <1>7

LEMMA MarkFinish ==
    ASSUME Undisturbed, TypeOK, StatusInv, FreshInv, MarkInv, NEW p \in Procs, FinishStep(p)
    PROVE  MarkInv'
<1> USE DEF graphVars, cacheVars
<1> SUFFICES ASSUME NEW m, m = proc[p].m, NEW v, v = proc[p].v PROVE MarkInv'
  OBVIOUS
<1>1. /\ proc[p] \in Proc /\ m \in Msg /\ proc[p].pc # "idle"
      /\ \A q \in Procs \ {p} : proc'[q] = proc[q]
      /\ UNCHANGED <<where, listed, rescan, sorter, extractQ, fallbackQ, clerk>>
  BY FinishFrame DEF TypeOK, ProcType
<1>2. ~WriteFails /\ ~GraphFails(m)
  BY <1>1 DEF Undisturbed, WriteFails, GraphFails, MarkInv, CalmWorld
<1>3. \/ proc'[p].pc = "idle"
      \/ proc'[p].m = proc[p].m /\ proc'[p].cats = proc[p].cats
  BY ProcMoves DEF FinishStep, StoreResult, StoreRecon, AutoBlock, StoreError,
                   StoreCooldownSkip, StoreFails
<1>4. UNCHANGED cats => MarksStay
  BY DEF MarksStay, Marked
<1>5. MarksStay => ProcMarked'
  BY <1>1, <1>3, ProcMarkedKept
<1>6. ASSUME MarksStay, DataMarked', NoDataYet', UNCHANGED cats PROVE MarkInv'
  BY <1>1, <1>5, <1>6, MarkStable DEF MarkInv
<1>7. \A q \in Procs \ {p} : \A x : Marks(q, x) => Marks(q, x)'
  BY <1>1 DEF Marks
<1>8. ASSUME NEW new, WriteRow(m, new)
      PROVE  row'[m] = new /\ \A x \in Msg \ {m} : row'[x] = row[x]
  BY <1>1, <1>8 DEF WriteRow, TypeOK, CacheType
<1>9. ASSUME UNCHANGED cats, proc[p].pc \notin {"recon", "block"},
             NEW model, NEW data, NEW again,
             WriteRow(m, StoreInvoiceExtraction(row[m], model, data, again)),
             model \notin {"absent", "skip", "stub"},
             Discrepant(data) => Marks(p, m)'
      PROVE  MarkInv'
  <2>1. row'[m].model = model /\ row'[m].data = data
    BY <1>8, <1>9 DEF StoreInvoiceExtraction
  <2>2. \A x \in Msg \ {m} : row'[x] = row[x]
    BY <1>8, <1>9
  <2>3. NoDataYet'
    BY <1>9, <2>1, <2>2 DEF MarkInv, NoDataYet
  <2>4. \A q \in Procs : \A x : Marks(q, x) => Marks(q, x)'
    BY <1>7, <1>9 DEF Marks
  <2>5. ASSUME NEW x \in Msg, Discrepant(row'[x].data)
        PROVE  Marked(x)' \/ \E q \in Procs : Marks(q, x)'
    <3>1. CASE x = m
      BY <1>9, <2>1, <2>5, <3>1
    <3>2. CASE x # m
      <4>1. Marked(x) \/ \E q \in Procs : Marks(q, x)
        BY <2>2, <2>5, <3>2 DEF MarkInv, DataMarked
      <4> QED BY <1>4, <1>9, <2>4, <4>1 DEF MarksStay
    <3> QED BY <3>1, <3>2
  <2>6. DataMarked'
    BY <2>5 DEF DataMarked
  <2> QED BY <1>4, <1>6, <1>9, <2>3, <2>6
<1>10. proc[p].model \notin {"absent", "skip", "stub"}
  BY <1>1 DEF Proc, VerdictModels
<1>11. ~Discrepant("none") /\ ~Discrepant("open")
  BY DEF Discrepant, VerifyResults
<1>12. CASE StoreResult(p)
  <2>1. Discrepant(v) => Marks(p, m)'
    <3> SUFFICES ASSUME Discrepant(v) PROVE Marks(p, m)'
      OBVIOUS
    <3>1. GoTo(p, "recon")
      BY <1>11, <1>12 DEF StoreResult
    <3>2. proc'[p].pc = "recon" /\ proc'[p].m = m /\ proc'[p].v = v
      BY <1>1, <3>1 DEF GoTo, TypeOK, ProcType, Proc
    <3> QED BY <3>2 DEF Marks
  <2>2. /\ UNCHANGED cats /\ proc[p].pc = "store"
        /\ WriteRow(m, StoreInvoiceExtraction(row[m], proc[p].model, v, ~cleanMatch(v)))
    BY <1>12 DEF StoreResult
  <2> QED BY <1>9, <1>10, <2>1, <2>2
<1>13. CASE StoreError(p)
  <2>1. /\ UNCHANGED cats /\ proc[p].pc = "fail"
        /\ WriteRow(m, StoreInvoiceExtraction(row[m], proc[p].model, "none", TRUE))
    BY <1>13 DEF StoreError
  <2> QED BY <1>9, <1>10, <1>11, <2>1
<1>14. CASE StoreCooldownSkip(p)
  <2>1. /\ UNCHANGED cats /\ proc[p].pc = "cool"
        /\ WriteRow(m, StoreInvoiceExtraction(row[m], "cooldown", "none", FALSE))
    BY <1>14 DEF StoreCooldownSkip
  <2>2. "cooldown" \notin {"absent", "skip", "stub"} /\ proc[p].pc \notin {"recon", "block"}
    BY <2>1
  <2> QED BY <1>9, <1>11, <2>1, <2>2
<1>15. CASE StoreRecon(p)
  <2>1. UNCHANGED cats /\ proc[p].pc = "recon" /\ WriteRow(m, StoreReconciliation(row[m], v))
    BY <1>15 DEF StoreRecon
  <2>2. \A x \in Msg : row'[x].model = row[x].model /\ row'[x].data = row[x].data
    <3>1. row[m] \in Row
      BY <1>1 DEF TypeOK, CacheType
    <3>2. /\ StoreReconciliation(row[m], v).model = row[m].model
          /\ StoreReconciliation(row[m], v).data = row[m].data
      BY <3>1 DEF StoreReconciliation, Row
    <3> QED BY <1>8, <2>1, <3>2
  <2>3. NoDataYet'
    BY <2>2 DEF MarkInv, NoDataYet
  <2>4. Discrepant(v) => Marks(p, m)' \/ Marked(m)
    <3> SUFFICES ASSUME Discrepant(v), ~Marked(m) PROVE Marks(p, m)'
      OBVIOUS
    <3>1. proc[p].cats # {}
      <4>1. hasStatus(proc[p].cats)
        BY <1>1 DEF StatusInv, ProcStatus
      <4> QED BY <4>1 DEF hasStatus, StatusOf
    <3>2. Blockers(proc[p].cats) = {}
      BY <1>1 DEF MarkInv, ProcMarked, Covered
    <3>3. applyAutoBlockers(proc[p].cats, autoBlockersFromRecon(v)) # proc[p].cats
      BY <3>2, BlockersSent
    <3>4. GoTo(p, "block")
      BY <1>15, <3>1, <3>3 DEF StoreRecon, Discrepant
    <3>5. proc'[p].pc = "block" /\ proc'[p].m = m /\ proc'[p].v = v
      BY <1>1, <3>4 DEF GoTo, TypeOK, ProcType, Proc
    <3> QED BY <3>5 DEF Marks
  <2>5. ASSUME NEW x \in Msg, Discrepant(row'[x].data)
        PROVE  Marked(x)' \/ \E q \in Procs : Marks(q, x)'
    <3>1. Marked(x) \/ \E q \in Procs : Marks(q, x)
      BY <2>2, <2>5 DEF MarkInv, DataMarked
    <3>2. Marks(p, x) => x = m /\ Discrepant(v)
      BY DEF Marks
    <3> QED BY <1>4, <1>7, <2>1, <2>4, <3>1, <3>2 DEF MarksStay
  <2>6. DataMarked'
    BY <2>5 DEF DataMarked
  <2> QED BY <1>4, <1>6, <2>1, <2>3, <2>6
<1>16. CASE AutoBlock(p)
  <2>1. /\ SetCategories(m, applyAutoBlockers(proc[p].cats, autoBlockersFromRecon(v)))
        /\ UNCHANGED row
    BY <1>2, <1>16 DEF AutoBlock
  <2>2. /\ cats'[m] = applyAutoBlockers(proc[p].cats, autoBlockersFromRecon(v))
        /\ \A x \in Msg \ {m} : cats'[x] = cats[x]
    BY <1>1, <2>1 DEF SetCategories, TypeOK, GraphType
  <2>3. Marked(m)' /\ MarksStay
    BY <2>2, BlockersSent DEF MarksStay, Marked
  <2>4. ASSUME NEW x \in Msg, Discrepant(row'[x].data)
        PROVE  Marked(x)' \/ \E q \in Procs : Marks(q, x)'
    <3>1. Marked(x) \/ \E q \in Procs : Marks(q, x)
      BY <2>1, <2>4 DEF MarkInv, DataMarked
    <3>2. Marks(p, x) => x = m
      BY DEF Marks
    <3> QED BY <1>7, <2>3, <3>1, <3>2 DEF MarksStay
  <2>5. DataMarked' /\ NoDataYet'
    BY <2>1, <2>3, <2>4, MarkStable DEF DataMarked
  <2>6. ListsFresh'
    <3>1. Pending(m)
      BY <1>1 DEF Pending
    <3>2. \A j \in listed : ~hasStatus(j.cats) => j.m # m
      BY <1>1, <3>1 DEF FreshInv, InSort
    <3>3. \A s \in Sorters : sorter[s].pc # "idle" => sorter[s].m # m /\ sorter[s].m \in Msg
      BY <1>1, <3>1 DEF FreshInv, InSort, TypeOK, SorterType
    <3>4. \A j \in listed : j.m \in Msg
      BY DEF TypeOK, MainType, ListedMsg
    <3> QED BY <1>1, <2>2, <3>2, <3>3, <3>4 DEF MarkInv, ListsFresh
  <2> QED BY <1>1, <1>5, <2>3, <2>5, <2>6, MarkStable DEF MarkInv
<1> QED BY <1>2, <1>12, <1>13, <1>14, <1>15, <1>16 DEF FinishStep, StoreFails

LEMMA MarkSort ==
    ASSUME Undisturbed, TypeOK, StatusInv, OnceInv, FreshInv, MarkInv, ShutdownInv,
           NEW s \in Sorters, SortStep(s)
    PROVE  MarkInv'
<1> USE DEF graphVars, cacheVars, queueVars, mainVars, clerkVars
<1> SUFFICES ASSUME NEW m, m = sorter[s].m PROVE MarkInv'
  OBVIOUS
<1>1. sorter[s].pc # "idle" => m \in Msg /\ ~Pending(m) /\ ~Extracted(m)
  BY DEF TypeOK, SorterType, FreshInv, InSort
<1>2. \A x : sorter' = [sorter EXCEPT ![s] = x] =>
        sorter'[s] = x /\ \A t \in Sorters \ {s} : sorter'[t] = sorter[t]
  BY DEF TypeOK, SorterType
<1>3. ASSUME NEW pc, sorter' = [sorter EXCEPT ![s].pc = pc]
      PROVE  /\ sorter'[s].m = m /\ sorter'[s].pc = pc /\ sorter'[s].cats = sorter[s].cats
             /\ \A t \in Sorters \ {s} : sorter'[t] = sorter[t]
  BY <1>3 DEF TypeOK, SorterType, Sorter
<1>4. IdleSorter.pc = "idle"
  BY DEF IdleSorter
<1>5. UNCHANGED <<proc, rescan, fallbackQ, clerk, where>>
  BY DEF SortStep, SortTake, SortSkip, SortMark, SortTag, SortTagFails, SortHas, SortHandOff
<1>6. UNCHANGED cats => MarksStay
  BY DEF MarksStay, Marked
<1>7. /\ \A j \in listed : j.m \in Msg
      /\ \A t \in Sorters : sorter[t].pc # "idle" => sorter[t].m \in Msg
  BY DEF TypeOK, MainType, ListedMsg, SorterType
\* A step that writes no categories.
<1>8. ASSUME UNCHANGED cats, listed' \subseteq listed,
             \A t \in Sorters \ {s} : sorter'[t] = sorter[t],
             \/ sorter'[s].pc \notin {"look", "has", "handoff"}
             \/ sorter'[s] = sorter[s]
             \/ /\ sorter'[s].pc = "handoff" /\ sorter[s].pc = "has"
                /\ sorter'[s].m = m /\ sorter'[s].cats = sorter[s].cats
             \/ /\ sorter'[s].pc = "look"
                /\ \E j \in listed : /\ ~hasStatus(j.cats)
                                     /\ sorter'[s].m = j.m /\ sorter'[s].cats = j.cats
      PROVE  SorterMarked' /\ ListsFresh'
  BY <1>8 DEF MarkInv, SorterMarked, ListsFresh, Covered, Marked
\* A write of the message's list.
<1>9. ASSUME NEW new, SetCategories(m, new), UNCHANGED listed, sorter[s].pc = "look",
             \A t \in Sorters \ {s} : sorter'[t] = sorter[t], sorter'[s].pc # "look"
      PROVE  /\ ListsFresh'
             /\ cats'[m] = new /\ \A x \in Msg \ {m} : cats'[x] = cats[x]
  <2>1. cats'[m] = new /\ \A x \in Msg \ {m} : cats'[x] = cats[x]
    BY <1>1, <1>9 DEF SetCategories, TypeOK, GraphType
  <2>2. /\ \A j \in listed : j.m # m
        /\ \A t \in Sorters \ {s} : sorter[t].pc # "idle" => sorter[t].m # m
    BY <1>9 DEF OnceInv, SortOnce
  <2> QED BY <1>7, <1>9, <2>1, <2>2 DEF MarkInv, ListsFresh
<1>10. ASSUME MarksStay, UNCHANGED <<row, extractQ>>, SorterMarked', ListsFresh'
       PROVE  MarkInv'
  BY <1>5, <1>10, MarkStable DEF MarkInv
<1>11. CASE SortTake(s)
  <2>1. PICK j \in listed :
          /\ listed' = listed \ {j}
          /\ \/ UNCHANGED sorter
             \/ /\ ~hasStatus(j.cats)
                /\ sorter' = [sorter EXCEPT ![s] = [pc |-> "look", m |-> j.m, cats |-> j.cats]]
    BY <1>11 DEF SortTake
  <2>2. /\ \A t \in Sorters \ {s} : sorter'[t] = sorter[t]
        /\ \/ sorter'[s] = sorter[s]
           \/ /\ ~hasStatus(j.cats) /\ sorter'[s].pc = "look"
              /\ sorter'[s].m = j.m /\ sorter'[s].cats = j.cats
    BY <1>2, <2>1
  <2>3. UNCHANGED <<cats, row, extractQ>>
    BY <1>11 DEF SortTake
  <2>4. SorterMarked' /\ ListsFresh'
    BY <1>8, <2>1, <2>2, <2>3
  <2> QED BY <1>6, <1>10, <2>3, <2>4
<1>12. CASE SortHas(s)
  <2>1. UNCHANGED <<cats, listed, row, extractQ>>
    BY <1>12 DEF SortHas
  <2>2. SorterMarked' /\ ListsFresh'
    BY <1>2, <1>3, <1>4, <1>8, <1>12, <2>1 DEF SortHas
  <2> QED BY <1>6, <1>10, <2>1, <2>2
<1>13. CASE SortMark(s)
  <2>1. UNCHANGED <<cats, listed, extractQ>> /\ sorter[s].pc = "mark"
        /\ sorter' = [sorter EXCEPT ![s] = IdleSorter]
    BY <1>13 DEF SortMark
  <2>2. SorterMarked' /\ ListsFresh'
    BY <1>2, <1>4, <1>8, <2>1
  <2>4. NoDataYet' /\ \A x \in Msg : row'[x].data = row[x].data
    <3>1. row[m].data = "none"
      BY <1>1, <2>1 DEF Extracted, MarkInv, NoDataYet
    <3>2. MarkSkipExtraction(row[m]).data = "none"
      BY <3>1 DEF MarkSkipExtraction, NoRow
    <3>3. UNCHANGED row \/ WriteRow(m, MarkSkipExtraction(row[m]))
      BY <1>13 DEF SortMark
    <3>4. /\ \A x \in Msg \ {m} : row'[x] = row[x]
          /\ row'[m].data = "none"
      BY <1>1, <2>1, <3>1, <3>2, <3>3 DEF WriteRow, TypeOK, CacheType
    <3> QED BY <3>1, <3>4 DEF MarkInv, NoDataYet
  <2> QED BY <1>5, <1>6, <2>1, <2>2, <2>4, MarkStable DEF MarkInv
<1>14. CASE SortTag(s) \/ SortTagFails(s)
  <2>1. ~GraphFails(m) /\ ~AnswerLost
    <3>1. sorter[s].pc # "idle"
      BY <1>14 DEF SortTag, SortTagFails
    <3> QED BY <1>1, <3>1 DEF Undisturbed, GraphFails, AnswerLost, MarkInv, CalmWorld
  <2>2. SortTag(s)
    BY <1>14, <2>1 DEF SortTagFails
  <2>3. PICK new \in SortTags(s) :
          /\ SetCategories(m, new)
          /\ \/ sorter' = [sorter EXCEPT ![s] = [pc |-> "has", m |-> m, cats |-> new]]
             \/ sorter' = [sorter EXCEPT ![s] = IdleSorter]
    BY <2>2 DEF SortTag
  <2>4. UNCHANGED <<listed, row, extractQ>> /\ sorter[s].pc = "look"
    BY <2>2 DEF SortTag
  <2>5. /\ \A t \in Sorters \ {s} : sorter'[t] = sorter[t]
        /\ \/ sorter'[s].pc = "idle"
           \/ sorter'[s].pc = "has" /\ sorter'[s].m = m /\ sorter'[s].cats = new
    BY <1>2, <1>4, <2>3
  <2>6. /\ ListsFresh'
        /\ cats'[m] = new /\ \A x \in Msg \ {m} : cats'[x] = cats[x]
    BY <1>9, <2>3, <2>4, <2>5
  <2>7. Blockers(cats[m]) # {} => Blockers(new) # {}
    <3>1. sorter[s].cats = cats[m]
      BY <2>4 DEF MarkInv, ListsFresh
    <3> QED BY <2>3, <3>1, BlockersSent DEF SortTags
  <2>8. MarksStay
    BY <2>6, <2>7 DEF MarksStay, Marked
  <2>9. SorterMarked'
    <3> SUFFICES ASSUME NEW t \in Sorters, sorter'[t].pc \in {"has", "handoff"},
                        Blockers(sorter'[t].cats) # {}
                 PROVE  Blockers(cats'[sorter'[t].m]) # {}
      BY DEF SorterMarked, Covered, Marked
    <3>1. CASE t = s
      BY <2>5, <2>6, <3>1
    <3>2. CASE t # s
      <4>1. sorter'[t] = sorter[t] /\ sorter[t].m \in Msg /\ Marked(sorter[t].m)
        BY <1>7, <2>5, <3>2 DEF MarkInv, SorterMarked, Covered
      <4> QED BY <2>8, <4>1 DEF MarksStay, Marked
    <3> QED BY <3>1, <3>2
  <2> QED BY <1>10, <2>4, <2>6, <2>8, <2>9
<1>15. CASE SortHandOff(s)
  <2> DEFINE j == [m |-> m, cats |-> sorter[s].cats, minTier |-> 0]
  <2>1. /\ UNCHANGED <<cats, listed>> /\ sorter[s].pc = "handoff"
        /\ sorter' = [sorter EXCEPT ![s] = IdleSorter]
        /\ UNCHANGED row \/ WriteRow(m, StubExtractionForRescan(row[m]))
        /\ UNCHANGED extractQ \/ extractQ' = Append(extractQ, j)
    BY <1>15 DEF SortHandOff
  <2>2. SorterMarked' /\ ListsFresh'
    BY <1>2, <1>4, <1>8, <2>1
  <2>3. QueueMarked(extractQ)'
    <3>1. j \in ExtractJob /\ extractQ \in Seq(ExtractJob)
      BY <1>1, <2>1
      DEF ExtractJob, topExtractionTier, TypeOK, SorterType, Sorter, ChannelType
    <3>2. Covered(j.cats, j.m)
      BY <2>1 DEF MarkInv, SorterMarked
    <3>3. UNCHANGED extractQ \/ JobsIn(extractQ') = JobsIn(extractQ) \cup {j}
      <4>1. JobsIn(Append(extractQ, j)) = JobsIn(extractQ) \cup {j}
        BY <3>1, JobsAfter
      <4> QED BY <2>1, <4>1
    <3>4. \A k \in JobsIn(extractQ') : Covered(k.cats, k.m)
      BY <3>2, <3>3 DEF MarkInv, QueueMarked
    <3> QED BY <2>1, <3>4 DEF QueueMarked, Covered, Marked
  <2>4. NoDataYet' /\ \A x \in Msg : row'[x].data = row[x].data
    <3>1. row[m].data = "none"
      BY <1>1, <2>1 DEF Extracted, MarkInv, NoDataYet
    <3>2. StubExtractionForRescan(row[m]).data = "none"
      BY <3>1 DEF StubExtractionForRescan, NoRow
    <3>3. /\ \A x \in Msg \ {m} : row'[x] = row[x]
          /\ row'[m].data = "none"
      BY <1>1, <2>1, <3>1, <3>2 DEF WriteRow, TypeOK, CacheType
    <3> QED BY <3>1, <3>3 DEF MarkInv, NoDataYet
  <2> QED BY <1>5, <1>6, <2>1, <2>2, <2>3, <2>4, MarkStable DEF MarkInv
<1>16. CASE SortSkip(s)
  <2>1. /\ UNCHANGED <<listed, row, extractQ>> /\ sorter[s].pc = "look"
        /\ sorter' = [sorter EXCEPT ![s].pc = "mark"]
    BY <1>16 DEF SortSkip
  <2>2. SetCategories(m, skipCategories(sorter[s].cats, skipKind(Class[m])))
    BY <1>1, <1>16 DEF SortSkip, Undisturbed, GraphFails, MarkInv, CalmWorld
  <2>3. /\ ListsFresh'
        /\ \A x \in Msg \ {m} : Marked(x) => Marked(x)'
    <3>1. /\ ListsFresh'
          /\ \A x \in Msg \ {m} : cats'[x] = cats[x]
      <4>1. sorter'[s].pc = "mark" /\ \A t \in Sorters \ {s} : sorter'[t] = sorter[t]
        BY <1>3, <2>1
      <4>2. sorter'[s].pc # "look"
        BY <4>1
      <4> QED BY <1>9, <2>1, <2>2, <4>1, <4>2
    <3> QED BY <3>1 DEF Marked
  <2>4. rescan.pc # "send"
    BY <2>1 DEF ShutdownInv
  <2>5. SorterMarked'
    <3> SUFFICES ASSUME NEW t \in Sorters, sorter'[t].pc \in {"has", "handoff"},
                        Blockers(sorter'[t].cats) # {}
                 PROVE  Blockers(cats'[sorter'[t].m]) # {}
      BY DEF SorterMarked, Covered, Marked
    <3>1. t # s /\ sorter'[t] = sorter[t]
      BY <1>3, <2>1
    <3>2. sorter[t].m # m /\ sorter[t].m \in Msg /\ Marked(sorter[t].m)
      BY <1>7, <2>1, <3>1 DEF OnceInv, SortOnce, MarkInv, SorterMarked, Covered
    <3> QED BY <2>3, <3>1, <3>2 DEF Marked
  <2>6. ProcMarked'
    <3> SUFFICES ASSUME NEW p \in Procs, proc[p].pc # "idle", Blockers(proc[p].cats) # {}
                 PROVE  Blockers(cats'[proc[p].m]) # {}
      BY <1>5 DEF ProcMarked, Covered, Marked
    <3>1. proc[p].m # m /\ proc[p].m \in Msg /\ Marked(proc[p].m)
      BY <1>1, <2>1 DEF Pending, TypeOK, ProcType, MarkInv, ProcMarked, Covered
    <3> QED BY <2>3, <3>1 DEF Marked
  <2>8. QueueMarked(extractQ)' /\ QueueMarked(fallbackQ)'
    <3>1. /\ \A j \in JobsIn(extractQ) : j.m # m
          /\ \A j \in JobsIn(fallbackQ) : j.m # m
      BY <1>1, <2>1 DEF Pending, Buffered
    <3>2. /\ \A j \in JobsIn(extractQ) : j \in ExtractJob
          /\ \A j \in JobsIn(fallbackQ) : j \in FallbackJob
      BY JobsAfter DEF TypeOK, ChannelType
    <3>3. /\ \A j \in JobsIn(extractQ) : j.m \in Msg
          /\ \A j \in JobsIn(fallbackQ) : j.m \in Msg
      BY <3>2 DEF ExtractJob, FallbackJob
    <3> QED BY <1>5, <2>1, <2>3, <3>1, <3>3 DEF MarkInv, QueueMarked, Covered, Marked
  <2>9. DataMarked'
    <3>1. ~Discrepant(row[m].data)
      <4>1. row[m].data = "none"
        BY <1>1, <2>1 DEF Extracted, MarkInv, NoDataYet
      <4> QED BY <4>1 DEF Discrepant, VerifyResults
    <3>2. \A p, x : Marks(p, x) => Marks(p, x)'
      BY <1>5 DEF Marks
    <3> QED BY <2>1, <2>3, <3>1, <3>2 DEF MarkInv, DataMarked
  <2> QED BY <1>5, <2>1, <2>3, <2>4, <2>5, <2>6, <2>8, <2>9
          DEF MarkInv, RescanMarked, NoDataYet, CalmWorld
<1> QED BY <1>11, <1>12, <1>13, <1>14, <1>15, <1>16 DEF SortStep

\* What the main goroutine leaves alone.
LEMMA MainLeaves ==
    ASSUME MainStep
    PROVE  /\ UNCHANGED <<cats, where, sorter, clerk, fallbackQ, proc>>
           /\ ListInbox \/ listed' = listed
           /\ RescanSend \/ extractQ' = extractQ
           /\ RescanFetch \/ rescan' = rescan \/ rescan'.pc # "send"
<1> USE DEF graphVars, cacheVars, queueVars, mainVars, clerkVars
<1>1. UNCHANGED <<cats, where, sorter, clerk, fallbackQ, proc>>
  BY DEF MainStep, Boot, ListInbox, ListFails, StartRescan, RescanRead, RescanExhaust,
         RescanFetch, RescanSend, EndRescan, LoopCheck, CloseExtract, CloseFallback, Exit
<1>2. /\ ListInbox \/ listed' = listed
      /\ RescanSend \/ extractQ' = extractQ
  BY DEF MainStep, Boot, ListInbox, ListFails, StartRescan, RescanRead, RescanExhaust,
         RescanFetch, RescanSend, EndRescan, LoopCheck, CloseExtract, CloseFallback, Exit
<1>3. NoRescan.pc # "send"
  BY DEF NoRescan
<1>4. RescanRead => rescan' = rescan \/ rescan'.pc # "send"
  BY DEF RescanRead
<1>5. RescanFetch \/ rescan' = rescan \/ rescan'.pc # "send"
  BY <1>3, <1>4
  DEF MainStep, Boot, ListInbox, ListFails, StartRescan, RescanExhaust,
      RescanSend, EndRescan, LoopCheck, CloseExtract, CloseFallback, Exit
<1> QED BY <1>1, <1>2, <1>5

LEMMA MarkMain ==
    ASSUME TypeOK, ShutdownInv, MarkInv, MainStep
    PROVE  MarkInv'
<1>1. /\ UNCHANGED <<cats, where, sorter, clerk, fallbackQ, proc>>
      /\ MarksStay
  BY MainLeaves DEF MarksStay, Marked
<1>2. \A m \in Msg : row'[m].model = row[m].model /\ row'[m].data = row[m].data
  BY MainOwns
<1>3. DataMarked' /\ NoDataYet'
  BY <1>1, <1>2, MarkStable DEF MarkInv, NoDataYet
<1>4. ProcMarked' /\ QueueMarked(fallbackQ)' /\ SorterMarked' /\ CalmWorld'
  BY <1>1, MarkStable
<1>5. RescanMarked'
  <2>1. CASE RescanFetch
    <3>1. rescan' = [rescan EXCEPT !.pc = "send", !.cats = cats[rescan.m]]
            \/ rescan' = NoRescan
      BY <2>1 DEF RescanFetch
    <3>2. CASE rescan' = NoRescan
      BY <3>2 DEF NoRescan, RescanMarked
    <3>3. CASE rescan' = [rescan EXCEPT !.pc = "send", !.cats = cats[rescan.m]]
      <4>1. rescan \in Rescan
        BY DEF TypeOK, MainType
      <4>2. rescan'.m = rescan.m /\ rescan'.cats = cats[rescan.m]
        BY <3>3, <4>1 DEF Rescan
      <4> QED BY <1>1, <4>2 DEF RescanMarked, Covered, Marked
    <3> QED BY <3>1, <3>2, <3>3
  <2>2. CASE rescan' = rescan
    BY <1>1, <2>2, MarkStable
  <2>3. CASE rescan'.pc # "send"
    BY <2>3 DEF RescanMarked
  <2> QED BY <2>1, <2>2, <2>3, MainLeaves
<1>6. QueueMarked(extractQ)'
  <2>1. CASE RescanSend
    <3> DEFINE j == [m |-> rescan.m, cats |-> rescan.cats, minTier |-> rescan.tier]
    <3>1. j \in ExtractJob /\ extractQ \in Seq(ExtractJob)
      BY <2>1
      DEF RescanSend, ExtractJob, Rescan, topExtractionTier, TypeOK, MainType, ChannelType
    <3>2. UNCHANGED extractQ \/ extractQ' = Append(extractQ, j)
      BY <2>1 DEF RescanSend
    <3>3. JobsIn(Append(extractQ, j)) = JobsIn(extractQ) \cup {j}
      BY <3>1, JobsAfter
    <3>4. Covered(j.cats, j.m)
      BY <2>1 DEF RescanSend, MarkInv, RescanMarked
    <3>5. \A k \in JobsIn(extractQ') : Covered(k.cats, k.m)
      BY <3>2, <3>3, <3>4 DEF MarkInv, QueueMarked
    <3> QED BY <1>1, <3>5 DEF QueueMarked, Covered, Marked
  <2>2. CASE extractQ' = extractQ
    BY <1>1, <2>2, MarkStable
  <2> QED BY <2>1, <2>2, MainLeaves
<1>7. ListsFresh'
  <2>1. CASE ListInbox
    <3>1. /\ \A j \in listed' : j.cats = cats[j.m]
          /\ \A s \in Sorters : sorter[s].pc = "idle"
      BY <2>1 DEF ListInbox, ShutdownInv
    <3> QED BY <1>1, <3>1 DEF ListsFresh
  <2>2. CASE listed' = listed
    BY <1>1, <2>2, MarkStable
  <2> QED BY <2>1, <2>2, MainLeaves
<1> QED BY <1>3, <1>4, <1>5, <1>6, <1>7 DEF MarkInv

LEMMA MarkRest ==
    ASSUME Undisturbed, TypeOK, MarkInv, Crash \/ WorldStep \/ Done \/ UNCHANGED vars
    PROVE  MarkInv'
<1> USE DEF graphVars, cacheVars, queueVars, mainVars, clerkVars
<1>1. ~Crash /\ ~ClerkWrite /\ \A m \in Msg : ~Leave(m) /\ ~ClerkRead(m)
  <2>1. edits = 0 /\ MaxEdits = 0
    BY DEF Undisturbed, TypeOK, ClerkType
  <2>2. clerk.pc # "write"
    BY DEF MarkInv, CalmWorld, NoClerk
  <2>3. "crash" \notin Faults /\ "gone" \notin Faults
    BY DEF Undisturbed
  <2> QED BY <2>1, <2>2, <2>3 DEF Crash, Leave, ClerkRead, ClerkWrite
<1>2. \/ Done \/ UNCHANGED vars
      \/ \E m \in Msg : Deliver(m) \/ SyncMessage(m)
      \/ \E pdf \in Pdf : CooldownExpires(pdf)
  BY <1>1 DEF WorldStep
<1>3. UNCHANGED <<cats, row, extractQ, fallbackQ, proc, listed, rescan, sorter, clerk>>
  BY <1>2 DEF Done, vars, Deliver, SyncMessage, CooldownExpires
<1>4. where' = where \/ \E m \in Msg : Deliver(m)
  BY <1>2 DEF Done, vars, SyncMessage, CooldownExpires
<1>5. \A m \in Msg : where'[m] # "gone"
  BY <1>4 DEF Deliver, MarkInv, CalmWorld, TypeOK, GraphType
<1>6. MarksStay
  BY <1>3 DEF MarksStay, Marked
<1> QED BY <1>3, <1>5, <1>6, MarkStable DEF MarkInv, CalmWorld

LEMMA MarkStep ==
    ASSUME Undisturbed, TypeOK, ShutdownInv, StatusInv, OnceInv, FreshInv, MarkInv, [Next]_vars
    PROVE  MarkInv'
BY MarkExtract, MarkFallback, MarkFinish, MarkSort, MarkMain, MarkRest DEF Next

\* When nothing fails but reads of the database, and no clerk changes a status
\* meanwhile, an invoice whose figures do not agree with its PO shows as a
\* discrepancy and never as a match as soon as no worker has it in hand: every
\* way out of processExtractionResult leaves the automatic blockers behind, and
\* no later tag, rescan or second opinion takes them away.
THEOREM DiscrepanciesShown ==
    ASSUME Undisturbed
    PROVE  Spec => []DiscrepancyShows
<1> DEFINE IInv == ShutdownInv /\ StatusInv /\ OnceInv /\ FreshInv /\ MarkInv
<1>1. Init => IInv
  BY ShutdownInit, StatusInit, OnceInit, FreshInit, MarkInit
<1>2. TypeOK /\ IInv /\ [Next]_vars => IInv'
  BY ShutdownStep, StatusStep, OnceStep, FreshStep, MarkStep
<1>3. TypeOK /\ IInv => DiscrepancyShows
  <2> SUFFICES ASSUME MarkInv, NEW m \in Msg, ~InHand(m), Discrepant(row[m].data)
               PROVE  /\ Lists(m, "discrepancy")
                      /\ ~Lists(m, "match")
                      /\ Pipeline(View(m)) # "done"
    BY DEF DiscrepancyShows, Discrepant
  <2>1. \A p \in Procs : ~Marks(p, m)
    BY DEF InHand, Marks
  <2>2. Blockers(cats[m]) # {}
    BY <2>1 DEF MarkInv, DataMarked, Marked
  <2>3. BlockersOf(View(m)) # {}
    BY <2>2 DEF BlockersOf, ValuesOf, View, Blockers
  <2>4. AIHasExtraction(View(m))
    BY DEF AIHasExtraction, View, Discrepant, VerifyResults
  <2>5. Pipeline(View(m)) # "done"
    BY <2>3, <2>4 DEF Pipeline
  <2>6. Lists(m, "discrepancy")
    BY <2>3, <2>4 DEF Lists, Matches
  <2>7. ~Lists(m, "match")
    BY <2>3 DEF Lists, Matches
  <2> QED BY <2>5, <2>6, <2>7
<1> HIDE DEF IInv
<1> QED BY <1>1, <1>2, <1>3, TypeCorrect, PTL DEF Spec

=============================================================================
