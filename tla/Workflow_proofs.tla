---------------------------- MODULE Workflow_proofs ----------------------------
(***************************************************************************)
(* Proofs about Workflow, for any mailbox, clerks, menus and bounds.       *)
(***************************************************************************)
EXTENDS Workflow, FiniteSetTheorems, TLAPS

-----------------------------------------------------------------------------
(* What the operators on categories return. *)

LEMMA ListTypes ==
    ASSUME NEW cats \in SUBSET Category
    PROVE  /\ \A owner \in SUBSET Owners : ReplaceOwner(cats, owner) \in SUBSET Category
           /\ \A status \in Statuses : ReplaceStatus(cats, status) \in SUBSET Category
           /\ \A name \in BlockerOptions : ToggleBlocker(cats, name) \in SUBSET Category
           /\ StripKind(cats) \in SUBSET Category
           /\ StripAllBlockers(cats) \in SUBSET Category
           /\ ensureStatusNew(stripBlockerAndStatus(cats)) \in SUBSET Category
<1>1. ASSUME NEW owner \in SUBSET Owners PROVE ReplaceOwner(cats, owner) \in SUBSET Category
  BY DEF ReplaceOwner, Without, Category
<1>2. ASSUME NEW x \in SUBSET Category, NEW status \in Statuses
      PROVE  ReplaceStatus(x, status) \in SUBSET Category
  BY DEF ReplaceStatus, Without, Category
<1>3. ASSUME NEW name \in BlockerOptions PROVE ToggleBlocker(cats, name) \in SUBSET Category
  <2> DEFINE target == <<"Blocker", name>>
             toggled == IF target \in cats THEN cats \ {target} ELSE cats \cup {target}
  <2>1. target \in Category
    BY DEF Category
  <2>2. toggled \in SUBSET Category
    BY <2>1
  <2>3. ReplaceStatus(toggled, "Blocked") \in SUBSET Category
    BY <1>2, <2>2 DEF Statuses
  <2>4. ReplaceStatus(toggled, "In Progress") \in SUBSET Category
    BY <1>2, <2>2 DEF Statuses
  <2> HIDE DEF toggled
  <2>5. ToggleBlocker(cats, name) \in {ReplaceStatus(toggled, "Blocked"),
                                      ReplaceStatus(toggled, "In Progress"), toggled}
    BY DEF ToggleBlocker, toggled
  <2> QED BY <2>2, <2>3, <2>4, <2>5
<1>4. StripKind(cats) \in SUBSET Category
  BY DEF StripKind, Without
<1>5. StripAllBlockers(cats) \in SUBSET Category
  <2>1. <<"Status", "New">> \in Category
    BY DEF Category, Statuses
  <2> QED BY <2>1 DEF StripAllBlockers, Without
<1>6. ensureStatusNew(stripBlockerAndStatus(cats)) \in SUBSET Category
  <2>1. <<"Status", "New">> \in Category
    BY DEF Category, Statuses
  <2> QED BY <2>1 DEF ensureStatusNew, stripBlockerAndStatus, Without
<1> QED BY <1>1, <1>2, <1>3, <1>4, <1>5, <1>6

One(cats) == \E c : StatusOf(cats) = {c}

\* Two lists agree outside the namespaces.
Same(new, old, namespaces) == \A c : c[1] \notin namespaces => (c \in new <=> c \in old)

\* A list made from another changes only these namespaces, and keeps one status.
Follows(new, old, namespaces) == Same(new, old, namespaces) /\ (One(old) => One(new))

LEMMA Following ==
    ASSUME NEW cats
    PROVE  /\ \A owner : Follows(ReplaceOwner(cats, owner), cats, {"Owner"})
           /\ \A status : Follows(ReplaceStatus(cats, status), cats, {"Status"})
           /\ \A name : Follows(ToggleBlocker(cats, name), cats, {"Status", "Blocker"})
           /\ Follows(StripKind(cats), cats, {"Kind"})
           /\ Follows(StripAllBlockers(cats), cats, {"Status", "Blocker"})
           /\ Follows(ensureStatusNew(stripBlockerAndStatus(cats)), cats, {"Status", "Blocker"})
<1>1. ASSUME NEW owner PROVE Follows(ReplaceOwner(cats, owner), cats, {"Owner"})
  <2> DEFINE new == ReplaceOwner(cats, owner)
  <2>1. Same(new, cats, {"Owner"}) /\ StatusOf(new) = StatusOf(cats)
    BY DEF ReplaceOwner, Without, Same, StatusOf
  <2> QED BY <2>1 DEF Follows, One
<1>2. ASSUME NEW x, NEW status
      PROVE  Same(ReplaceStatus(x, status), x, {"Status"}) /\ One(ReplaceStatus(x, status))
  <2> DEFINE new == ReplaceStatus(x, status)
  <2>1. Same(new, x, {"Status"})
    BY DEF ReplaceStatus, Without, Same
  <2>2. StatusOf(new) = {<<"Status", status>>}
    BY DEF ReplaceStatus, Without, StatusOf
  <2> QED BY <2>1, <2>2 DEF One
<1>3. ASSUME NEW name PROVE Follows(ToggleBlocker(cats, name), cats, {"Status", "Blocker"})
  <2> DEFINE target == <<"Blocker", name>>
             toggled == IF target \in cats THEN cats \ {target} ELSE cats \cup {target}
             N == {"Status", "Blocker"}
  <2>1. Same(toggled, cats, N) /\ StatusOf(toggled) = StatusOf(cats)
    BY DEF Same, StatusOf
  <2> HIDE DEF toggled
  <2>2. ToggleBlocker(cats, name) \in {ReplaceStatus(toggled, "Blocked"),
                                      ReplaceStatus(toggled, "In Progress"), toggled}
    BY DEF ToggleBlocker, toggled
  <2>3. ASSUME NEW status
        PROVE  Same(ReplaceStatus(toggled, status), cats, N) /\ One(ReplaceStatus(toggled, status))
    BY <1>2, <2>1 DEF Same
  <2>4. One(cats) => One(toggled)
    BY <2>1 DEF One
  <2> HIDE DEF N
  <2>5. Same(ToggleBlocker(cats, name), cats, N)
    BY <2>1, <2>2, <2>3
  <2>6. One(cats) => One(ToggleBlocker(cats, name))
    BY <2>2, <2>3, <2>4
  <2> QED BY <2>5, <2>6 DEF Follows, N
<1>4. Follows(StripKind(cats), cats, {"Kind"})
  <2> DEFINE new == StripKind(cats)
  <2>1. Same(new, cats, {"Kind"}) /\ StatusOf(new) = StatusOf(cats)
    BY DEF StripKind, Without, Same, StatusOf
  <2> QED BY <2>1 DEF Follows, One
<1>5. Follows(StripAllBlockers(cats), cats, {"Status", "Blocker"})
  <2> DEFINE new == StripAllBlockers(cats)
             turned(c) == IF c = <<"Status", "Blocked">> THEN <<"Status", "New">> ELSE c
  <2>1. Same(new, cats, {"Status", "Blocker"})
    <3> SUFFICES ASSUME NEW c, c[1] \notin {"Status", "Blocker"} PROVE c \in new <=> c \in cats
      BY DEF Same
    <3>1. c \in new <=> \E d \in cats : d[1] # "Blocker" /\ c = turned(d)
      BY DEF StripAllBlockers, Without
    <3>2. \A d : turned(d) = d \/ turned(d)[1] = "Status"
      OBVIOUS
    <3>3. turned(c) = c
      OBVIOUS
    <3> HIDE DEF turned, new
    <3> QED BY <3>1, <3>2, <3>3
  <2>2. \A c : StatusOf(cats) = {c} => StatusOf(new) = {turned(c)}
    BY DEF StripAllBlockers, Without, StatusOf
  <2> QED BY <2>1, <2>2 DEF Follows, One
<1>6. Follows(ensureStatusNew(stripBlockerAndStatus(cats)), cats, {"Status", "Blocker"})
  <2> DEFINE left == stripBlockerAndStatus(cats)
             new == ensureStatusNew(left)
  <2>1. StatusOf(left) = {} /\ Same(left, cats, {"Status", "Blocker"})
    BY DEF stripBlockerAndStatus, Without, StatusOf, Same
  <2> HIDE DEF left
  <2>2. new = left \cup {<<"Status", "New">>}
    BY <2>1 DEF ensureStatusNew, hasStatus
  <2>3. StatusOf(new) = {<<"Status", "New">>} /\ Same(new, cats, {"Status", "Blocker"})
    BY <2>1, <2>2 DEF StatusOf, Same
  <2> QED BY <2>3 DEF Follows, One, left
<1> QED BY <1>1, <1>2, <1>3, <1>4, <1>5, <1>6 DEF Follows

LEMMA FollowsOn ==
    ASSUME NEW x, NEW y, NEW z, NEW N1, NEW N2, NEW N, N1 \subseteq N, N2 \subseteq N,
           Follows(y, x, N1), Follows(z, y, N2)
    PROVE  Follows(z, x, N)
BY DEF Follows, Same

-----------------------------------------------------------------------------
(* Types. *)

Rec == [pc : PCs, op : Ops, msg : Msg \cup {NoMsg}, read : SUBSET Category,
        list : SUBSET Category, info : PayStatus, todo : SUBSET Msg]

\* What a process can be at: with a message in hand unless it rests, and with
\* an operation that has this step.
OpAt(p, r) ==
    /\ r.pc # "idle" => r.msg \in Msg
    /\ p = "voucher" => r.op \in {"voucher", "reconcile", "blocked"}
    /\ p = "sweep" => r.op = "resurface"
    /\ r.pc = "lookup" => r.op = "voucher"
    /\ r.pc = "info" => r.op \in {"voucher", "manual"}
    /\ r.pc = "cats" => r.op \in {"voucher", "reconcile", "blocked"}
    /\ r.pc = "get" => r.op \in {"manual", "resurface"}

ProcInv == proc \in [Procs -> Rec] /\ \A p \in Procs : OpAt(p, proc[p])

CatsType ==
    /\ outlook \in [Msg -> SUBSET Category]
    /\ cached \in [Msg -> SUBSET Category]
    /\ changed \subseteq Msg
    /\ batch \subseteq Msg \X SUBSET Category

ExtRow == [po : BOOLEAN, data : {"none", "partial", "numbered"}, pay : PayStatus,
           recent : BOOLEAN]

ExtType == ext \in [Msg -> ExtRow]

FollowupType == followup \in [Msg -> {"none", "pending", "due"}]

ErpType == erp \in [Msg -> [voucher : InERP, agrees : BOOLEAN]]

SpentType == spent \in [requests : 0..MaxRequests, faults : 0..MaxFaults, erp : 0..MaxErp,
                       edits : 0..MaxEdits]

TypeInv == ProcInv /\ CatsType /\ ExtType /\ FollowupType /\ ErpType /\ SpentType

\* Process p turns to r.
Turns(p, r) == r \in Rec /\ OpAt(p, r) /\ proc' = [proc EXCEPT ![p] = r]

LEMMA TurnsType ==
    ASSUME ProcInv, NEW p \in Procs, NEW r, Turns(p, r)
    PROVE  ProcInv'
BY DEF ProcInv, Turns

LEMMA SpentTypes ==
    ASSUME SpentType
    PROVE  Fault \/ Request \/ UNCHANGED spent => SpentType'
BY WorkflowAssumption DEF SpentType, Fault, Request

LEMMA IdleType ==
    /\ Idle \in Rec /\ Idle.pc = "idle"
    /\ \A op \in Ops : [Idle EXCEPT !.op = op] \in Rec
BY DEF Idle, Rec, PCs, Ops, PayStatus

\* A ticker goes on with the messages left, or rests.
LEMMA ContinueType ==
    ASSUME NEW p \in Tickers, NEW op, NEW todo \in SUBSET Msg,
           p = "voucher" => op \in {"voucher", "reconcile", "blocked"},
           p = "sweep" => op = "resurface",
           NEW r \in Continue(op, todo)
    PROVE  r \in Rec /\ OpAt(p, r) /\ r.pc \notin {"patch", "update"}
<1>1. op \in {"voucher", "reconcile", "blocked", "resurface"} /\ op \in Ops
  BY DEF Tickers, Ops
<1>2. CASE todo = {}
  <2>1. r = [Idle EXCEPT !.op = op]
    BY <1>2 DEF Continue
  <2>2. r \in Rec
    BY <1>1, <2>1, IdleType
  <2>3. r.pc = "idle" /\ r.op = op
    BY <2>1 DEF Idle
  <2> QED BY <2>2, <2>3 DEF OpAt
<1>3. CASE todo # {}
  <2>1. PICK m \in todo :
          r = [Idle EXCEPT !.pc = FirstStep(op), !.op = op, !.msg = m, !.todo = todo \ {m}]
    BY <1>3 DEF Continue
  <2> DEFINE first == FirstStep(op)
  <2>2. /\ first \in {"cats", "lookup", "get"}
        /\ first = "lookup" => op = "voucher"
        /\ first = "cats" => op \in {"reconcile", "blocked"}
        /\ first = "get" => op = "resurface"
    BY <1>1 DEF FirstStep
  <2> HIDE DEF first
  <2>3. r.pc = first /\ r.op = op /\ r.msg = m /\ m \in Msg
    BY <2>1 DEF Idle, first
  <2>4. r \in Rec
    <3>1. first \in PCs
      BY <2>2 DEF PCs
    <3>2. r = [Idle EXCEPT !.pc = first, !.op = op, !.msg = m, !.todo = todo \ {m}]
      BY <2>1 DEF first
    <3> QED BY <1>1, <2>3, <3>1, <3>2, ZenonT(40) DEF Idle, Rec, PayStatus
  <2> QED BY <2>2, <2>3, <2>4 DEF OpAt
<1> QED BY <1>2, <1>3

LEMMA Distinct ==
    /\ \A p \in Procs \ Clerks : p \in Tickers
    /\ \A c \in Clerks : c \in Procs /\ c # "voucher" /\ c # "sweep"
    /\ "voucher" \in Procs /\ "sweep" \in Procs /\ "voucher" \in Tickers /\ "sweep" \in Tickers
BY WorkflowAssumption DEF Procs, Tickers

LEMMA FinishTurns ==
    ASSUME ProcInv, NEW p \in Procs, Finish(p)
    PROVE  \E r : Turns(p, r) /\ r.pc \notin {"patch", "update"}
<1>1. PICK r \in (IF p \in Clerks THEN {Idle} ELSE Continue(proc[p].op, proc[p].todo)) :
        proc' = [proc EXCEPT ![p] = r]
  BY DEF Finish
<1>2. CASE p \in Clerks
  <2>1. r = Idle /\ p # "voucher" /\ p # "sweep"
    BY <1>1, <1>2, Distinct
  <2>2. r \in Rec /\ r.pc = "idle"
    BY <2>1, IdleType
  <2>3. OpAt(p, r)
    BY <2>1, <2>2 DEF OpAt
  <2> QED BY <1>1, <2>2, <2>3 DEF Turns
<1>3. CASE p \notin Clerks
  <2>1. p \in Tickers
    BY <1>3, Distinct
  <2>2. proc[p] \in Rec /\ OpAt(p, proc[p])
    BY DEF ProcInv
  <2>3. proc[p].todo \in SUBSET Msg
    BY <2>2 DEF Rec
  <2>4. r \in Rec /\ OpAt(p, r) /\ r.pc \notin {"patch", "update"}
    BY <1>1, <1>3, <2>1, <2>2, <2>3, ContinueType DEF OpAt
  <2> QED BY <1>1, <2>4 DEF Turns
<1> QED BY <1>2, <1>3

-----------------------------------------------------------------------------
(* What a step makes of its process: a list taken up for Outlook follows one *)
(* that was read there or in the cache, outside what its operation decides.  *)

Writing == {"patch", "update"}

Sourced(p, r) ==
    /\ r.pc = "patch" => /\ r.read = outlook[r.msg] \/ r.read = cached[r.msg]
                         /\ Follows(r.list, r.read, Decides(r.op))
    /\ r.pc = "update" => proc[p].pc = "patch" /\ r.msg = proc[p].msg /\ r.list = proc[p].list

Moves(p) == \E r : Turns(p, r) /\ Sourced(p, r)

LEMMA FinishMoves ==
    ASSUME ProcInv, NEW p \in Procs, Finish(p)
    PROVE  Moves(p)
BY FinishTurns DEF Moves, Sourced

\* A process that keeps its message and its operation and takes no list up.
LEMMA GoesOn ==
    ASSUME ProcInv, NEW p \in Procs, proc[p].pc # "idle",
           NEW pc \in PCs, NEW read \in SUBSET Category, NEW list \in SUBSET Category,
           NEW info \in PayStatus,
           proc' = [proc EXCEPT ![p] = [proc[p] EXCEPT !.pc = pc, !.read = read, !.list = list,
                                                       !.info = info]],
           pc = "lookup" => proc[p].op = "voucher",
           pc = "info" => proc[p].op \in {"voucher", "manual"},
           pc = "cats" => proc[p].op \in {"voucher", "reconcile", "blocked"},
           pc = "get" => proc[p].op \in {"manual", "resurface"},
           pc = "patch" => /\ read = outlook[proc[p].msg] \/ read = cached[proc[p].msg]
                           /\ Follows(list, read, Decides(proc[p].op)),
           pc = "update" => proc[p].pc = "patch" /\ list = proc[p].list
    PROVE  Moves(p)
<1> DEFINE r == [proc[p] EXCEPT !.pc = pc, !.read = read, !.list = list, !.info = info]
<1>1. proc[p] \in Rec /\ OpAt(p, proc[p])
  BY DEF ProcInv
<1>2. r \in Rec
  BY <1>1 DEF Rec
<1>3. /\ r.pc = pc /\ r.list = list /\ r.read = read /\ r.msg = proc[p].msg /\ r.op = proc[p].op
      /\ proc' = [proc EXCEPT ![p] = r]
  BY <1>1 DEF Rec
<1> HIDE DEF r
<1>4. OpAt(p, r)
  BY <1>1, <1>3 DEF OpAt
<1>5. Sourced(p, r)
  BY <1>3 DEF Sourced
<1> QED BY <1>2, <1>3, <1>4, <1>5 DEF Moves, Turns

LEMMA StepMoves ==
    ASSUME TypeInv, NEW p \in Procs, Step(p)
    PROVE  Moves(p)
<1>1. /\ ProcInv /\ proc[p] \in Rec /\ OpAt(p, proc[p]) /\ proc \in [Procs -> Rec]
  BY DEF TypeInv, ProcInv
<1>2. /\ proc[p].read \in SUBSET Category /\ proc[p].list \in SUBSET Category
      /\ proc[p].info \in PayStatus /\ proc[p].pc \in PCs /\ proc[p].op \in Ops
  BY <1>1 DEF Rec
<1>3. CASE LookupAPInvoice(p)
  <2>1. CASE Finish(p)
    BY <1>1, <2>1, FinishMoves
  <2>2. CASE proc' = [proc EXCEPT ![p].pc = "info", ![p].info = erp[proc[p].msg].voucher]
    <3> DEFINE info == erp[proc[p].msg].voucher
    <3>1. proc[p].pc = "lookup" /\ proc[p].msg \in Msg /\ proc[p].op = "voucher"
      BY <1>1, <1>3 DEF LookupAPInvoice, OpAt
    <3>2. info \in PayStatus
      BY <3>1 DEF TypeInv, ErpType, InERP, PayStatus
    <3>3. proc' = [proc EXCEPT ![p] = [proc[p] EXCEPT !.pc = "info", !.read = proc[p].read,
                                                      !.list = proc[p].list, !.info = info]]
      BY <1>1, <2>2 DEF Rec
    <3> HIDE DEF info
    <3>4. "info" \in PCs
      BY DEF PCs
    <3> QED BY <1>1, <1>2, <3>1, <3>2, <3>3, <3>4, GoesOn
  <2> QED BY <1>3, <2>1, <2>2 DEF LookupAPInvoice
<1>4. CASE SetVoucherInfo(p)
  <2>1. CASE Finish(p)
    BY <1>1, <2>1, FinishMoves
  <2>2. ASSUME NEW pc \in {"get", "cats"}, pc = "cats" <=> proc[p].op # "manual",
               proc' = [proc EXCEPT ![p].pc = pc, ![p].info = ""]
        PROVE  Moves(p)
    <3>1. proc[p].pc = "info" /\ proc[p].op \in {"voucher", "manual"}
      BY <1>1, <1>4 DEF SetVoucherInfo, OpAt
    <3>2. proc' = [proc EXCEPT ![p] = [proc[p] EXCEPT !.pc = pc, !.read = proc[p].read,
                                                      !.list = proc[p].list, !.info = ""]]
      BY <1>1, <2>2 DEF Rec
    <3>3. pc \in PCs /\ "" \in PayStatus
      BY DEF PCs, PayStatus
    <3>4. /\ pc \notin {"lookup", "info", "patch", "update"} /\ proc[p].pc # "idle"
          /\ pc = "get" => proc[p].op \in {"manual", "resurface"}
          /\ pc = "cats" => proc[p].op \in {"voucher", "reconcile", "blocked"}
      BY <2>2, <3>1
    <3> QED BY <1>1, <1>2, <3>2, <3>3, <3>4, GoesOn
  <2>3. \/ Finish(p)
        \/ proc[p].op = "manual" /\ proc' = [proc EXCEPT ![p].pc = "get", ![p].info = ""]
        \/ proc[p].op # "manual" /\ proc' = [proc EXCEPT ![p].pc = "cats", ![p].info = ""]
    BY <1>4 DEF SetVoucherInfo
  <2> QED BY <2>1, <2>2, <2>3
<1>5. CASE GetCategories(p)
  <2>1. CASE Finish(p)
    BY <1>1, <2>1, FinishMoves
  <2>2. CASE proc' = [proc EXCEPT ![p].pc = "patch", ![p].read = cached[proc[p].msg],
                                  ![p].list = Wanted(proc[p].op, cached[proc[p].msg])]
    <3> DEFINE cats == cached[proc[p].msg]
               list == Wanted(proc[p].op, cats)
    <3>1. /\ proc[p].pc = "cats" /\ proc[p].msg \in Msg
          /\ proc[p].op \in {"voucher", "reconcile", "blocked"}
      BY <1>1, <1>5 DEF GetCategories, OpAt
    <3>2. cats \in SUBSET Category
      BY <3>1 DEF TypeInv, CatsType
    <3>3. "Done" \in Statuses /\ "New" \in Statuses
      BY DEF Statuses
    <3>4. list \in SUBSET Category
      BY <3>1, <3>2, <3>3, ListTypes DEF Wanted
    <3>5. Follows(list, cats, Decides(proc[p].op))
      BY <3>1, Following DEF Wanted, Decides
    <3> HIDE DEF list
    <3>6. proc' = [proc EXCEPT ![p] = [proc[p] EXCEPT !.pc = "patch", !.read = cats,
                                                      !.list = list, !.info = proc[p].info]]
      BY <1>1, <2>2 DEF Rec, list
    <3>7. "patch" \in PCs
      BY DEF PCs
    <3>8. cats = cached[proc[p].msg]
      OBVIOUS
    <3> HIDE DEF cats
    <3> QED BY <1>1, <1>2, <3>1, <3>2, <3>4, <3>5, <3>6, <3>7, <3>8, GoesOn
  <2> QED BY <1>5, <2>1, <2>2 DEF GetCategories
<1>6. CASE GetMessage(p)
  <2>1. CASE Finish(p)
    BY <1>1, <2>1, FinishMoves
  <2> DEFINE cats == outlook[proc[p].msg]
             done == ReplaceStatus(cats, "Done")
             new == ensureStatusNew(stripBlockerAndStatus(cats))
  <2>2. ASSUME NEW list, list = IF proc[p].op = "manual" THEN done ELSE new,
               proc' = [proc EXCEPT ![p].pc = "patch", ![p].read = cats, ![p].list = list]
        PROVE  Moves(p)
    <3>1. proc[p].pc = "get" /\ proc[p].msg \in Msg /\ proc[p].op \in {"manual", "resurface"}
      BY <1>1, <1>6 DEF GetMessage, OpAt
    <3>2. cats \in SUBSET Category
      BY <3>1 DEF TypeInv, CatsType
    <3>3. "Done" \in Statuses
      BY DEF Statuses
    <3>4. list \in SUBSET Category
      BY <2>2, <3>2, <3>3, ListTypes
    <3>5. Follows(list, cats, Decides(proc[p].op))
      BY <2>2, <3>1, Following DEF Decides
    <3>6. proc' = [proc EXCEPT ![p] = [proc[p] EXCEPT !.pc = "patch", !.read = cats,
                                                      !.list = list, !.info = proc[p].info]]
      BY <1>1, <2>2 DEF Rec
    <3>7. "patch" \in PCs
      BY DEF PCs
    <3>8. cats = outlook[proc[p].msg]
      OBVIOUS
    <3> HIDE DEF cats
    <3> QED BY <1>1, <1>2, <3>1, <3>2, <3>4, <3>5, <3>6, <3>7, <3>8, GoesOn
  <2>3. CASE Goto(p, "give-up")
    <3>1. proc' = [proc EXCEPT ![p] = [proc[p] EXCEPT !.pc = "give-up", !.read = proc[p].read,
                                                      !.list = proc[p].list,
                                                      !.info = proc[p].info]]
      BY <1>1, <2>3 DEF Rec, Goto
    <3>2. "give-up" \in PCs /\ proc[p].pc # "idle"
      BY <1>6 DEF PCs, GetMessage
    <3> QED BY <1>1, <1>2, <3>1, <3>2, GoesOn
  <2> QED BY <1>6, <2>1, <2>2, <2>3 DEF GetMessage
<1>7. CASE SetCategories(p)
  <2>1. CASE Finish(p)
    BY <1>1, <2>1, FinishMoves
  <2>2. CASE proc' = [proc EXCEPT ![p].pc = "update", ![p].read = {}]
    <3>1. proc' = [proc EXCEPT ![p] = [proc[p] EXCEPT !.pc = "update", !.read = {},
                                                      !.list = proc[p].list,
                                                      !.info = proc[p].info]]
      BY <1>1, <2>2 DEF Rec
    <3>2. "update" \in PCs /\ proc[p].pc = "patch" /\ {} \in SUBSET Category
      BY <1>7 DEF PCs, SetCategories
    <3> QED BY <1>1, <1>2, <3>1, <3>2, GoesOn
  <2> QED BY <1>7, <2>1, <2>2 DEF SetCategories
<1>8. CASE UpdateCategories(p)
  <2> DEFINE next == AfterUpdate(proc[p].op)
  <2>1. CASE Finish(p)
    BY <1>1, <2>1, FinishMoves
  <2>2. CASE next # "end" /\ proc' = [proc EXCEPT ![p].pc = next, ![p].list = {}]
    <3>1. proc' = [proc EXCEPT ![p] = [proc[p] EXCEPT !.pc = next, !.read = proc[p].read,
                                                      !.list = {}, !.info = proc[p].info]]
      BY <1>1, <2>2 DEF Rec
    <3>2. next \in {"clear", "stamp"}
      BY <1>2, <2>2 DEF AfterUpdate, Ops
    <3> HIDE DEF next
    <3>3. next \in PCs /\ proc[p].pc # "idle" /\ {} \in SUBSET Category
      BY <1>8, <3>2 DEF PCs, UpdateCategories
    <3>4. next \notin {"lookup", "info", "cats", "get", "patch", "update"}
      BY <3>2
    <3> QED BY <1>1, <1>2, <3>1, <3>3, <3>4, GoesOn
  <2> QED BY <1>8, <2>1, <2>2 DEF UpdateCategories
<1>9. CASE SetFollowup(p)
  BY <1>1, <1>9, FinishMoves DEF SetFollowup
<1>10. CASE ClearFollowup(p)
  BY <1>1, <1>10, FinishMoves DEF ClearFollowup
<1> QED BY <1>3, <1>4, <1>5, <1>6, <1>7, <1>8, <1>9, <1>10 DEF Step

\* A request starts from Outlook's list, or goes to the ERP.
LEMMA RequestMoves ==
    ASSUME TypeInv, NEW c \in Clerks, HandleRequest(c)
    PROVE  Moves(c)
<1>1. PICK m \in Msg :
        \/ handleClaim(c, m) \/ handleStatus(c, m) \/ handleBlocker(c, m) \/ handleClearKind(c, m)
        \/ handleAPPickup(c, m) \/ handleAPAssign(c, m) \/ handleAPHold(c, m)
        \/ handleManualEntry(c, m) \/ handleRecheckVoucher(c, m)
  BY DEF HandleRequest
<1>2. /\ c \in Procs /\ c # "voucher" /\ c # "sweep" /\ c \in Owners
  BY Distinct, WorkflowAssumption
<1>3. outlook[m] \in SUBSET Category
  BY DEF TypeInv, CatsType
<1>4. ASSUME NEW op \in Ops, NEW list \in SUBSET Category,
             Follows(list, outlook[m], Decides(op)), Begin(c, op, m, list)
      PROVE  Moves(c)
  <2> DEFINE r == [Idle EXCEPT !.pc = "patch", !.op = op, !.msg = m, !.read = outlook[m],
                               !.list = list]
  <2>1. /\ r \in Rec /\ r.pc = "patch" /\ r.op = op /\ r.msg = m
        /\ r.read = outlook[m] /\ r.list = list
    BY <1>3 DEF Idle, Rec, PCs, PayStatus
  <2>2. proc' = [proc EXCEPT ![c] = r]
    BY <1>4 DEF Begin
  <2> HIDE DEF r
  <2>3. OpAt(c, r)
    BY <1>2, <2>1 DEF OpAt
  <2>4. Sourced(c, r)
    BY <1>4, <2>1 DEF Sourced
  <2> QED BY <2>1, <2>2, <2>3, <2>4 DEF Moves, Turns
<1>5. ASSUME NEW pc \in {"info", "lookup"}, NEW op \in {"manual", "voucher"}, NEW info \in PayStatus,
             pc = "lookup" => op = "voucher",
             proc' = [proc EXCEPT ![c] = [Idle EXCEPT !.pc = pc, !.op = op, !.msg = m, !.info = info]]
      PROVE  Moves(c)
  <2> DEFINE r == [Idle EXCEPT !.pc = pc, !.op = op, !.msg = m, !.info = info]
  <2>1. r \in Rec /\ r.pc = pc /\ r.op = op /\ r.msg = m
    BY DEF Idle, Rec, PCs, Ops
  <2>2. proc' = [proc EXCEPT ![c] = r]
    BY <1>5
  <2> HIDE DEF r
  <2>3. OpAt(c, r)
    BY <1>2, <1>5, <2>1 DEF OpAt
  <2>4. Sourced(c, r)
    BY <2>1 DEF Sourced
  <2> QED BY <2>1, <2>2, <2>3, <2>4 DEF Moves, Turns
<1>6. {"claim", "status", "blocker", "clear-kind", "assign", "pickup"} \subseteq Ops
  BY DEF Ops
<1>7. ASSUME NEW x \in SUBSET Category, NEW owner \in SUBSET Owners
      PROVE  ReplaceOwner(x, owner) \in SUBSET Category /\ Follows(ReplaceOwner(x, owner), x, {"Owner"})
  BY ListTypes, Following
<1>8. ASSUME NEW x \in SUBSET Category, NEW status \in Statuses
      PROVE  ReplaceStatus(x, status) \in SUBSET Category /\ Follows(ReplaceStatus(x, status), x, {"Status"})
  BY ListTypes, Following
<1>9. ASSUME NEW x \in SUBSET Category, NEW name \in BlockerOptions
      PROVE  /\ ToggleBlocker(x, name) \in SUBSET Category
             /\ Follows(ToggleBlocker(x, name), x, {"Status", "Blocker"})
  BY ListTypes, Following
<1>10. "In Progress" \in Statuses
  BY DEF Statuses
<1>11. CASE handleClaim(c, m)
  <2> DEFINE owner == IF c \in ownerFrom(outlook[m]) THEN {} ELSE {c}
  <2>1. owner \in SUBSET Owners
    BY <1>2
  <2>2. Begin(c, "claim", m, ReplaceOwner(outlook[m], owner))
    BY <1>11 DEF handleClaim
  <2>3. Decides("claim") = {"Owner"}
    BY DEF Decides
  <2> HIDE DEF owner
  <2> QED BY <1>3, <1>4, <1>6, <1>7, <2>1, <2>2, <2>3
<1>12. CASE handleStatus(c, m)
  <2>1. PICK status \in MenuStatuses : Begin(c, "status", m, ReplaceStatus(outlook[m], status))
    BY <1>12 DEF handleStatus
  <2>2. status \in Statuses
    BY WorkflowAssumption
  <2>3. Decides("status") = {"Status"}
    BY DEF Decides
  <2> QED BY <1>3, <1>4, <1>6, <1>8, <2>1, <2>2, <2>3
<1>13. CASE handleBlocker(c, m)
  <2>1. PICK name \in MenuBlockers : Begin(c, "blocker", m, ToggleBlocker(outlook[m], name))
    BY <1>13 DEF handleBlocker
  <2>2. name \in BlockerOptions
    BY WorkflowAssumption
  <2>3. Decides("blocker") = {"Status", "Blocker"}
    BY DEF Decides
  <2> QED BY <1>3, <1>4, <1>6, <1>9, <2>1, <2>2, <2>3
<1>14. CASE handleClearKind(c, m)
  <2>1. Decides("clear-kind") = {"Kind"}
    BY DEF Decides
  <2> QED BY <1>3, <1>4, <1>6, <1>14, <2>1, ListTypes, Following DEF handleClearKind
<1>15. ASSUME NEW op \in {"pickup", "assign"}, NEW owner \in SUBSET Owners,
              Begin(c, op, m, ReplaceStatus(ReplaceOwner(outlook[m], owner), "In Progress"))
       PROVE  Moves(c)
  <2> DEFINE owned == ReplaceOwner(outlook[m], owner)
             list == ReplaceStatus(owned, "In Progress")
  <2>1. owned \in SUBSET Category /\ Follows(owned, outlook[m], {"Owner"})
    BY <1>3, <1>7
  <2>2. list \in SUBSET Category /\ Follows(list, owned, {"Status"})
    BY <1>8, <1>10, <2>1
  <2>3. Begin(c, op, m, list)
    BY <1>15
  <2> HIDE DEF owned, list
  <2>4. Follows(list, outlook[m], {"Status", "Owner"})
    BY <2>1, <2>2, FollowsOn
  <2>5. Decides(op) = {"Status", "Owner"} /\ op \in Ops
    BY DEF Decides, Ops
  <2> QED BY <1>4, <2>2, <2>3, <2>4, <2>5
<1>16. CASE handleAPPickup(c, m) \/ handleAPAssign(c, m)
  <2>1. \A target \in Owners : {target} \in SUBSET Owners
    OBVIOUS
  <2> QED BY <1>2, <1>15, <1>16, <2>1 DEF handleAPPickup, handleAPAssign
<1>17. CASE handleAPHold(c, m)
  <2>1. PICK reason \in HoldReasons :
          Begin(c, IF reason = "wont-pay" THEN "close" ELSE "hold", m,
                ToggleBlocker(ReplaceOwner(outlook[m], {c}), Blocker(reason)))
    BY <1>17 DEF handleAPHold
  <2> DEFINE name == Blocker(reason)
             op == IF reason = "wont-pay" THEN "close" ELSE "hold"
             owned == ReplaceOwner(outlook[m], {c})
             list == ToggleBlocker(owned, name)
  <2>2. name \in BlockerOptions
    <3>1. reason \in {"ask-buyer", "ask-vendor", "pricing", "po", "wont-pay"}
      BY WorkflowAssumption
    <3> QED BY <3>1 DEF Blocker, BlockerOptions
  <2>3. op \in Ops /\ Decides(op) = {"Status", "Blocker", "Owner"}
    BY DEF Ops, Decides
  <2>4. Begin(c, op, m, list)
    BY <2>1
  <2> HIDE DEF name, op
  <2>5. owned \in SUBSET Category /\ Follows(owned, outlook[m], {"Owner"})
    BY <1>2, <1>3, <1>7
  <2> HIDE DEF owned
  <2>6. list \in SUBSET Category /\ Follows(list, owned, {"Status", "Blocker"})
    BY <1>9, <2>2, <2>5
  <2> HIDE DEF list
  <2>7. Follows(list, outlook[m], {"Status", "Blocker", "Owner"})
    BY <2>5, <2>6, FollowsOn
  <2> QED BY <1>4, <2>3, <2>4, <2>6, <2>7
<1>18. CASE handleManualEntry(c, m)
  <2>1. \/ proc' = [proc EXCEPT ![c] = Idle]
        \/ proc' = [proc EXCEPT ![c] =
             [Idle EXCEPT !.pc = "info", !.op = "manual", !.msg = m, !.info = "posted"]]
    BY <1>18 DEF handleManualEntry
  <2>2. CASE proc' = [proc EXCEPT ![c] = Idle]
    <3>1. Turns(c, Idle) /\ Sourced(c, Idle)
      BY <1>2, <2>2, IdleType DEF Turns, OpAt, Sourced
    <3> QED BY <3>1 DEF Moves
  <2>3. "posted" \in PayStatus
    BY DEF PayStatus
  <2> QED BY <1>5, <2>1, <2>2, <2>3
<1>19. CASE handleRecheckVoucher(c, m)
  <2> DEFINE r == [Idle EXCEPT !.pc = "lookup", !.op = "voucher", !.msg = m]
  <2>1. r \in Rec /\ r.pc = "lookup" /\ r.op = "voucher" /\ r.msg = m
    BY DEF Idle, Rec, PCs, Ops, PayStatus
  <2>2. proc' = [proc EXCEPT ![c] = r]
    BY <1>19 DEF handleRecheckVoucher
  <2> HIDE DEF r
  <2>3. OpAt(c, r)
    BY <1>2, <2>1 DEF OpAt
  <2>4. Sourced(c, r)
    BY <2>1 DEF Sourced
  <2> QED BY <2>1, <2>2, <2>3, <2>4 DEF Moves, Turns
<1> QED BY <1>1, <1>11, <1>12, <1>13, <1>14, <1>16, <1>17, <1>18, <1>19

LEMMA PassMoves ==
    ASSUME TypeInv, NEW p \in Tickers, NEW after, NEW op, NEW todo \in SUBSET Msg,
           p = "voucher" => op \in {"voucher", "reconcile", "blocked"},
           p = "sweep" => op = "resurface",
           Pass(p, after, op, todo)
    PROVE  Moves(p)
<1>1. p \in Procs /\ ProcInv /\ proc[p] \in Rec /\ OpAt(p, proc[p])
  BY DEF Procs, TypeInv, ProcInv
<1>2. CASE \E r \in Continue(op, todo) : proc' = [proc EXCEPT ![p] = r]
  <2>1. PICK r \in Continue(op, todo) : proc' = [proc EXCEPT ![p] = r]
    BY <1>2
  <2>2. r \in Rec /\ OpAt(p, r) /\ r.pc \notin {"patch", "update"}
    BY ContinueType
  <2> QED BY <2>1, <2>2 DEF Moves, Turns, Sourced
<1>3. CASE proc[p].pc = "idle" /\ proc' = [proc EXCEPT ![p].op = op]
  <2> DEFINE r == [proc[p] EXCEPT !.op = op]
  <2>1. op \in Ops
    BY DEF Tickers, Ops
  <2>2. r \in Rec /\ r.pc = "idle" /\ r.op = op
    BY <1>1, <1>3, <2>1 DEF Rec
  <2>3. proc' = [proc EXCEPT ![p] = r]
    BY <1>3
  <2> HIDE DEF r
  <2>4. OpAt(p, r) /\ Sourced(p, r)
    BY <2>2 DEF OpAt, Sourced
  <2> QED BY <2>2, <2>3, <2>4 DEF Moves, Turns
<1> QED BY <1>2, <1>3 DEF Pass

-----------------------------------------------------------------------------
(* Types, continued. *)

LEMMA MovesType ==
    ASSUME ProcInv, NEW p \in Procs, Moves(p)
    PROVE  ProcInv'
BY TurnsType DEF Moves

LEMMA RowTypes ==
    ASSUME NEW x \in ExtRow
    PROVE  /\ \A pay \in PayStatus : [x EXCEPT !.pay = pay, !.recent = TRUE] \in ExtRow
           /\ \A po \in BOOLEAN : \A data \in {"none", "partial", "numbered"} :
                [x EXCEPT !.po = po, !.data = data] \in ExtRow
           /\ [x EXCEPT !.recent = FALSE] \in ExtRow
<1>1. ASSUME NEW pay \in PayStatus PROVE [x EXCEPT !.pay = pay, !.recent = TRUE] \in ExtRow
  BY DEF ExtRow
<1>2. ASSUME NEW po \in BOOLEAN, NEW data \in {"none", "partial", "numbered"}
      PROVE  [x EXCEPT !.po = po, !.data = data] \in ExtRow
  BY DEF ExtRow
<1>3. [x EXCEPT !.recent = FALSE] \in ExtRow
  BY DEF ExtRow
<1> QED BY <1>1, <1>2, <1>3

LEMMA RowStored ==
    ASSUME ExtType, NEW m \in Msg, NEW x \in ExtRow, ext' = [ext EXCEPT ![m] = x]
    PROVE  ExtType'
BY DEF ExtType

\* The other variables after a step of a process.
LEMMA StepType ==
    ASSUME TypeInv, NEW p \in Procs, Step(p)
    PROVE  CatsType' /\ ExtType' /\ FollowupType' /\ ErpType' /\ SpentType'
<1>1. proc[p] \in Rec /\ OpAt(p, proc[p])
  BY DEF TypeInv, ProcInv
<1>2. proc[p].list \in SUBSET Category /\ proc[p].info \in PayStatus
  BY <1>1 DEF Rec
<1>3. SpentType'
  BY SpentTypes DEF TypeInv, Step, LookupAPInvoice, SetVoucherInfo, GetCategories, GetMessage,
                    SetCategories, UpdateCategories, SetFollowup, ClearFollowup
<1>4. ErpType'
  BY DEF TypeInv, ErpType, Step, LookupAPInvoice, SetVoucherInfo, GetCategories, GetMessage,
         SetCategories, UpdateCategories, SetFollowup, ClearFollowup
<1>5. CASE SetVoucherInfo(p)
  <2>1. proc[p].msg \in Msg
    BY <1>1, <1>5 DEF SetVoucherInfo, OpAt
  <2>2. ExtType'
    <3> DEFINE x == [ext[proc[p].msg] EXCEPT !.pay = proc[p].info, !.recent = TRUE]
    <3>1. ExtType /\ ext[proc[p].msg] \in ExtRow
      BY <2>1 DEF TypeInv, ExtType
    <3>2. x \in ExtRow
      BY <1>2, <3>1, RowTypes
    <3>3. \/ ext' = [ext EXCEPT ![proc[p].msg].pay = proc[p].info, ![proc[p].msg].recent = TRUE]
          \/ UNCHANGED ext
      BY <1>5 DEF SetVoucherInfo
    <3>4. CASE ext' = [ext EXCEPT ![proc[p].msg].pay = proc[p].info, ![proc[p].msg].recent = TRUE]
      <4>1. ext' = [ext EXCEPT ![proc[p].msg] = x]
        BY <2>1, <3>1, <3>4 DEF ExtType
      <4> HIDE DEF x
      <4> QED BY <2>1, <3>1, <3>2, <4>1, RowStored
    <3>5. CASE UNCHANGED ext
      BY <3>1, <3>5 DEF ExtType
    <3> QED BY <3>3, <3>4, <3>5
  <2> QED BY <1>3, <1>4, <1>5, <2>2 DEF TypeInv, CatsType, FollowupType, SetVoucherInfo
<1>6. CASE SetCategories(p)
  <2>1. proc[p].msg \in Msg
    BY <1>1, <1>6 DEF SetCategories, OpAt
  <2>2. outlook' \in [Msg -> SUBSET Category] /\ changed' \subseteq Msg
    BY <1>2, <1>6, <2>1 DEF TypeInv, CatsType, SetCategories
  <2> QED BY <1>3, <1>4, <1>6, <2>2 DEF TypeInv, CatsType, ExtType, FollowupType, SetCategories
<1>7. CASE UpdateCategories(p)
  <2>1. cached' \in [Msg -> SUBSET Category]
    BY <1>2, <1>7 DEF TypeInv, CatsType, UpdateCategories
  <2> QED BY <1>3, <1>4, <1>7, <2>1 DEF TypeInv, CatsType, ExtType, FollowupType, UpdateCategories
<1>8. CASE SetFollowup(p) \/ ClearFollowup(p)
  <2>1. FollowupType'
    BY <1>8 DEF TypeInv, FollowupType, SetFollowup, ClearFollowup
  <2> QED BY <1>3, <1>4, <1>8, <2>1 DEF TypeInv, CatsType, ExtType, SetFollowup, ClearFollowup
<1>9. CASE LookupAPInvoice(p) \/ GetCategories(p) \/ GetMessage(p)
  BY <1>3, <1>4, <1>9 DEF TypeInv, CatsType, ExtType, FollowupType, LookupAPInvoice, GetCategories,
                          GetMessage
<1> QED BY <1>5, <1>6, <1>7, <1>8, <1>9 DEF Step

LEMMA RequestType ==
    ASSUME TypeInv, NEW c \in Clerks, HandleRequest(c)
    PROVE  CatsType' /\ ExtType' /\ FollowupType' /\ ErpType' /\ SpentType'
<1>1. PICK m \in Msg :
        \/ \E op, list : Begin(c, op, m, list)
        \/ handleManualEntry(c, m)
        \/ handleRecheckVoucher(c, m)
  BY DEF HandleRequest, handleClaim, handleStatus, handleBlocker, handleClearKind, handleAPPickup,
         handleAPAssign, handleAPHold
<1>2. CASE \E op, list : Begin(c, op, m, list)
  BY <1>2, SpentTypes DEF TypeInv, CatsType, ExtType, FollowupType, ErpType, Begin
<1>3. CASE handleManualEntry(c, m)
  <2>1. SpentType'
    BY <1>3, SpentTypes DEF TypeInv, handleManualEntry
  <2>2. ExtType'
    <3>1. PICK po, number \in BOOLEAN :
            ext' = [ext EXCEPT ![m].po = po, ![m].data = IF number THEN "numbered" ELSE "partial"]
      BY <1>3 DEF handleManualEntry
    <3> DEFINE data == IF number THEN "numbered" ELSE "partial"
               x == [ext[m] EXCEPT !.po = po, !.data = data]
    <3>2. ExtType /\ ext[m] \in ExtRow /\ data \in {"none", "partial", "numbered"}
      BY DEF TypeInv, ExtType
    <3>3. ext' = [ext EXCEPT ![m].po = po, ![m].data = data]
      BY <3>1
    <3> HIDE DEF data
    <3>4. x \in ExtRow
      BY <3>2, RowTypes
    <3>5. ext' = [ext EXCEPT ![m] = x]
      BY <3>2, <3>3 DEF ExtType
    <3> HIDE DEF x
    <3> QED BY <3>2, <3>4, <3>5, RowStored
  <2> QED BY <1>3, <2>1, <2>2 DEF TypeInv, CatsType, FollowupType, ErpType, handleManualEntry
<1>4. CASE handleRecheckVoucher(c, m)
  BY <1>4, SpentTypes DEF TypeInv, CatsType, ExtType, FollowupType, ErpType, handleRecheckVoucher
<1> QED BY <1>1, <1>2, <1>3, <1>4

\* The step a process takes, for the invariants that follow.
LEMMA ProcessMoves ==
    ASSUME TypeInv
    PROVE  /\ \A c \in Clerks : HandleRequest(c) => Moves(c)
           /\ \A p \in Procs : Step(p) => Moves(p)
           /\ (reconcileDoneUnposted \/ recheckBlocked \/ doVoucherSync) => Moves("voucher")
           /\ doFollowupSweep => Moves("sweep")
<1>1. /\ ListDoneUnpostedConflicts \in SUBSET Msg /\ ListBlockedMessages \in SUBSET Msg
      /\ ListERPSyncCandidates \in SUBSET Msg /\ ListFollowupsDue \in SUBSET Msg
  BY DEF ListDoneUnpostedConflicts, ListBlockedMessages, ListERPSyncCandidates, ListFollowupsDue
<1>2. reconcileDoneUnposted => Moves("voucher")
  BY <1>1, PassMoves DEF reconcileDoneUnposted, Tickers
<1>3. recheckBlocked => Moves("voucher")
  BY <1>1, PassMoves DEF recheckBlocked, Tickers
<1>4. doVoucherSync => Moves("voucher")
  BY <1>1, PassMoves DEF doVoucherSync, Tickers
<1>5. doFollowupSweep => Moves("sweep")
  BY <1>1, PassMoves DEF doFollowupSweep, Tickers
<1> QED BY <1>2, <1>3, <1>4, <1>5, RequestMoves, StepMoves

LEMMA StartType ==
    /\ proc = AtStart => ProcInv
    /\ proc' = AtStart => ProcInv'
<1>1. ASSUME NEW p \in Procs PROVE AtStart[p] \in Rec /\ OpAt(p, AtStart[p])
  <2> DEFINE op == CASE p = "voucher" -> "voucher" [] p = "sweep" -> "resurface" [] OTHER -> "none"
  <2>1. AtStart[p] = [Idle EXCEPT !.op = op]
    BY DEF AtStart
  <2>2. op \in Ops /\ (p = "voucher" => op = "voucher") /\ (p = "sweep" => op = "resurface")
    BY DEF Ops
  <2> HIDE DEF op
  <2>3. AtStart[p] \in Rec
    BY <2>1, <2>2, IdleType
  <2>4. AtStart[p].pc = "idle" /\ AtStart[p].op = op
    BY <2>1 DEF Idle
  <2> QED BY <2>2, <2>3, <2>4 DEF OpAt
<1>2. AtStart \in [Procs -> Rec]
  <2>1. DOMAIN AtStart = Procs /\ AtStart = [p \in Procs |-> AtStart[p]]
    BY DEF AtStart
  <2> QED BY <1>1, <2>1
<1> QED BY <1>1, <1>2 DEF ProcInv, OpAt

LEMMA TypeInit == Init => TypeInv
<1> SUFFICES ASSUME Init PROVE TypeInv
  OBVIOUS
<1>1. ProcInv
  BY StartType DEF Init
<1>2. CatsType
  BY WorkflowAssumption DEF Init, CatsType
<1>3. ExtType
  <2>1. ASSUME NEW po \in BOOLEAN, NEW data \in {"none", "partial", "numbered"}
        PROVE  [po |-> po, data |-> data, pay |-> "", recent |-> FALSE] \in ExtRow
    BY DEF ExtRow, PayStatus
  <2> DEFINE po(m) == m \in Tracked
             data(m) == IF m \in Tracked THEN "numbered" ELSE "none"
             row(m) == [po |-> po(m), data |-> data(m), pay |-> "", recent |-> FALSE]
  <2>2. ext = [m \in Msg |-> row(m)]
    BY DEF Init
  <2>3. ASSUME NEW m \in Msg PROVE po(m) \in BOOLEAN /\ data(m) \in {"none", "partial", "numbered"}
    OBVIOUS
  <2> HIDE DEF po, data
  <2>4. ASSUME NEW m \in Msg PROVE row(m) \in ExtRow
    BY <2>1, <2>3
  <2> HIDE DEF row
  <2> QED BY <2>2, <2>4 DEF ExtType
<1>4. FollowupType
  BY WorkflowAssumption DEF Init, FollowupType
<1>5. ErpType
  <2>1. \A x \in [voucher : Vouchers, agrees : Agreements] : x \in [voucher : InERP, agrees : BOOLEAN]
    BY WorkflowAssumption DEF InERP
  <2>2. erp \in [Msg -> [voucher : Vouchers, agrees : Agreements]]
    BY DEF Init
  <2> QED BY <2>1, <2>2 DEF ErpType
<1>6. SpentType
  <2>1. MaxRequests \in Nat /\ MaxFaults \in Nat /\ MaxErp \in Nat /\ MaxEdits \in Nat
    BY WorkflowAssumption
  <2>2. spent = [requests |-> 0, faults |-> 0, erp |-> 0, edits |-> 0]
    BY DEF Init, NoSpending
  <2> QED BY <2>1, <2>2 DEF SpentType
<1> QED BY <1>1, <1>2, <1>3, <1>4, <1>5, <1>6 DEF TypeInv

LEMMA TypeStep == TypeInv /\ [Next]_vars => TypeInv'
<1> SUFFICES ASSUME TypeInv, [Next]_vars PROVE TypeInv'
  OBVIOUS
<1>1. CASE \E c \in Clerks : HandleRequest(c) \/ Step(c)
  <2>1. PICK c \in Clerks : HandleRequest(c) \/ Step(c)
    BY <1>1
  <2>2. c \in Procs
    BY Distinct
  <2>3. ProcInv'
    BY <2>1, <2>2, ProcessMoves, MovesType DEF TypeInv
  <2> QED BY <2>1, <2>2, <2>3, RequestType, StepType DEF TypeInv
<1>2. ASSUME NEW p \in Tickers, Step(p) PROVE TypeInv'
  <2>1. p \in Procs
    BY DEF Procs
  <2>2. ProcInv'
    BY <1>2, <2>1, ProcessMoves, MovesType DEF TypeInv
  <2> QED BY <1>2, <2>1, <2>2, StepType DEF TypeInv
<1>3. CASE reconcileDoneUnposted \/ recheckBlocked \/ doVoucherSync \/ doFollowupSweep
  <2>1. PICK p \in Tickers : \E after, op, todo : Pass(p, after, op, todo)
    BY <1>3 DEF reconcileDoneUnposted, recheckBlocked, doVoucherSync, doFollowupSweep, Tickers
  <2>2. ProcInv'
    BY <1>3, Distinct, ProcessMoves, MovesType DEF TypeInv
  <2>3. SpentType'
    BY <2>1, SpentTypes DEF TypeInv, Pass
  <2> QED BY <2>1, <2>2, <2>3 DEF TypeInv, Pass, CatsType, ExtType, FollowupType, ErpType
<1>4. CASE ListInboxDelta
  <2>1. \A m \in Msg : outlook[m] \in SUBSET Category
    BY DEF TypeInv, CatsType
  <2>2. batch' \subseteq Msg \X SUBSET Category /\ changed' \subseteq Msg
    BY <1>4, <2>1 DEF TypeInv, CatsType, ListInboxDelta
  <2> QED BY <1>4, <2>2 DEF TypeInv, ProcInv, OpAt, CatsType, ExtType, FollowupType, ErpType,
                            SpentType, ListInboxDelta
<1>5. CASE UpsertMessage
  <2>1. PICK e \in batch : cached' = [cached EXCEPT ![e[1]] = e[2]] /\ batch' = batch \ {e}
    BY <1>5 DEF UpsertMessage
  <2>2. e[1] \in Msg /\ e[2] \in SUBSET Category
    BY DEF TypeInv, CatsType
  <2>3. cached' \in [Msg -> SUBSET Category] /\ batch' \subseteq Msg \X SUBSET Category
    BY <2>1, <2>2 DEF TypeInv, CatsType
  <2> QED BY <1>5, <2>3 DEF TypeInv, ProcInv, OpAt, CatsType, ExtType, FollowupType, ErpType,
                            SpentType, UpsertMessage
<1>6. ASSUME NEW m \in Msg, FallsDue(m) PROVE TypeInv'
  <2>1. FollowupType'
    BY <1>6 DEF TypeInv, FollowupType, FallsDue
  <2> QED BY <1>6, <2>1 DEF TypeInv, ProcInv, OpAt, CatsType, ExtType, ErpType, SpentType, FallsDue
<1>7. ASSUME NEW m \in Msg, GrowsStale(m) PROVE TypeInv'
  <2> DEFINE x == [ext[m] EXCEPT !.recent = FALSE]
  <2>1. ExtType /\ ext[m] \in ExtRow
    BY DEF TypeInv, ExtType
  <2>2. x \in ExtRow
    BY <2>1, RowTypes
  <2>3. ext' = [ext EXCEPT ![m] = x]
    BY <1>7, <2>1 DEF ExtType, GrowsStale
  <2> HIDE DEF x
  <2>4. ExtType'
    BY <2>1, <2>2, <2>3, RowStored
  <2> QED BY <1>7, <2>4 DEF TypeInv, ProcInv, OpAt, CatsType, FollowupType, ErpType, SpentType,
                            GrowsStale
<1>8. ASSUME NEW m \in Msg, ERPChange(m) PROVE TypeInv'
  <2>1. SpentType'
    <3>1. spent.erp < MaxErp /\ spent' = [spent EXCEPT !.erp = spent.erp + 1]
      BY <1>8 DEF ERPChange
    <3> QED BY <3>1, WorkflowAssumption DEF TypeInv, SpentType
  <2>2. ErpType'
    <3>1. erp[m] \in [voucher : InERP, agrees : BOOLEAN]
      BY DEF TypeInv, ErpType
    <3>2. PICK x \in [voucher : InERP, agrees : BOOLEAN] : erp' = [erp EXCEPT ![m] = x]
      <4>1. CASE \E v \in InERP : erp' = [erp EXCEPT ![m].voucher = v]
        <5>1. PICK v \in InERP : erp' = [erp EXCEPT ![m].voucher = v]
          BY <4>1
        <5>2. erp' = [erp EXCEPT ![m] = [erp[m] EXCEPT !.voucher = v]]
          BY <5>1 DEF TypeInv, ErpType
        <5>3. [erp[m] EXCEPT !.voucher = v] \in [voucher : InERP, agrees : BOOLEAN]
          BY <3>1
        <5> QED BY <5>2, <5>3
      <4>2. CASE erp' = [erp EXCEPT ![m].agrees = TRUE]
        <5>1. erp' = [erp EXCEPT ![m] = [erp[m] EXCEPT !.agrees = TRUE]]
          BY <4>2 DEF TypeInv, ErpType
        <5>2. [erp[m] EXCEPT !.agrees = TRUE] \in [voucher : InERP, agrees : BOOLEAN]
          BY <3>1
        <5> QED BY <5>1, <5>2
      <4> QED BY <1>8, <4>1, <4>2 DEF ERPChange
    <3> QED BY <3>2 DEF TypeInv, ErpType
  <2> QED BY <1>8, <2>1, <2>2 DEF TypeInv, ProcInv, OpAt, CatsType, ExtType, FollowupType, ERPChange
<1>9. CASE Restart
  <2>1. ProcInv'
    BY <1>9, StartType DEF Restart
  <2>2. SpentType'
    BY <1>9, SpentTypes DEF TypeInv, Restart
  <2>3. changed' \subseteq Msg
    <3>1. \A e \in batch : e[1] \in Msg
      BY DEF TypeInv, CatsType
    <3> QED BY <1>9, <3>1 DEF TypeInv, CatsType, Restart
  <2> QED BY <1>9, <2>1, <2>2, <2>3 DEF TypeInv, CatsType, ExtType, FollowupType, ErpType, Restart
<1>10. ASSUME NEW m \in Msg, OthersEdit(m) PROVE TypeInv'
  <2>1. SpentType'
    <3>1. spent.edits < MaxEdits /\ spent' = [spent EXCEPT !.edits = spent.edits + 1]
      BY <1>10 DEF OthersEdit
    <3> QED BY <3>1, WorkflowAssumption DEF TypeInv, SpentType
  <2>2. CatsType'
    <3>1. PICK c \in Category :
            outlook' = [outlook EXCEPT ![m] = IF c \in @ THEN @ \ {c} ELSE @ \cup {c}]
      BY <1>10, WorkflowAssumption DEF OthersEdit
    <3>2. outlook' \in [Msg -> SUBSET Category]
      BY <3>1 DEF TypeInv, CatsType
    <3> QED BY <1>10, <3>2 DEF TypeInv, CatsType, OthersEdit
  <2> QED BY <1>10, <2>1, <2>2 DEF TypeInv, ProcInv, OpAt, ExtType, FollowupType, ErpType, OthersEdit
<1>11. CASE UNCHANGED vars
  BY <1>11 DEF TypeInv, ProcInv, OpAt, CatsType, ExtType, FollowupType, ErpType, SpentType, vars
<1> QED BY <1>1, <1>2, <1>3, <1>4, <1>5, <1>6, <1>7, <1>8, <1>9, <1>10, <1>11, Distinct
        DEF Next, runVoucherSync, runFollowupSweep, SyncInbox

\* Every variable keeps its type, whatever the requests, passes, faults and
\* restarts.
THEOREM TypeCorrect == Spec => []TypeOK
<1>1. TypeInv => TypeOK
  BY DEF TypeInv, TypeOK, ProcInv, Rec, CatsType, ExtType, ExtRow, FollowupType, ErpType, SpentType
<1> QED BY <1>1, TypeInit, TypeStep, PTL DEF Spec

-----------------------------------------------------------------------------
(* The lists: each has one status if every message started so, wherever it  *)
(* is kept.                                                                  *)

AllOne == \A cats \in Lists : One(cats)

Fits(cats) == AllOne => One(cats)

Stored == \A m \in Msg : Fits(outlook[m]) /\ Fits(cached[m])

Sent == \A p \in Procs : proc[p].pc \in Writing => Fits(proc[p].list)

Received == \A e \in batch : Fits(e[2])

ListInv == Stored /\ Sent /\ Received

LEMMA RequestFrame ==
    ASSUME NEW c, HandleRequest(c)
    PROVE  UNCHANGED <<outlook, cached, batch>>
<1>1. PICK m \in Msg :
        \/ \E op, list : Begin(c, op, m, list)
        \/ handleManualEntry(c, m)
        \/ handleRecheckVoucher(c, m)
  BY DEF HandleRequest, handleClaim, handleStatus, handleBlocker, handleClearKind, handleAPPickup,
         handleAPAssign, handleAPHold
<1> QED BY <1>1 DEF Begin, handleManualEntry, handleRecheckVoucher

LEMMA StepFrame ==
    ASSUME NEW p, Step(p)
    PROVE  /\ SetCategories(p) \/ UNCHANGED outlook
           /\ UpdateCategories(p) \/ UNCHANGED cached
           /\ UNCHANGED batch
BY DEF Step, LookupAPInvoice, SetVoucherInfo, GetCategories, GetMessage, SetCategories,
       UpdateCategories, SetFollowup, ClearFollowup

LEMMA NextFrame ==
    ASSUME [Next]_vars
    PROVE  /\ \/ \E p \in Procs : SetCategories(p)
              \/ \E m \in Msg : OthersEdit(m)
              \/ UNCHANGED outlook
           /\ (\E p \in Procs : UpdateCategories(p)) \/ UpsertMessage \/ UNCHANGED cached
           /\ ListInboxDelta \/ batch' \subseteq batch
<1>1. CASE \E c \in Clerks : HandleRequest(c)
  BY <1>1, RequestFrame
<1>2. CASE \E p \in Procs : Step(p)
  BY <1>2, StepFrame
<1>3. CASE reconcileDoneUnposted \/ recheckBlocked \/ doVoucherSync \/ doFollowupSweep
  BY <1>3 DEF reconcileDoneUnposted, recheckBlocked, doVoucherSync, doFollowupSweep, Pass
<1>4. CASE SyncInbox \/ Restart \/ UNCHANGED vars
  BY <1>4 DEF SyncInbox, ListInboxDelta, UpsertMessage, Restart, vars
<1>5. CASE \E m \in Msg : FallsDue(m) \/ GrowsStale(m) \/ ERPChange(m) \/ OthersEdit(m)
  BY <1>5 DEF FallsDue, GrowsStale, ERPChange, OthersEdit
<1> QED BY <1>1, <1>2, <1>3, <1>4, <1>5, Distinct DEF Next, runVoucherSync, runFollowupSweep

\* What may become of the lists in Outlook: a PATCH sends one that fits, and
\* others leave the status alone.
LEMMA OutlookKept ==
    ASSUME TypeInv, ListInv, [Next]_vars
    PROVE  \A m \in Msg : Fits(outlook'[m])
<1>1. outlook \in [Msg -> SUBSET Category] /\ \A m \in Msg : Fits(outlook[m])
  BY DEF TypeInv, CatsType, ListInv, Stored
<1>2. ASSUME NEW p \in Procs, SetCategories(p) PROVE \A m \in Msg : Fits(outlook'[m])
  <2>1. /\ proc[p].pc = "patch"
        /\ outlook' = [outlook EXCEPT ![proc[p].msg] = proc[p].list] \/ UNCHANGED outlook
    BY <1>2 DEF SetCategories
  <2>2. Fits(proc[p].list)
    BY <2>1 DEF ListInv, Sent, Writing
  <2> QED BY <1>1, <2>1, <2>2
<1>3. ASSUME NEW n \in Msg, OthersEdit(n) PROVE \A m \in Msg : Fits(outlook'[m])
  <2>1. PICK c \in Edits :
          outlook' = [outlook EXCEPT ![n] = IF c \in @ THEN @ \ {c} ELSE @ \cup {c}]
    BY <1>3 DEF OthersEdit
  <2>2. c[1] # "Status"
    BY WorkflowAssumption
  <2>3. StatusOf(outlook'[n]) = StatusOf(outlook[n])
    BY <1>1, <2>1, <2>2 DEF StatusOf
  <2>4. \A m \in Msg : m # n => outlook'[m] = outlook[m]
    BY <1>1, <2>1
  <2> QED BY <1>1, <2>3, <2>4 DEF Fits, One
<1>4. CASE UNCHANGED outlook
  BY <1>1, <1>4
<1> QED BY <1>2, <1>3, <1>4, NextFrame

\* A cached list is replaced by one that was on its way there.
LEMMA CachedKept ==
    ASSUME TypeInv, ListInv, [Next]_vars
    PROVE  \A m \in Msg : Fits(cached'[m])
<1>1. cached \in [Msg -> SUBSET Category] /\ \A m \in Msg : Fits(cached[m])
  BY DEF TypeInv, CatsType, ListInv, Stored
<1>2. CASE \E p \in Procs : UpdateCategories(p)
  <2>1. PICK p \in Procs : UpdateCategories(p)
    BY <1>2
  <2>2. Fits(proc[p].list)
    BY <2>1 DEF ListInv, Sent, Writing, UpdateCategories
  <2>3. cached' = [cached EXCEPT ![proc[p].msg] = proc[p].list] \/ UNCHANGED cached
    BY <2>1 DEF UpdateCategories
  <2> QED BY <1>1, <2>2, <2>3
<1>3. CASE UpsertMessage
  <2>1. PICK e \in batch : cached' = [cached EXCEPT ![e[1]] = e[2]]
    BY <1>3 DEF UpsertMessage
  <2>2. Fits(e[2])
    BY DEF ListInv, Received
  <2> QED BY <1>1, <2>1, <2>2
<1>4. CASE UNCHANGED cached
  BY <1>1, <1>4
<1> QED BY <1>2, <1>3, <1>4, NextFrame

\* What the sync receives was in Outlook.
LEMMA ReceivedKept ==
    ASSUME TypeInv, ListInv, [Next]_vars
    PROVE  \A e \in batch' : Fits(e[2])
<1>1. \A e \in batch : Fits(e[2])
  BY DEF ListInv, Received
<1>2. CASE ListInboxDelta
  <2>1. batch' = {<<m, outlook[m]>> : m \in changed} /\ changed \subseteq Msg
    BY <1>2 DEF ListInboxDelta, TypeInv, CatsType
  <2>2. \A m \in Msg : Fits(outlook[m])
    BY DEF ListInv, Stored
  <2> QED BY <2>1, <2>2
<1>3. CASE batch' \subseteq batch
  BY <1>1, <1>3
<1> QED BY <1>2, <1>3, NextFrame

\* A step moves one process, or stops them all.
LEMMA OneMoves ==
    ASSUME TypeInv, [Next]_vars
    PROVE  (\E q \in Procs : Moves(q)) \/ Restart \/ UNCHANGED proc
<1>1. CASE \E c \in Clerks : HandleRequest(c) \/ Step(c)
  BY <1>1, ProcessMoves, Distinct
<1>2. CASE runVoucherSync \/ runFollowupSweep
  BY <1>2, ProcessMoves, Distinct DEF runVoucherSync, runFollowupSweep
<1>3. CASE SyncInbox \/ \E m \in Msg : FallsDue(m) \/ GrowsStale(m) \/ ERPChange(m) \/ OthersEdit(m)
  BY <1>3 DEF SyncInbox, ListInboxDelta, UpsertMessage, FallsDue, GrowsStale, ERPChange, OthersEdit
<1> QED BY <1>1, <1>2, <1>3 DEF Next, vars

\* The state of a process after a step: what it moved to, or what it was, or
\* rest.
LEMMA AfterStep ==
    ASSUME TypeInv, [Next]_vars, NEW p \in Procs
    PROVE  \/ Turns(p, proc'[p]) /\ Sourced(p, proc'[p])
           \/ proc'[p] = proc[p]
           \/ proc'[p].pc = "idle"
<1>1. proc \in [Procs -> Rec]
  BY DEF TypeInv, ProcInv
<1>2. CASE \E q \in Procs : Moves(q)
  <2>0. PICK q \in Procs : Moves(q)
    BY <1>2
  <2>1. PICK r : Turns(q, r) /\ Sourced(q, r)
    BY <2>0 DEF Moves
  <2>2. proc' = [proc EXCEPT ![q] = r]
    BY <2>1 DEF Turns
  <2>3. IF p = q THEN proc'[p] = r ELSE proc'[p] = proc[p]
    BY <1>1, <2>2
  <2> QED BY <2>1, <2>3
<1>3. CASE Restart
  <2>1. proc'[p].pc = "idle"
    BY <1>3 DEF Restart, AtStart, Idle
  <2> QED BY <2>1
<1> QED BY <1>2, <1>3, OneMoves

\* A list taken up follows one that was stored.
LEMMA SentKept ==
    ASSUME TypeInv, ListInv, [Next]_vars, NEW p \in Procs, proc'[p].pc \in Writing
    PROVE  Fits(proc'[p].list)
<1>1. ASSUME proc[p].pc \in Writing PROVE Fits(proc[p].list)
  BY <1>1 DEF ListInv, Sent
<1>2. CASE Turns(p, proc'[p]) /\ Sourced(p, proc'[p])
  <2> DEFINE r == proc'[p]
  <2>1. r.msg \in Msg
    BY <1>2 DEF Turns, OpAt, Writing
  <2>2. Fits(outlook[r.msg]) /\ Fits(cached[r.msg])
    BY <2>1 DEF ListInv, Stored
  <2>3. CASE r.pc = "patch"
    <3>1. Follows(r.list, r.read, Decides(r.op)) /\ Fits(r.read)
      BY <1>2, <2>2, <2>3 DEF Sourced
    <3> QED BY <3>1 DEF Follows, Fits
  <2>4. CASE r.pc = "update"
    BY <1>1, <1>2, <2>4 DEF Sourced, Writing
  <2> QED BY <2>3, <2>4 DEF Writing
<1>3. CASE proc'[p] = proc[p]
  BY <1>1, <1>3
<1>4. CASE proc'[p].pc = "idle"
  BY <1>4 DEF Writing
<1> QED BY <1>2, <1>3, <1>4, AfterStep

LEMMA ListStep == TypeInv /\ ListInv /\ [Next]_vars => ListInv'
<1> SUFFICES ASSUME TypeInv, ListInv, [Next]_vars PROVE ListInv'
  OBVIOUS
<1>1. Stored'
  BY OutlookKept, CachedKept DEF Stored, Fits, AllOne
<1>2. Sent'
  BY SentKept DEF Sent, Fits, AllOne, Writing
<1>3. Received'
  BY ReceivedKept DEF Received, Fits, AllOne
<1> QED BY <1>1, <1>2, <1>3 DEF ListInv

LEMMA ListInit == Init => ListInv
<1> SUFFICES ASSUME Init PROVE ListInv
  OBVIOUS
<1>1. \A m \in Msg : outlook[m] \in Lists /\ cached[m] = outlook[m]
  BY DEF Init
<1>2. Stored
  BY <1>1 DEF Stored, Fits, AllOne
<1>3. Sent
  <2>1. \A p \in Procs : proc[p].pc = "idle"
    BY DEF Init, AtStart, Idle
  <2> QED BY <2>1 DEF Sent, Writing
<1>4. Received
  BY DEF Init, Received
<1> QED BY <1>2, <1>3, <1>4 DEF ListInv

\* The statuses of a list are finitely many, so that their number tells.
LEMMA CardinalityOne ==
    ASSUME NEW cats \in SUBSET Category
    PROVE  One(cats) <=> Cardinality(StatusOf(cats)) = 1
<1> DEFINE status(v) == <<"Status", v>>
           S0 == {}
           S1 == S0 \cup {status("New")}
           S2 == S1 \cup {status("In Progress")}
           S3 == S2 \cup {status("Blocked")}
           S4 == S3 \cup {status("Done")}
<1>1. StatusOf(cats) \in SUBSET S4
  <2>1. ASSUME NEW c \in Category, c[1] = "Status" PROVE c \in {"Status"} \X Statuses
    BY <2>1 DEF Category
  <2>2. ASSUME NEW c \in {"Status"} \X Statuses PROVE c = status(c[2]) /\ c[2] \in Statuses
    OBVIOUS
  <2> HIDE DEF status
  <2>3. \A v \in Statuses : status(v) \in S4
    BY DEF Statuses
  <2> HIDE DEF S4
  <2> QED BY <2>1, <2>2, <2>3 DEF StatusOf
<1>2. IsFiniteSet(S0)
  BY FS_EmptySet
<1> HIDE DEF S0
<1>3. IsFiniteSet(S1)
  BY <1>2, FS_AddElement
<1> HIDE DEF S1
<1>4. IsFiniteSet(S2)
  BY <1>3, FS_AddElement
<1> HIDE DEF S2
<1>5. IsFiniteSet(S3)
  BY <1>4, FS_AddElement
<1> HIDE DEF S3
<1>6. IsFiniteSet(S4)
  BY <1>5, FS_AddElement
<1> HIDE DEF S4
<1>7. IsFiniteSet(StatusOf(cats))
  BY <1>1, <1>6, FS_Subset
<1> QED BY <1>7, FS_Singleton DEF One

\* However clerks, the voucher sync, the sweeper and the inbox sync
\* interleave, fail and restart, every list of a message has exactly one
\* status, provided the lists that messages start with do.
THEOREM StatusStaysOne ==
    ASSUME \A cats \in Lists : Cardinality(StatusOf(cats)) = 1
    PROVE  Spec => []OneStatus
<1>1. \A cats \in SUBSET Category : One(cats) <=> Cardinality(StatusOf(cats)) = 1
  BY CardinalityOne
<1>2. AllOne
  BY <1>1, WorkflowAssumption DEF AllOne
<1>3. TypeInv /\ ListInv => OneStatus
  <2> SUFFICES ASSUME TypeInv, ListInv PROVE OneStatus
    OBVIOUS
  <2>1. \A m \in Msg : One(outlook[m]) /\ One(cached[m])
    BY <1>2 DEF ListInv, Stored, Fits
  <2>2. \A p \in Procs : proc[p].pc \in {"patch", "update"} => One(proc[p].list)
    BY <1>2 DEF ListInv, Sent, Fits, Writing
  <2>3. \A e \in batch : One(e[2])
    BY <1>2 DEF ListInv, Received, Fits
  <2>4. /\ \A m \in Msg : outlook[m] \in SUBSET Category /\ cached[m] \in SUBSET Category
        /\ \A p \in Procs : proc[p].list \in SUBSET Category
        /\ \A e \in batch : e[2] \in SUBSET Category
    BY DEF TypeInv, CatsType, ProcInv, Rec
  <2> QED BY <1>1, <2>1, <2>2, <2>3, <2>4 DEF OneStatus
<1> QED BY <1>3, TypeInit, TypeStep, ListInit, ListStep, PTL DEF Spec

-----------------------------------------------------------------------------
(* Who takes a category away, or brings one back.                            *)

\* A list on its way to Outlook differs from the list that was read only in
\* what its operation decides.
ReadInv ==
    \A p \in Procs : proc[p].pc = "patch" => Same(proc[p].list, proc[p].read, Decides(proc[p].op))

LEMMA ReadInit == Init => ReadInv
<1>1. \A p \in Procs : AtStart[p].pc = "idle"
  BY DEF AtStart, Idle
<1> QED BY <1>1 DEF Init, ReadInv

LEMMA ReadStep == TypeInv /\ ReadInv /\ [Next]_vars => ReadInv'
<1> SUFFICES ASSUME TypeInv, ReadInv, [Next]_vars, NEW p \in Procs, proc'[p].pc = "patch"
             PROVE  Same(proc'[p].list, proc'[p].read, Decides(proc'[p].op))
  BY DEF ReadInv, Same, Decides
<1>1. CASE Turns(p, proc'[p]) /\ Sourced(p, proc'[p])
  BY <1>1 DEF Sourced, Follows
<1>2. CASE proc'[p] = proc[p]
  BY <1>2 DEF ReadInv
<1> QED BY <1>1, <1>2, AfterStep

\* The step of a PATCH, however it ends.
LEMMA PatchMovesOn ==
    ASSUME TypeInv, NEW p \in Procs, SetCategories(p)
    PROVE  proc'[p] # proc[p]
<1>1. proc \in [Procs -> Rec] /\ ProcInv /\ proc[p].pc = "patch"
  BY DEF TypeInv, ProcInv, SetCategories
<1>2. CASE Finish(p)
  <2>1. PICK r : Turns(p, r) /\ r.pc \notin {"patch", "update"}
    BY <1>1, <1>2, FinishTurns
  <2>2. proc'[p] = r
    BY <1>1, <2>1 DEF Turns
  <2> QED BY <1>1, <2>1, <2>2
<1>3. CASE proc' = [proc EXCEPT ![p].pc = "update", ![p].read = {}]
  <2>1. proc'[p].pc = "update"
    BY <1>1, <1>3 DEF Rec
  <2> QED BY <1>1, <2>1
<1> QED BY <1>2, <1>3 DEF SetCategories

\* However clerks, the voucher sync, the sweeper, the inbox sync and others
\* interleave, fail and restart: a category goes, or comes back, by a process
\* that does not decide about it only if that process had read an older list.
THEOREM RacesOnly == Spec => LostOnlyByRace
<1>1. ASSUME TypeInv, ReadInv, [Next]_vars, NEW m \in Msg, NEW c \in Category,
             (c \in outlook[m]) # (c \in outlook'[m])
      PROVE  \/ OthersEdit(m)
             \/ \E p \in Procs :
                  /\ proc[p].pc = "patch" /\ proc[p].msg = m /\ proc'[p] # proc[p]
                  /\ \/ c[1] \in Decides(proc[p].op)
                     \/ (c \in proc[p].read) = (c \in outlook'[m])
  <2>1. outlook \in [Msg -> SUBSET Category]
    BY <1>1 DEF TypeInv, CatsType
  <2>2. ASSUME NEW p \in Procs, SetCategories(p)
        PROVE  /\ proc[p].pc = "patch" /\ proc[p].msg = m /\ proc'[p] # proc[p]
               /\ \/ c[1] \in Decides(proc[p].op)
                  \/ (c \in proc[p].read) = (c \in outlook'[m])
    <3>1. /\ proc[p].pc = "patch"
          /\ outlook' = [outlook EXCEPT ![proc[p].msg] = proc[p].list] \/ UNCHANGED outlook
      BY <2>2 DEF SetCategories
    <3>2. proc[p].msg = m /\ outlook'[m] = proc[p].list
      BY <1>1, <2>1, <3>1
    <3>3. proc'[p] # proc[p]
      BY <1>1, <2>2, PatchMovesOn
    <3>4. Same(proc[p].list, proc[p].read, Decides(proc[p].op))
      BY <1>1, <3>1 DEF ReadInv
    <3> QED BY <3>1, <3>2, <3>3, <3>4 DEF Same
  <2>3. ASSUME NEW n \in Msg, OthersEdit(n) PROVE n = m
    BY <1>1, <2>1, <2>3 DEF OthersEdit
  <2> QED BY <1>1, <2>2, <2>3, NextFrame
<1>2. TypeInv /\ ReadInv /\ [Next]_vars =>
        [\A m \in Msg : \A c \in Category :
            (c \in outlook[m]) # (c \in outlook'[m]) =>
                \/ OthersEdit(m)
                \/ \E p \in Procs :
                      /\ proc[p].pc = "patch" /\ proc[p].msg = m /\ proc'[p] # proc[p]
                      /\ \/ c[1] \in Decides(proc[p].op)
                         \/ (c \in proc[p].read) = (c \in outlook'[m])]_vars
  BY <1>1
<1> QED BY <1>2, TypeInit, TypeStep, ReadInit, ReadStep, PTL DEF Spec, LostOnlyByRace

=============================================================================
