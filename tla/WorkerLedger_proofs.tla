------------------------- MODULE WorkerLedger_proofs -------------------------
(***************************************************************************)
(* Proof that dispatch-worker keeps the ledger, for any mailbox, finite    *)
(* pools, channel capacities and faults.                                   *)
(***************************************************************************)
EXTENDS Worker_proofs, WorkerLedger, FiniteSetTheorems, FunctionTheorems

-----------------------------------------------------------------------------
(* Counting the holders of a message. *)

One(b) == IF b THEN 1 ELSE 0

\* Two finite sets that differ at most in x.
LEMMA CountsDiffer ==
    ASSUME NEW A, NEW B, IsFiniteSet(A), IsFiniteSet(B), NEW x, A \ {x} = B \ {x}
    PROVE  /\ Cardinality(A) \in Nat /\ Cardinality(B) \in Nat
           /\ Cardinality(B) = Cardinality(A) - One(x \in A) + One(x \in B)
           /\ x \in A => Cardinality(A) > 0
<1>1. Cardinality(A) \in Nat /\ Cardinality(B) \in Nat
  BY FS_CardinalityType
<1>2. /\ Cardinality(A \ {x}) = IF x \in A THEN Cardinality(A) - 1 ELSE Cardinality(A)
      /\ Cardinality(B \ {x}) = IF x \in B THEN Cardinality(B) - 1 ELSE Cardinality(B)
  BY FS_RemoveElement
<1>3. Cardinality(A \ {x}) \in Nat
  <2>1. IsFiniteSet(A \ {x})
    BY FS_RemoveElement
  <2> QED BY <2>1, FS_CardinalityType
<1>4. Cardinality(A \ {x}) = Cardinality(B \ {x})
  OBVIOUS
<1>5. x \in A => Cardinality(A) > 0
  BY <1>1, <1>2, <1>3
<1>6. CASE x \in A /\ x \in B
  BY <1>1, <1>2, <1>4, <1>5, <1>6 DEF One
<1>7. CASE x \in A /\ x \notin B
  BY <1>1, <1>2, <1>4, <1>5, <1>7 DEF One
<1>8. CASE x \notin A /\ x \in B
  BY <1>1, <1>2, <1>4, <1>5, <1>8 DEF One
<1>9. CASE x \notin A /\ x \notin B
  BY <1>1, <1>2, <1>4, <1>5, <1>9 DEF One
<1> QED BY <1>6, <1>7, <1>8, <1>9

\* The numbers of the four kinds of holders.
Handing(m) == Cardinality({s \in Sorters : HandsOver(sorter[s], m)})

Queued(q, m) == Cardinality(Places(q, m))

Working(m) == Cardinality({p \in Procs : WorksOn(proc[p], m)})

LEMMA OpenIsSum ==
    ASSUME NEW m
    PROVE  Open(m) = Handing(m) + Queued(extractQ, m) + Queued(fallbackQ, m) + Working(m)
BY DEF Open, Handing, Queued, Working

LEMMA CountTypes == \A m : Handing(m) \in Nat /\ Working(m) \in Nat
<1> TAKE m
<1>1. /\ IsFiniteSet({s \in Sorters : HandsOver(sorter[s], m)})
      /\ IsFiniteSet({p \in Procs : WorksOn(proc[p], m)})
  BY PoolsAssumption, FS_Subset
<1> QED BY <1>1, FS_CardinalityType DEF Handing, Working

LEMMA QueuedType ==
    ASSUME NEW Job, NEW q \in Seq(Job), NEW m
    PROVE  Queued(q, m) \in Nat /\ IsFiniteSet(Places(q, m))
<1>1. IsFiniteSet(1 .. Len(q))
  BY FS_Interval
<1>2. IsFiniteSet(Places(q, m))
  BY <1>1, FS_Subset DEF Places
<1> QED BY <1>2, FS_CardinalityType DEF Queued

\* A step of one sort worker.
LEMMA HandingAfter ==
    ASSUME NEW s \in Sorters, \A t \in Sorters \ {s} : sorter'[t] = sorter[t], NEW m
    PROVE  /\ Handing(m)' = Handing(m) - One(HandsOver(sorter[s], m))
                                       + One(HandsOver(sorter'[s], m))
           /\ HandsOver(sorter[s], m) => Handing(m) > 0
<1> DEFINE A == {t \in Sorters : HandsOver(sorter[t], m)}
           B == {t \in Sorters : HandsOver(sorter'[t], m)}
<1>1. IsFiniteSet(A) /\ IsFiniteSet(B)
  BY PoolsAssumption, FS_Subset
<1>2. A \ {s} = B \ {s}
  OBVIOUS
<1>3. /\ s \in A <=> HandsOver(sorter[s], m)
      /\ s \in B <=> HandsOver(sorter'[s], m)
  OBVIOUS
<1>4. Handing(m) = Cardinality(A) /\ Handing(m)' = Cardinality(B)
  BY DEF Handing, HandsOver
<1> HIDE DEF A, B
<1> QED BY <1>1, <1>2, <1>3, <1>4, CountsDiffer DEF One

\* A step of one extract or fallback worker.
LEMMA WorkingAfter ==
    ASSUME NEW p \in Procs, \A q \in Procs \ {p} : proc'[q] = proc[q], NEW m
    PROVE  /\ Working(m)' = Working(m) - One(WorksOn(proc[p], m))
                                       + One(WorksOn(proc'[p], m))
           /\ WorksOn(proc[p], m) => Working(m) > 0
<1> DEFINE A == {q \in Procs : WorksOn(proc[q], m)}
           B == {q \in Procs : WorksOn(proc'[q], m)}
<1>1. IsFiniteSet(A) /\ IsFiniteSet(B)
  BY PoolsAssumption, FS_Subset
<1>2. A \ {p} = B \ {p}
  OBVIOUS
<1>3. /\ p \in A <=> WorksOn(proc[p], m)
      /\ p \in B <=> WorksOn(proc'[p], m)
  OBVIOUS
<1>4. Working(m) = Cardinality(A) /\ Working(m)' = Cardinality(B)
  BY DEF Working, WorksOn
<1> HIDE DEF A, B
<1> QED BY <1>1, <1>2, <1>3, <1>4, CountsDiffer DEF One

\* A send and a receive.
LEMMA QueuedAfter ==
    ASSUME NEW Job, NEW q \in Seq(Job), NEW m
    PROVE  /\ \A j \in Job : Queued(Append(q, j), m) = Queued(q, m) + One(j.m = m)
           /\ q # <<>> => Queued(q, m) = Queued(Tail(q), m) + One(Head(q).m = m)
<1>1. ASSUME NEW j \in Job
      PROVE  Queued(Append(q, j), m) = Queued(q, m) + One(j.m = m)
  <2> DEFINE A == Places(q, m)
             B == Places(Append(q, j), m)
             n == Len(q) + 1
  <2>1. /\ Len(Append(q, j)) = n /\ Len(q) \in Nat
        /\ \A i \in 1 .. Len(q) : Append(q, j)[i] = q[i]
        /\ Append(q, j)[n] = j
    OBVIOUS
  <2>2. n \notin A /\ (n \in B <=> j.m = m)
    BY <2>1 DEF Places
  <2>3. A \ {n} = B \ {n}
    BY <2>1 DEF Places
  <2>4. Append(q, j) \in Seq(Job)
    OBVIOUS
  <2>5. IsFiniteSet(A) /\ IsFiniteSet(B)
    BY <2>4, QueuedType
  <2>6. Cardinality(A) \in Nat /\ Cardinality(B) = Cardinality(A) - One(n \in A) + One(n \in B)
    <3> HIDE DEF A, B, n
    <3> QED BY <2>3, <2>5, CountsDiffer
  <2> QED BY <2>2, <2>6 DEF Queued, One
<1>2. ASSUME q # <<>>
      PROVE  Queued(q, m) = Queued(Tail(q), m) + One(Head(q).m = m)
  <2> DEFINE A == Places(Tail(q), m)
             B == Places(q, m)
             f == [i \in A |-> i + 1]
  <2>1. /\ Len(Tail(q)) = Len(q) - 1 /\ Len(q) \in Nat \ {0}
        /\ \A i \in 1 .. Len(Tail(q)) : Tail(q)[i] = q[i + 1]
        /\ Head(q) = q[1]
        /\ Tail(q) \in Seq(Job)
    BY <1>2
  <2>2. f \in Bijection(A, B \ {1})
    <3>1. f \in [A -> B \ {1}]
      BY <2>1 DEF Places
    <3>2. \A a, b \in A : f[a] = f[b] => a = b
      BY DEF Places
    <3>3. ASSUME NEW t \in B \ {1} PROVE \E i \in A : f[i] = t
      <4>1. t - 1 \in A /\ f[t - 1] = t
        BY <2>1 DEF Places
      <4> QED BY <4>1
    <3> HIDE DEF A, B, f
    <3> QED BY <3>1, <3>2, <3>3, Fun_IsBij
  <2>3. IsFiniteSet(A) /\ IsFiniteSet(B)
    BY <2>1, QueuedType
  <2>4. Cardinality(B \ {1}) = Cardinality(A)
    <3>1. ExistsBijection(A, B \ {1})
      BY <2>2 DEF ExistsBijection
    <3> HIDE DEF A, B
    <3> QED BY <2>3, <3>1, FS_Bijection
  <2>5. Cardinality(B \ {1}) = IF 1 \in B THEN Cardinality(B) - 1 ELSE Cardinality(B)
    <3> HIDE DEF B
    <3> QED BY <2>3, FS_RemoveElement
  <2>6. 1 \in B <=> Head(q).m = m
    BY <2>1 DEF Places
  <2>7. Cardinality(B) \in Nat /\ Cardinality(A) \in Nat
    <3> HIDE DEF A, B
    <3> QED BY <2>3, FS_CardinalityType
  <2> QED BY <2>4, <2>5, <2>6, <2>7 DEF Queued, One
<1> QED BY <1>1, <1>2

-----------------------------------------------------------------------------
(* How the ledger changes with the worker's state.                           *)

LEMMA BarsStable ==
    /\ UNCHANGED row => UNCHANGED <<entryBar, writesBar, flaggedBar>>
    /\ UNCHANGED sorter => UNCHANGED askedBar
    /\ UNCHANGED <<toRescan, rescan>> => UNCHANGED dueBar
    /\ (\A m \in Msg : Open(m)' = Open(m)) => UNCHANGED openBar
BY DEF entryBar, writesBar, flaggedBar, askedBar, dueBar, openBar

\* A statement on one row.
LEMMA BarsOfRow ==
    ASSUME TypeOK, NEW m \in Msg, NEW new, WriteRow(m, new)
    PROVE  /\ entryBar' = [entryBar EXCEPT ![m] = EntryOf(new)]
           /\ writesBar' = [writesBar EXCEPT ![m] = new.attempts]
           /\ flaggedBar' = IF new.rescan THEN flaggedBar \cup {m} ELSE flaggedBar \ {m}
<1>1. \A x \in Msg : row'[x] = IF x = m THEN new ELSE row[x]
  BY DEF TypeOK, CacheType, WriteRow
<1>2. entryBar' = [entryBar EXCEPT ![m] = EntryOf(new)]
  BY <1>1 DEF entryBar
<1>3. writesBar' = [writesBar EXCEPT ![m] = new.attempts]
  BY <1>1 DEF writesBar
<1>4. flaggedBar' = IF new.rescan THEN flaggedBar \cup {m} ELSE flaggedBar \ {m}
  <2>1. CASE new.rescan
    BY <1>1, <2>1 DEF flaggedBar
  <2>2. CASE ~new.rescan
    BY <1>1, <2>2 DEF flaggedBar
  <2> QED BY <2>1, <2>2
<1> QED BY <1>2, <1>3, <1>4

\* The entries, and what is said of each message.
LEMMA BarsAt ==
    ASSUME TypeOK, NEW m \in Msg
    PROVE  /\ entryBar[m] = EntryOf(row[m])
           /\ writesBar[m] = row[m].attempts
           /\ openBar[m] = Open(m) /\ Open(m) \in Nat
<1>1. Open(m) \in Nat
  BY CountTypes, QueuedType, OpenIsSum DEF TypeOK, ChannelType
<1> QED BY <1>1 DEF entryBar, writesBar, openBar

\* One extraction more, or one less, of one message.
LEMMA OpenMoves ==
    ASSUME TypeOK, NEW m \in Msg, \A x \in Msg \ {m} : Open(x)' = Open(x)
    PROVE  /\ Open(m)' = Open(m) + 1 => openBar' = [openBar EXCEPT ![m] = openBar[m] + 1]
           /\ Open(m)' = Open(m) - 1 => openBar' = [openBar EXCEPT ![m] = openBar[m] - 1]
BY BarsAt DEF openBar

\* The requests of the sort pool.
LEMMA AskedMoves ==
    ASSUME SortOnce, NEW s \in Sorters, \A t \in Sorters \ {s} : sorter'[t] = sorter[t]
    PROVE  /\ sorter[s].pc # "has" /\ sorter'[s].pc # "has" => UNCHANGED askedBar
           /\ /\ sorter[s].pc # "has" /\ sorter'[s].pc = "has"
              /\ sorter'[s].m \in Msg
              => askedBar' = askedBar \cup {sorter'[s].m}
           /\ /\ sorter[s].pc = "has" /\ sorter'[s].pc # "has"
              /\ sorter[s].m \in Msg
              => askedBar' = askedBar \ {sorter[s].m} /\ sorter[s].m \in askedBar
<1>1. \A m : m \in askedBar <=>
        m \in Msg /\ \E t \in Sorters : sorter[t].pc = "has" /\ sorter[t].m = m
  BY DEF askedBar
<1>2. \A m : m \in askedBar' <=>
        m \in Msg /\ \E t \in Sorters : sorter'[t].pc = "has" /\ sorter'[t].m = m
  BY DEF askedBar
<1>3. ASSUME sorter[s].pc # "has", sorter'[s].pc # "has" PROVE UNCHANGED askedBar
  <2>1. \A m : m \in askedBar' <=> m \in askedBar
    BY <1>1, <1>2, <1>3
  <2> QED BY <2>1 DEF askedBar
<1>4. ASSUME sorter[s].pc # "has", sorter'[s].pc = "has", sorter'[s].m \in Msg
      PROVE  askedBar' = askedBar \cup {sorter'[s].m}
  BY <1>1, <1>2, <1>4
<1>5. ASSUME sorter[s].pc = "has", sorter'[s].pc # "has", sorter[s].m \in Msg
      PROVE  askedBar' = askedBar \ {sorter[s].m} /\ sorter[s].m \in askedBar
  <2>1. \A t \in Sorters \ {s} : sorter[t].pc = "has" => sorter[t].m # sorter[s].m
    BY <1>5 DEF SortOnce
  <2> QED BY <1>1, <1>2, <1>5, <2>1
<1> QED BY <1>3, <1>4, <1>5

\* The steps of a sort worker, a worker of the pools and a channel, seen from
\* the number of extractions under way.
LEMMA OpenAfterSort ==
    ASSUME NEW s \in Sorters, \A t \in Sorters \ {s} : sorter'[t] = sorter[t],
           UNCHANGED <<fallbackQ, proc>>,
           extractQ \in Seq(ExtractJob), fallbackQ \in Seq(FallbackJob), NEW m,
           NEW sent \in Nat, Queued(extractQ', m) = Queued(extractQ, m) + sent
    PROVE  /\ Open(m)' = Open(m) - One(HandsOver(sorter[s], m))
                                 + One(HandsOver(sorter'[s], m)) + sent
           /\ HandsOver(sorter[s], m) => Open(m) > 0
<1>1. Working(m)' = Working(m) /\ Queued(fallbackQ, m)' = Queued(fallbackQ, m)
  BY DEF Working, Queued, Places, WorksOn
<1>2. /\ Handing(m) \in Nat /\ Working(m) \in Nat
      /\ Queued(extractQ, m) \in Nat /\ Queued(fallbackQ, m) \in Nat
  BY CountTypes, QueuedType
<1>3. One(HandsOver(sorter[s], m)) \in {0, 1} /\ One(HandsOver(sorter'[s], m)) \in {0, 1}
  BY DEF One
<1>4. Open(m)' = Handing(m)' + Queued(extractQ', m) + Queued(fallbackQ, m)' + Working(m)'
  BY OpenIsSum DEF Open, Handing, Queued, Working
<1>5. /\ Handing(m)' = Handing(m) - One(HandsOver(sorter[s], m))
                                  + One(HandsOver(sorter'[s], m))
      /\ HandsOver(sorter[s], m) => Handing(m) > 0
  BY HandingAfter
<1>6. Open(m) = Handing(m) + Queued(extractQ, m) + Queued(fallbackQ, m) + Working(m)
  BY OpenIsSum
<1>7. Open(m)' = (Handing(m) - One(HandsOver(sorter[s], m)) + One(HandsOver(sorter'[s], m)))
                 + (Queued(extractQ, m) + sent) + Queued(fallbackQ, m) + Working(m)
  BY <1>1, <1>4, <1>5
<1>8. Open(m)' = Open(m) - One(HandsOver(sorter[s], m)) + One(HandsOver(sorter'[s], m)) + sent
  BY <1>2, <1>3, <1>6, <1>7, SMTT(60)
<1>9. HandsOver(sorter[s], m) => Open(m) > 0
  BY <1>2, <1>5, <1>6, SMTT(60)
<1> QED BY <1>8, <1>9

LEMMA OpenAfterWork ==
    ASSUME NEW p \in Procs, \A q \in Procs \ {p} : proc'[q] = proc[q],
           UNCHANGED sorter, extractQ \in Seq(ExtractJob), fallbackQ \in Seq(FallbackJob), NEW m,
           NEW taken \in Int, Queued(extractQ', m) = Queued(extractQ, m) - taken,
           NEW sent \in Int, Queued(fallbackQ', m) = Queued(fallbackQ, m) + sent
    PROVE  /\ Open(m)' = Open(m) - One(WorksOn(proc[p], m))
                                 + One(WorksOn(proc'[p], m)) - taken + sent
           /\ WorksOn(proc[p], m) => Open(m) > 0
<1>1. Handing(m)' = Handing(m)
  BY DEF Handing, HandsOver
<1>2. /\ Handing(m) \in Nat /\ Working(m) \in Nat
      /\ Queued(extractQ, m) \in Nat /\ Queued(fallbackQ, m) \in Nat
  BY CountTypes, QueuedType
<1>3. One(WorksOn(proc[p], m)) \in {0, 1} /\ One(WorksOn(proc'[p], m)) \in {0, 1}
  BY DEF One
<1>4. Open(m)' = Handing(m)' + Queued(extractQ', m) + Queued(fallbackQ', m) + Working(m)'
  BY OpenIsSum DEF Open, Handing, Queued, Working
<1>5. /\ Working(m)' = Working(m) - One(WorksOn(proc[p], m))
                                  + One(WorksOn(proc'[p], m))
      /\ WorksOn(proc[p], m) => Working(m) > 0
  BY WorkingAfter
<1>6. Open(m) = Handing(m) + Queued(extractQ, m) + Queued(fallbackQ, m) + Working(m)
  BY OpenIsSum
<1>7. Open(m)' = Handing(m) + (Queued(extractQ, m) - taken) + (Queued(fallbackQ, m) + sent)
                 + (Working(m) - One(WorksOn(proc[p], m)) + One(WorksOn(proc'[p], m)))
  BY <1>1, <1>4, <1>5
<1>8. Open(m)' = Open(m) - One(WorksOn(proc[p], m)) + One(WorksOn(proc'[p], m)) - taken + sent
  BY <1>2, <1>3, <1>6, <1>7, SMTT(60)
<1>9. WorksOn(proc[p], m) => Open(m) > 0
  BY <1>2, <1>5, <1>6, SMTT(60)
<1> QED BY <1>8, <1>9

\* The same where the extract channel is left alone.
LEMMA OpenAfterWorkApart ==
    ASSUME NEW p \in Procs, \A q \in Procs \ {p} : proc'[q] = proc[q],
           UNCHANGED <<sorter, extractQ>>,
           extractQ \in Seq(ExtractJob), fallbackQ \in Seq(FallbackJob), NEW m,
           NEW sent \in Int, Queued(fallbackQ', m) = Queued(fallbackQ, m) + sent
    PROVE  /\ Open(m)' = Open(m) - One(WorksOn(proc[p], m)) + One(WorksOn(proc'[p], m)) + sent
           /\ WorksOn(proc[p], m) => Open(m) > 0
<1>1. Queued(extractQ, m) \in Nat /\ Open(m) \in Nat
  BY CountTypes, QueuedType, OpenIsSum
<1>2. 0 \in Int /\ Queued(extractQ', m) = Queued(extractQ, m) - 0
  BY <1>1
<1>3. One(WorksOn(proc[p], m)) \in {0, 1} /\ One(WorksOn(proc'[p], m)) \in {0, 1}
  BY DEF One
<1>4. /\ Open(m)' = Open(m) - One(WorksOn(proc[p], m)) + One(WorksOn(proc'[p], m)) - 0 + sent
      /\ WorksOn(proc[p], m) => Open(m) > 0
  BY <1>2, OpenAfterWork
<1> QED BY <1>1, <1>3, <1>4

-----------------------------------------------------------------------------
(* Every step of the worker is a step of the ledger, or none.                *)

Simulated == Kept!Next \/ UNCHANGED Kept!vars

LEMMA StuttersSimulated ==
    ASSUME UNCHANGED <<entryBar, writesBar, flaggedBar, askedBar, dueBar, openBar>>
    PROVE  Simulated
BY DEF Simulated, Kept!vars

LEMMA MessageSimulated ==
    ASSUME NEW m \in Msg,
           \/ Kept!Ask(m) \/ Kept!Order(m) \/ Kept!OrderAgain(m) \/ Kept!Exhaust(m)
           \/ Kept!Settle(m) \/ Kept!PutOff(m) \/ Kept!Lose(m) \/ Kept!Skip(m)
    PROVE  Simulated
BY DEF Simulated, Kept!Next

LEMMA PassSimulated ==
    ASSUME Kept!StartPass \/ Kept!GiveUp \/ Kept!Die
    PROVE  Simulated
BY DEF Simulated, Kept!Next

\* A row that leaves the count as it was.
LEMMA SameAt ==
    ASSUME NEW m \in Msg
    PROVE  [writesBar EXCEPT ![m] = writesBar[m]] = writesBar
BY DEF writesBar

\* The sort pool: the tag asks for an extraction, the look for a row orders or
\* declines it, the hand-off puts it in the channel or off.
LEMMA SimulateSort ==
    ASSUME TypeOK, OnceInv, NEW s \in Sorters, SortStep(s)
    PROVE  Simulated
<1> USE DEF graphVars, cacheVars, queueVars, mainVars, clerkVars
<1> SUFFICES ASSUME NEW m, m = sorter[s].m PROVE Simulated
  OBVIOUS
<1>1. sorter[s].pc # "idle" => m \in Msg /\ row[m] \in Row
  BY DEF TypeOK, SorterType, CacheType
<1>2. /\ UNCHANGED <<fallbackQ, proc, toRescan, rescan>>
      /\ extractQ \in Seq(ExtractJob) /\ fallbackQ \in Seq(FallbackJob)
      /\ SortOnce /\ RowsBegin
  BY DEF SortStep, SortTake, SortSkip, SortMark, SortTag, SortTagFails, SortHas,
         SortHandOff, TypeOK, ChannelType, OnceInv
<1>3. \A x : sorter' = [sorter EXCEPT ![s] = x] =>
        sorter'[s] = x /\ \A t \in Sorters \ {s} : sorter'[t] = sorter[t]
  BY DEF TypeOK, SorterType
<1>4. \A pc : sorter' = [sorter EXCEPT ![s].pc = pc] =>
        sorter'[s].pc = pc /\ sorter'[s].m = m
  BY DEF TypeOK, SorterType, Sorter
<1>5. \A t \in Sorters \ {s} : sorter'[t] = sorter[t]
  BY DEF SortStep, SortTake, SortSkip, SortMark, SortTag, SortTagFails, SortHas,
         SortHandOff, TypeOK, SorterType
<1>6. IdleSorter.pc = "idle" /\ UNCHANGED dueBar
  BY <1>2, BarsStable DEF IdleSorter
\* Nothing handed over: the extractions under way are the same.
<1>7. ASSUME UNCHANGED extractQ, sorter[s].pc # "handoff", sorter'[s].pc # "handoff"
      PROVE  UNCHANGED openBar
  <2>1. ASSUME NEW x \in Msg PROVE Open(x)' = Open(x)
    <3>1. Queued(extractQ', x) = Queued(extractQ, x) + 0 /\ Open(x) \in Nat
      BY <1>2, <1>7, QueuedType, BarsAt
    <3>2. ~HandsOver(sorter[s], x) /\ ~HandsOver(sorter'[s], x)
      BY <1>7 DEF HandsOver
    <3> QED BY <1>2, <1>5, <3>1, <3>2, OpenAfterSort DEF One
  <2> QED BY <2>1, BarsStable
<1>8. CASE SortTake(s)
  <2>1. UNCHANGED sorter \/ sorter'[s].pc = "look"
    BY <1>3, <1>8 DEF SortTake
  <2> QED BY <1>2, <1>5, <1>6, <1>7, <1>8, <2>1, AskedMoves, BarsStable, StuttersSimulated
          DEF SortTake
<1>9. CASE SortSkip(s)
  BY <1>2, <1>4, <1>5, <1>6, <1>7, <1>9, AskedMoves, BarsStable, StuttersSimulated
  DEF SortSkip
<1>10. CASE SortTagFails(s)
  BY <1>2, <1>3, <1>5, <1>6, <1>7, <1>10, AskedMoves, BarsStable, StuttersSimulated
  DEF SortTagFails
<1>11. CASE SortTag(s)
  <2>1. \/ sorter'[s].pc = "has" /\ sorter'[s].m = m
        \/ sorter'[s].pc = "idle"
    <3>1. PICK new :
            \/ sorter' = [sorter EXCEPT ![s] = [pc |-> "has", m |-> m, cats |-> new]]
            \/ sorter' = [sorter EXCEPT ![s] = IdleSorter]
      BY <1>11 DEF SortTag
    <3>2. CASE sorter' = [sorter EXCEPT ![s] = [pc |-> "has", m |-> m, cats |-> new]]
      <4>1. sorter'[s] = [pc |-> "has", m |-> m, cats |-> new]
        BY <1>3, <3>2
      <4> QED BY <4>1
    <3> QED BY <1>3, <1>6, <3>1, <3>2
  <2>2. UNCHANGED <<entryBar, writesBar, flaggedBar, dueBar, openBar>>
    BY <1>6, <1>7, <1>11, <2>1, BarsStable DEF SortTag
  <2>3. m \in Msg /\ (askedBar' = askedBar \cup {m} \/ UNCHANGED askedBar)
    BY <1>1, <1>2, <1>5, <1>11, <2>1, AskedMoves DEF SortTag
  <2>4. CASE askedBar' = askedBar \cup {m}
    BY <2>2, <2>3, <2>4, MessageSimulated DEF Kept!Ask
  <2> QED BY <2>2, <2>3, <2>4, StuttersSimulated
<1>12. CASE SortMark(s)
  <2>1. m \in Msg /\ sorter'[s].pc = "idle"
    BY <1>1, <1>3, <1>6, <1>12 DEF SortMark
  <2>2. UNCHANGED <<askedBar, dueBar, openBar>>
    BY <1>2, <1>5, <1>6, <1>7, <1>12, <2>1, AskedMoves DEF SortMark
  <2>3. CASE UNCHANGED row
    BY <2>2, <2>3, BarsStable, StuttersSimulated
  <2>4. CASE WriteRow(m, MarkSkipExtraction(row[m])) /\ HasInvoiceExtraction(row[m])
    <3>1. UNCHANGED row
      BY <2>1, <2>4 DEF WriteRow, MarkSkipExtraction, TypeOK, CacheType
    <3> QED BY <2>3, <3>1
  <2>5. CASE WriteRow(m, MarkSkipExtraction(row[m])) /\ ~HasInvoiceExtraction(row[m])
    <3> DEFINE new == MarkSkipExtraction(row[m])
    <3>1. row[m] = NoRow /\ row[m].model = "absent"
      BY <1>2, <2>1, <2>5 DEF HasInvoiceExtraction, RowsBegin
    <3>2. new.model = "skip" /\ new.attempts = 0 /\ ~new.rescan
      BY <2>5 DEF MarkSkipExtraction, NoRow
    <3>3. EntryOf(row[m]) = "none" /\ EntryOf(new) = "skip"
      BY <3>1, <3>2 DEF EntryOf
    <3> HIDE DEF new
    <3>4. /\ entryBar' = [entryBar EXCEPT ![m] = "skip"]
          /\ writesBar' = [writesBar EXCEPT ![m] = 0]
          /\ flaggedBar' = flaggedBar \ {m}
      BY <2>1, <2>5, <3>2, <3>3, BarsOfRow DEF new
    <3>5. UNCHANGED <<writesBar, flaggedBar>>
      <4>1. writesBar[m] = 0 /\ m \notin flaggedBar
        BY <2>1, <3>1 DEF writesBar, flaggedBar, NoRow
      <4> QED BY <2>1, <3>4, <4>1, SameAt DEF writesBar
    <3>6. Kept!Skip(m)
      BY <2>1, <2>2, <3>3, <3>4, <3>5, BarsAt DEF Kept!Skip
    <3> QED BY <2>1, <3>6, MessageSimulated
  <2> QED BY <1>12, <2>3, <2>4, <2>5 DEF SortMark
<1>13. CASE SortHas(s)
  <2>1. m \in Msg
    BY <1>1, <1>13 DEF SortHas
  <2>2. UNCHANGED <<entryBar, writesBar, flaggedBar, dueBar>>
    BY <1>6, <1>13, BarsStable DEF SortHas
  <2>3. entryBar[m] = "none" <=> ~HasInvoiceExtraction(row[m])
    BY <1>1, <2>1, BarsAt DEF EntryOf, HasInvoiceExtraction
  <2>4. CASE HasInvoiceExtraction(row[m]) /\ sorter'[s].pc = "idle"
    <3>1. UNCHANGED openBar /\ askedBar' = askedBar \ {m} /\ m \in askedBar
      BY <1>2, <1>5, <1>7, <1>13, <2>1, <2>4, AskedMoves DEF SortHas
    <3> QED BY <2>1, <2>2, <2>3, <2>4, <3>1, MessageSimulated DEF Kept!Order
  <2>5. CASE /\ HasInvoiceExtraction(row[m]) => ReadFails
             /\ sorter'[s].pc = "handoff" /\ sorter'[s].m = m
    <3>1. askedBar' = askedBar \ {m} /\ m \in askedBar
      BY <1>2, <1>5, <1>13, <2>1, <2>5, AskedMoves DEF SortHas
    <3>2. ASSUME NEW x \in Msg PROVE Open(x)' = Open(x) + One(x = m)
      <4>1. Queued(extractQ', x) = Queued(extractQ, x) + 0 /\ Open(x) \in Nat
        BY <1>2, <1>13, QueuedType, BarsAt DEF SortHas
      <4>2. ~HandsOver(sorter[s], x) /\ (HandsOver(sorter'[s], x) <=> x = m)
        BY <1>13, <2>5 DEF HandsOver, SortHas
      <4> QED BY <1>2, <1>5, <4>1, <4>2, OpenAfterSort DEF One
    <3>3. \A x \in Msg : Open(x) \in Nat
      BY BarsAt
    <3>4. Open(m)' = Open(m) + 1 /\ \A x \in Msg \ {m} : Open(x)' = Open(x)
      BY <2>1, <3>2, <3>3 DEF One
    <3>5. Kept!Opens(m)
      BY <2>1, <3>4, OpenMoves DEF Kept!Opens
    <3> QED BY <2>1, <2>2, <2>3, <2>5, <3>1, <3>5, MessageSimulated DEF Kept!Order
  <2> QED BY <1>3, <1>4, <1>6, <1>13, <2>4, <2>5 DEF SortHas
<1>14. CASE SortHandOff(s)
  <2> DEFINE j == [m |-> m, cats |-> sorter[s].cats, minTier |-> 0]
  <2>1. m \in Msg /\ sorter'[s].pc = "idle" /\ j \in ExtractJob /\ j.m = m
    BY <1>1, <1>3, <1>6, <1>14
        DEF SortHandOff, TypeOK, SorterType, Sorter, ExtractJob, topExtractionTier
  <2>2. UNCHANGED <<askedBar, dueBar>>
    BY <1>2, <1>5, <1>6, <1>14, <2>1, AskedMoves DEF SortHandOff
  <2>3. \A x : HandsOver(sorter[s], x) <=> x = m
    BY <1>14 DEF SortHandOff, HandsOver
  <2>4. \A x : ~HandsOver(sorter'[s], x)
    BY <2>1 DEF HandsOver
  <2>5. CASE extractQ' = Append(extractQ, j) /\ UNCHANGED row
    <3>1. ASSUME NEW x \in Msg PROVE Open(x)' = Open(x)
      <4>1. Queued(extractQ', x) = Queued(extractQ, x) + One(x = m) /\ Open(x) \in Nat
        BY <1>2, <2>1, <2>5, QueuedAfter, BarsAt
      <4>2. One(x = m) \in Nat
        BY DEF One
      <4>3. Open(x)' = Open(x) - One(HandsOver(sorter[s], x))
                               + One(HandsOver(sorter'[s], x)) + One(x = m)
        BY <1>2, <1>5, <4>1, <4>2, OpenAfterSort
      <4> QED BY <2>3, <2>4, <4>1, <4>3 DEF One
    <3> QED BY <2>2, <2>5, <3>1, BarsStable, StuttersSimulated
  <2>6. ASSUME UNCHANGED extractQ
        PROVE  /\ Kept!Closes(m)
    <3>1. ASSUME NEW x \in Msg
          PROVE  Open(x)' = Open(x) - One(x = m) /\ (x = m => Open(x) > 0) /\ Open(x) \in Nat
      <4>1. Queued(extractQ', x) = Queued(extractQ, x) + 0 /\ Open(x) \in Nat
        BY <1>2, <2>6, QueuedType, BarsAt
      <4>2. /\ Open(x)' = Open(x) - One(HandsOver(sorter[s], x))
                                   + One(HandsOver(sorter'[s], x)) + 0
            /\ HandsOver(sorter[s], x) => Open(x) > 0
        BY <1>2, <1>5, <4>1, OpenAfterSort
      <4> QED BY <2>3, <2>4, <4>1, <4>2 DEF One
    <3>2. /\ Open(m)' = Open(m) - 1 /\ Open(m) > 0
          /\ \A x \in Msg \ {m} : Open(x)' = Open(x)
      BY <2>1, <3>1 DEF One
    <3> QED BY <2>1, <3>2, OpenMoves, BarsAt DEF Kept!Closes
  <2>7. CASE UNCHANGED extractQ /\ UNCHANGED row /\ WriteFails
    <3>1. LosesBar
      BY <2>7 DEF LosesBar, WriteFails
    <3>2. Kept!Lose(m)
      BY <2>2, <2>6, <2>7, <3>1, BarsStable DEF Kept!Lose
    <3> QED BY <2>1, <3>2, MessageSimulated
  <2>8. CASE UNCHANGED extractQ /\ WriteRow(m, StubExtractionForRescan(row[m]))
    <3> DEFINE new == StubExtractionForRescan(row[m])
    <3>1. entryBar[m] = "none" <=> ~HasInvoiceExtraction(row[m])
      BY <1>1, <2>1, BarsAt DEF EntryOf, HasInvoiceExtraction
    <3>2. CASE HasInvoiceExtraction(row[m])
      <4>1. UNCHANGED row
        BY <2>1, <2>8, <3>2 DEF WriteRow, StubExtractionForRescan, TypeOK, CacheType
      <4> QED BY <2>1, <2>2, <2>6, <2>8, <3>1, <3>2, <4>1, BarsStable, MessageSimulated
              DEF Kept!PutOff
    <3>3. CASE ~HasInvoiceExtraction(row[m])
      <4>1. row[m] = NoRow
        BY <1>2, <2>1, <3>3 DEF HasInvoiceExtraction, RowsBegin
      <4>2. new.model = "stub" /\ new.attempts = 0 /\ new.rescan
        BY <3>3 DEF StubExtractionForRescan, NoRow
      <4>3. EntryOf(new) = "stub"
        BY <4>2 DEF EntryOf
      <4> HIDE DEF new
      <4>4. /\ entryBar' = [entryBar EXCEPT ![m] = "stub"]
            /\ writesBar' = [writesBar EXCEPT ![m] = 0]
            /\ flaggedBar' = flaggedBar \cup {m}
        BY <2>1, <2>8, <4>2, <4>3, BarsOfRow DEF new
      <4>5. UNCHANGED writesBar
        <5>1. writesBar[m] = 0
          BY <2>1, <4>1 DEF writesBar, NoRow
        <5> QED BY <2>1, <4>4, <5>1, SameAt
      <4> QED BY <2>1, <2>2, <2>6, <2>8, <3>1, <3>3, <4>4, <4>5, MessageSimulated
              DEF Kept!PutOff
    <3> QED BY <3>2, <3>3
  <2> QED BY <1>14, <2>5, <2>7, <2>8 DEF SortHandOff
<1> QED BY <1>8, <1>9, <1>10, <1>11, <1>12, <1>13, <1>14 DEF SortStep

\* The pools: whatever a worker does with its extraction, it is under way until
\* a verdict is stored, or lost to a failing store.
LEMMA SimulateExtract ==
    ASSUME TypeOK, OnceInv, NEW e \in Extractors, ExtractStep(e)
    PROVE  Simulated
<1>1. /\ e \in Procs /\ UNCHANGED <<row, sorter, toRescan, rescan>>
      /\ \A q \in Procs \ {e} : proc'[q] = proc[q]
      /\ extractQ \in Seq(ExtractJob) /\ fallbackQ \in Seq(FallbackJob)
      /\ IdleEmpty
  BY ExtractFrame DEF Procs, TypeOK, ChannelType, OnceInv
<1> SUFFICES ASSUME NEW x \in Msg PROVE Open(x)' = Open(x)
  BY <1>1, BarsStable, StuttersSimulated
<1>2. Queued(extractQ, x) \in Nat /\ Queued(fallbackQ, x) \in Nat /\ Open(x) \in Nat
  BY <1>1, QueuedType, BarsAt
<1>3. \A b : One(b) \in {0, 1}
  BY DEF One
<1>4. CASE Takes(e, extractQ) /\ extractQ' = Tail(extractQ) /\ UNCHANGED fallbackQ
  <2>1. Queued(extractQ, x) = Queued(Tail(extractQ), x) + One(Head(extractQ).m = x)
    BY <1>1, <1>4, QueuedAfter DEF Takes
  <2>2. Queued(extractQ', x) \in Nat
    <3>1. Tail(extractQ) \in Seq(ExtractJob)
      BY <1>1, <1>4 DEF Takes
    <3> QED BY <1>4, <3>1, QueuedType
  <2>3. Queued(extractQ', x) = Queued(extractQ, x) - One(Head(extractQ).m = x)
    BY <1>2, <1>3, <1>4, <2>1, <2>2
  <2>4. ~WorksOn(proc[e], x) /\ (WorksOn(proc'[e], x) <=> Head(extractQ).m = x)
    BY <1>1, <1>4, WorkerAssumption DEF Takes, WorksOn, IdleEmpty
  <2>5. Queued(fallbackQ', x) = Queued(fallbackQ, x) + 0 /\ One(Head(extractQ).m = x) \in Int
    BY <1>2, <1>3, <1>4
  <2>6. Open(x)' = Open(x) - One(WorksOn(proc[e], x)) + One(WorksOn(proc'[e], x))
                   - One(Head(extractQ).m = x) + 0
    BY <1>1, <2>3, <2>5, OpenAfterWork
  <2> QED BY <1>2, <2>4, <2>6 DEF One
<1>5. CASE GoesOn(e) /\ UNCHANGED <<extractQ, fallbackQ>>
  <2>1. WorksOn(proc[e], x) <=> WorksOn(proc'[e], x)
    BY <1>5 DEF GoesOn, WorksOn
  <2>2. /\ Queued(extractQ', x) = Queued(extractQ, x) - 0
        /\ Queued(fallbackQ', x) = Queued(fallbackQ, x) + 0
    BY <1>2, <1>5
  <2>3. Open(x)' = Open(x) - One(WorksOn(proc[e], x)) + One(WorksOn(proc'[e], x)) - 0 + 0
    BY <1>1, <2>2, OpenAfterWork
  <2> QED BY <1>2, <2>1, <2>3 DEF One
<1>6. CASE Passes(e) /\ UNCHANGED extractQ
  <2>1. PICK j \in FallbackJob : j.m = proc[e].m /\ fallbackQ' = Append(fallbackQ, j)
    BY <1>6 DEF Passes
  <2>2. Queued(fallbackQ', x) = Queued(fallbackQ, x) + One(j.m = x)
    BY <1>1, <2>1, QueuedAfter
  <2>3. ~WorksOn(proc'[e], x) /\ (WorksOn(proc[e], x) <=> j.m = x)
    BY <1>6, <2>1, WorkerAssumption DEF Passes, WorksOn, IdleProc
  <2>4. Queued(extractQ', x) = Queued(extractQ, x) - 0 /\ One(j.m = x) \in Int
    BY <1>2, <1>3, <1>6
  <2>5. Open(x)' = Open(x) - One(WorksOn(proc[e], x)) + One(WorksOn(proc'[e], x))
                   - 0 + One(j.m = x)
    BY <1>1, <2>2, <2>4, OpenAfterWork
  <2> QED BY <1>2, <2>3, <2>5 DEF One
<1> QED BY <1>4, <1>5, <1>6, ExtractMoves

LEMMA SimulateFallback ==
    ASSUME TypeOK, OnceInv, NEW f \in Fallbackers, FallbackTake(f) \/ FallbackVerify(f)
    PROVE  Simulated
<1>1. /\ f \in Procs /\ UNCHANGED <<row, sorter, toRescan, rescan, extractQ>>
      /\ \A q \in Procs \ {f} : proc'[q] = proc[q]
      /\ extractQ \in Seq(ExtractJob) /\ fallbackQ \in Seq(FallbackJob)
      /\ IdleEmpty
  BY FallbackFrame DEF Procs, TypeOK, ChannelType, OnceInv
<1> SUFFICES ASSUME NEW x \in Msg PROVE Open(x)' = Open(x)
  BY <1>1, BarsStable, StuttersSimulated
<1>2. Queued(extractQ, x) \in Nat /\ Queued(fallbackQ, x) \in Nat /\ Open(x) \in Nat
  BY <1>1, QueuedType, BarsAt
<1>3. \A b : One(b) \in {0, 1}
  BY DEF One
<1>5. CASE Takes(f, fallbackQ) /\ fallbackQ' = Tail(fallbackQ)
  <2>1. Queued(fallbackQ, x) = Queued(Tail(fallbackQ), x) + One(Head(fallbackQ).m = x)
    BY <1>1, <1>5, QueuedAfter DEF Takes
  <2>2. Queued(fallbackQ', x) \in Nat
    <3>1. Tail(fallbackQ) \in Seq(FallbackJob)
      BY <1>1, <1>5 DEF Takes
    <3> QED BY <1>5, <3>1, QueuedType
  <2>3. Queued(fallbackQ', x) = Queued(fallbackQ, x) + (0 - One(Head(fallbackQ).m = x))
    BY <1>2, <1>3, <1>5, <2>1, <2>2
  <2>4. ~WorksOn(proc[f], x) /\ (WorksOn(proc'[f], x) <=> Head(fallbackQ).m = x)
    BY <1>1, <1>5, WorkerAssumption DEF Takes, WorksOn, IdleEmpty
  <2>5. 0 - One(Head(fallbackQ).m = x) \in Int
    BY <1>3
  <2>6. Open(x)' = Open(x) - One(WorksOn(proc[f], x)) + One(WorksOn(proc'[f], x))
                   + (0 - One(Head(fallbackQ).m = x))
    BY <1>1, <2>3, <2>5, OpenAfterWorkApart
  <2> QED BY <1>2, <2>4, <2>6 DEF One
<1>6. CASE GoesOn(f) /\ UNCHANGED fallbackQ
  <2>1. WorksOn(proc[f], x) <=> WorksOn(proc'[f], x)
    BY <1>6 DEF GoesOn, WorksOn
  <2>2. 0 \in Int /\ Queued(fallbackQ', x) = Queued(fallbackQ, x) + 0
    BY <1>2, <1>6
  <2>3. Open(x)' = Open(x) - One(WorksOn(proc[f], x)) + One(WorksOn(proc'[f], x)) + 0
    BY <1>1, <2>2, OpenAfterWorkApart
  <2> QED BY <1>2, <2>1, <2>3 DEF One
<1> QED BY <1>5, <1>6, FallbackMoves

LEMMA SimulateFinish ==
    ASSUME TypeOK, OnceInv, NEW p \in Procs, FinishStep(p)
    PROVE  Simulated
<1> SUFFICES ASSUME NEW m, m = proc[p].m PROVE Simulated
  OBVIOUS
<1>1. /\ UNCHANGED <<sorter, toRescan, rescan, extractQ, fallbackQ>>
      /\ \A q \in Procs \ {p} : proc'[q] = proc[q]
      /\ extractQ \in Seq(ExtractJob) /\ fallbackQ \in Seq(FallbackJob)
      /\ m \in Msg /\ row[m] \in Row
  BY FinishFrame DEF TypeOK, ChannelType, ProcType, CacheType
<1>2. UNCHANGED <<askedBar, dueBar>>
  BY <1>1, BarsStable
<1>3. ASSUME NEW x \in Msg
      PROVE  /\ Open(x)' = Open(x) - One(WorksOn(proc[p], x)) + One(WorksOn(proc'[p], x))
             /\ WorksOn(proc[p], x) => Open(x) > 0
             /\ Open(x) \in Nat
  <2>1. Queued(extractQ, x) \in Nat /\ Queued(fallbackQ, x) \in Nat /\ Open(x) \in Nat
    BY <1>1, QueuedType, BarsAt
  <2>2. 0 \in Int /\ Queued(fallbackQ', x) = Queued(fallbackQ, x) + 0
    BY <1>1, <2>1
  <2>3. /\ Open(x)' = Open(x) - One(WorksOn(proc[p], x)) + One(WorksOn(proc'[p], x)) + 0
        /\ WorksOn(proc[p], x) => Open(x) > 0
    BY <1>1, <2>2, OpenAfterWorkApart
  <2>4. One(WorksOn(proc[p], x)) \in {0, 1} /\ One(WorksOn(proc'[p], x)) \in {0, 1}
    BY DEF One
  <2> QED BY <2>1, <2>3, <2>4
<1>4. ASSUME Ends(p) PROVE Kept!Closes(m)
  <2>1. ASSUME NEW x \in Msg
        PROVE  (WorksOn(proc[p], x) <=> x = m) /\ ~WorksOn(proc'[p], x)
    BY <1>4, WorkerAssumption DEF Ends, WorksOn, IdleProc
  <2>2. \A x \in Msg : Open(x)' = Open(x) - One(x = m) /\ (x = m => Open(x) > 0)
    BY <1>3, <2>1 DEF One
  <2>3. \A x \in Msg : Open(x) \in Nat
    BY <1>3
  <2>4. /\ Open(m)' = Open(m) - 1 /\ Open(m) > 0
        /\ \A x \in Msg \ {m} : Open(x)' = Open(x)
    BY <1>1, <2>2, <2>3 DEF One
  <2> QED BY <1>1, <2>4, OpenMoves, BarsAt DEF Kept!Closes
<1>5. CASE Ends(p) /\ StoresVerdict(m)
  <2>1. PICK model \in Models \ {"stub", "skip"}, data \in Data, again \in BOOLEAN :
          WriteRow(m, StoreInvoiceExtraction(row[m], model, data, again))
    BY <1>5 DEF StoresVerdict
  <2> DEFINE new == StoreInvoiceExtraction(row[m], model, data, again)
  <2>2. EntryOf(new) = "read"
    BY DEF StoreInvoiceExtraction, EntryOf, Models, VerdictModels
  <2>3. new.attempts = IF entryBar[m] = "none" THEN writesBar[m] ELSE writesBar[m] + 1
    <3>1. HasInvoiceExtraction(row[m]) <=> entryBar[m] # "none"
      BY <1>1, BarsAt DEF EntryOf, HasInvoiceExtraction
    <3>2. ~HasInvoiceExtraction(row[m]) => row[m].attempts = 0
      BY <1>1 DEF OnceInv, RowsBegin, HasInvoiceExtraction, NoRow
    <3> QED BY <1>1, <3>1, <3>2, BarsAt DEF StoreInvoiceExtraction
  <2>4. WriteRow(m, new)
    BY <2>1
  <2> HIDE DEF new
  <2>5. /\ entryBar' = [entryBar EXCEPT ![m] = "read"]
        /\ writesBar' = [writesBar EXCEPT ![m] = new.attempts]
        /\ flaggedBar' \in {flaggedBar \cup {m}, flaggedBar \ {m}}
    BY <1>1, <2>2, <2>4, BarsOfRow
  <2>6. Kept!Settle(m)
    BY <1>2, <1>4, <1>5, <2>3, <2>5 DEF Kept!Settle
  <2> QED BY <1>1, <2>6, MessageSimulated
<1>6. CASE Ends(p) /\ WriteFails /\ UNCHANGED row
  <2>1. LosesBar
    BY <1>6 DEF LosesBar, WriteFails
  <2>2. Kept!Lose(m)
    BY <1>2, <1>4, <1>6, <2>1, BarsStable DEF Kept!Lose
  <2> QED BY <1>1, <2>2, MessageSimulated
<1>7. CASE /\ proc[p].pc \in {"recon", "block"}
           /\ proc'[p] = IdleProc \/ proc'[p].pc = "block"
           /\ UNCHANGED row \/ WriteRow(m, StoreReconciliation(row[m], proc[p].v))
  <2>1. ASSUME NEW x \in Msg PROVE Open(x)' = Open(x)
    <3>1. ~WorksOn(proc[p], x) /\ ~WorksOn(proc'[p], x)
      BY <1>7, WorkerAssumption DEF WorksOn, IdleProc
    <3> QED BY <1>3, <3>1 DEF One
  <2>2. UNCHANGED openBar
    BY <2>1, BarsStable
  <2>3. CASE WriteRow(m, StoreReconciliation(row[m], proc[p].v))
    <3> DEFINE new == StoreReconciliation(row[m], proc[p].v)
    <3>1. /\ new.model = row[m].model /\ new.attempts = row[m].attempts
          /\ new.rescan = row[m].rescan
      BY <1>1 DEF StoreReconciliation, Row
    <3>2. EntryOf(new) = EntryOf(row[m])
      BY <3>1 DEF EntryOf
    <3> HIDE DEF new
    <3>3. /\ entryBar' = [entryBar EXCEPT ![m] = entryBar[m]]
          /\ writesBar' = [writesBar EXCEPT ![m] = writesBar[m]]
          /\ flaggedBar' = IF row[m].rescan THEN flaggedBar \cup {m} ELSE flaggedBar \ {m}
      BY <1>1, <2>3, <3>1, <3>2, BarsOfRow, BarsAt DEF new
    <3>4. UNCHANGED <<entryBar, writesBar, flaggedBar>>
      BY <1>1, <3>3 DEF entryBar, writesBar, flaggedBar
    <3> QED BY <1>2, <2>2, <3>4, StuttersSimulated
  <2> QED BY <1>2, <1>7, <2>2, <2>3, BarsStable, StuttersSimulated
<1> QED BY <1>5, <1>6, <1>7, FinishMoves

\* The main loop: a pass takes its ids from the flagged rows, and finishes
\* with each in one way.
LEMMA RowsInPass ==
    ASSUME NEW r \in Row
    PROVE  /\ EntryOf(MarkRescanExhausted(r)) = EntryOf(r)
           /\ MarkRescanExhausted(r).attempts = r.attempts /\ ~MarkRescanExhausted(r).rescan
           /\ EntryOf(SweepOrphanedRescans(r)) = EntryOf(r)
           /\ SweepOrphanedRescans(r).attempts = r.attempts
           /\ SweepOrphanedRescans(r).rescan => r.rescan
<1>1. /\ MarkRescanExhausted(r).model = r.model
      /\ MarkRescanExhausted(r).attempts = r.attempts
      /\ ~MarkRescanExhausted(r).rescan
  BY DEF MarkRescanExhausted, Row
<1>2. /\ SweepOrphanedRescans(r).model = r.model
      /\ SweepOrphanedRescans(r).attempts = r.attempts
      /\ SweepOrphanedRescans(r).rescan => r.rescan
  BY DEF SweepOrphanedRescans, Row
<1> QED BY <1>1, <1>2 DEF EntryOf

LEMMA SimulateMain ==
    ASSUME TypeOK, ShutdownInv, StatusInv, OnceInv, MainStep
    PROVE  Simulated
<1> USE DEF graphVars, cacheVars, queueVars, clerkVars
<1>1. /\ extractQ \in Seq(ExtractJob) /\ fallbackQ \in Seq(FallbackJob)
      /\ \A m \in Msg : row[m] \in Row
      /\ rescan.pc # "next" => rescan.m \in Msg
      /\ rescan.pc # "next" => rescan.m \notin toRescan
  BY DEF TypeOK, ChannelType, CacheType, MainType, OnceInv, PassOnce
<1>2. UNCHANGED <<proc, sorter, fallbackQ>> /\ UNCHANGED askedBar
  BY BarsStable DEF MainStep, Boot, ListInbox, ListFails, StartRescan, RescanRead,
     RescanExhaust, RescanFetch, RescanSend, EndRescan, LoopCheck, CloseExtract,
     CloseFallback, Exit
<1>3. ASSUME UNCHANGED extractQ PROVE UNCHANGED openBar
  BY <1>2, <1>3, BarsStable DEF Open
<1>4. rescan' = NoRescan => rescan'.pc = "next"
  BY DEF NoRescan
<1>5. ASSUME rescan.pc # "next", rescan'.pc = "next", UNCHANGED toRescan
      PROVE  rescan.m \in dueBar /\ dueBar' = dueBar \ {rescan.m}
  BY <1>1, <1>5 DEF dueBar
<1>6. CASE Boot
  <2>1. UNCHANGED <<dueBar, openBar>>
    BY <1>3, <1>6, BarsStable DEF Boot
  <2>2. CASE UNCHANGED row
    BY <1>2, <2>1, <2>2, BarsStable, StuttersSimulated
  <2>3. CASE row' = [m \in Msg |-> SweepOrphanedRescans(row[m])]
    <3>1. \A m \in Msg : /\ EntryOf(row'[m]) = EntryOf(row[m])
                         /\ row'[m].attempts = row[m].attempts
                         /\ row'[m].rescan => row[m].rescan
      BY <1>1, <2>3, RowsInPass
    <3>2. UNCHANGED <<entryBar, writesBar>> /\ flaggedBar' \subseteq flaggedBar
      BY <3>1 DEF entryBar, writesBar, flaggedBar
    <3>3. Kept!GiveUp
      BY <1>2, <2>1, <3>2 DEF Kept!GiveUp
    <3> QED BY <3>3, PassSimulated
  <2> QED BY <1>6, <2>2, <2>3 DEF Boot
<1>7. CASE StartRescan
  <2>1. UNCHANGED <<entryBar, writesBar, flaggedBar, openBar>>
    BY <1>3, <1>7, BarsStable DEF StartRescan
  <2>2. toRescan = {} /\ rescan.pc = "next" /\ UNCHANGED rescan
    BY <1>7 DEF StartRescan, ShutdownInv, OnceInv, PassOnce
  <2>3. dueBar = {} /\ dueBar' = toRescan'
    BY <2>2 DEF dueBar
  <2>4. toRescan' \subseteq flaggedBar
    BY <1>7 DEF StartRescan, inRescanQueue, flaggedBar
  <2>5. Kept!StartPass
    BY <1>2, <2>1, <2>3, <2>4 DEF Kept!StartPass
  <2> QED BY <2>5, PassSimulated
<1>8. CASE RescanRead
  <2>1. UNCHANGED <<entryBar, writesBar, flaggedBar, openBar>>
    BY <1>3, <1>8, BarsStable DEF RescanRead
  <2>2. PICK m \in toRescan :
          /\ toRescan' = toRescan \ {m}
          /\ \/ UNCHANGED rescan
             \/ \E x : rescan' = [pc |-> "act", m |-> m, cats |-> {}, tier |-> x]
    BY <1>8 DEF RescanRead
  <2>3. rescan.pc = "next" /\ m \in Msg /\ dueBar = toRescan
    BY <1>8, <2>2 DEF RescanRead, dueBar, TypeOK, MainType
  <2>4. CASE UNCHANGED rescan
    <3>1. dueBar' = dueBar \ {m}
      BY <2>2, <2>3, <2>4 DEF dueBar
    <3>2. Kept!OrderAgain(m)
      BY <1>2, <2>1, <2>2, <2>3, <3>1 DEF Kept!OrderAgain
    <3> QED BY <2>3, <3>2, MessageSimulated
  <2>5. CASE rescan'.pc = "act" /\ rescan'.m = m
    <3>1. UNCHANGED dueBar
      BY <2>2, <2>3, <2>5 DEF dueBar
    <3> QED BY <1>2, <2>1, <3>1, StuttersSimulated
  <2> QED BY <2>2, <2>4, <2>5
<1>9. CASE RescanExhaust
  <2> SUFFICES ASSUME NEW m, m = rescan.m PROVE Simulated
    OBVIOUS
  <2>1. /\ m \in Msg /\ row[m] \in Row /\ m \in dueBar /\ dueBar' = dueBar \ {m}
        /\ UNCHANGED openBar
    BY <1>1, <1>3, <1>4, <1>5, <1>9 DEF RescanExhaust
  <2>2. CASE UNCHANGED row
    <3>1. Kept!OrderAgain(m)
      BY <1>2, <2>1, <2>2, BarsStable DEF Kept!OrderAgain
    <3> QED BY <2>1, <3>1, MessageSimulated
  <2>3. CASE WriteRow(m, MarkRescanExhausted(row[m]))
    <3> DEFINE new == MarkRescanExhausted(row[m])
    <3>1. EntryOf(new) = EntryOf(row[m]) /\ new.attempts = row[m].attempts /\ ~new.rescan
      BY <2>1, RowsInPass
    <3> HIDE DEF new
    <3>2. /\ entryBar' = [entryBar EXCEPT ![m] = entryBar[m]]
          /\ writesBar' = [writesBar EXCEPT ![m] = writesBar[m]]
          /\ flaggedBar' = flaggedBar \ {m}
      BY <2>1, <2>3, <3>1, BarsOfRow, BarsAt DEF new
    <3>3. UNCHANGED <<entryBar, writesBar>>
      BY <2>1, <3>2 DEF entryBar, writesBar
    <3>4. Kept!Exhaust(m)
      BY <1>2, <2>1, <3>2, <3>3 DEF Kept!Exhaust
    <3> QED BY <2>1, <3>4, MessageSimulated
  <2> QED BY <1>9, <2>2, <2>3 DEF RescanExhaust
<1>10. CASE RescanFetch
  <2>1. UNCHANGED <<entryBar, writesBar, flaggedBar, openBar>>
    BY <1>3, <1>10, BarsStable DEF RescanFetch
  <2>2. rescan.pc # "next" /\ rescan.m \in Msg /\ UNCHANGED toRescan
    BY <1>1, <1>10 DEF RescanFetch
  <2>3. CASE rescan' = NoRescan
    <3>1. Kept!OrderAgain(rescan.m)
      BY <1>2, <1>4, <1>5, <2>1, <2>2, <2>3 DEF Kept!OrderAgain
    <3> QED BY <2>2, <3>1, MessageSimulated
  <2>4. CASE rescan' = [rescan EXCEPT !.pc = "send", !.cats = cats[rescan.m]]
    <3>1. rescan'.pc = "send" /\ rescan'.m = rescan.m
      BY <2>4 DEF TypeOK, MainType, Rescan
    <3>2. UNCHANGED dueBar
      BY <2>2, <3>1 DEF dueBar
    <3> QED BY <1>2, <2>1, <3>2, StuttersSimulated
  <2> QED BY <1>10, <2>3, <2>4 DEF RescanFetch
<1>11. CASE RescanSend
  <2> SUFFICES ASSUME NEW m, m = rescan.m PROVE Simulated
    OBVIOUS
  <2>1. UNCHANGED <<entryBar, writesBar, flaggedBar>>
    BY <1>11, BarsStable DEF RescanSend
  <2>2. /\ m \in Msg /\ m \in dueBar /\ dueBar' = dueBar \ {m}
    BY <1>1, <1>4, <1>5, <1>11 DEF RescanSend
  <2>3. entryBar[m] \in {"stub", "read"}
    <3>1. row[m].model \notin {"absent", "skip"}
      BY <1>11 DEF RescanSend, StatusInv, RescanStatus, Extracted
    <3> QED BY <2>2, <3>1, BarsAt DEF EntryOf
  <2>4. CASE UNCHANGED extractQ
    <3>1. Kept!OrderAgain(m)
      BY <1>2, <1>3, <2>1, <2>2, <2>4 DEF Kept!OrderAgain
    <3> QED BY <2>2, <3>1, MessageSimulated
  <2>5. CASE extractQ' = Append(extractQ, [m |-> m, cats |-> rescan.cats,
                                           minTier |-> rescan.tier])
    <3> DEFINE j == [m |-> m, cats |-> rescan.cats, minTier |-> rescan.tier]
    <3>1. j \in ExtractJob /\ j.m = m
      BY <1>11, <2>2 DEF RescanSend, TypeOK, MainType, Rescan, ExtractJob
    <3> HIDE DEF j
    <3>2. ASSUME NEW x \in Msg PROVE Open(x)' = Open(x) + One(x = m)
      <4>1. Queued(extractQ', x) = Queued(extractQ, x) + One(x = m)
        BY <1>1, <2>5, <3>1, QueuedAfter DEF j
      <4>2. /\ Queued(extractQ, x) \in Nat /\ Queued(fallbackQ, x) \in Nat
            /\ Handing(x) \in Nat /\ Working(x) \in Nat
        BY <1>1, CountTypes, QueuedType
      <4>3. Open(x)' = Handing(x)' + Queued(extractQ', x) + Queued(fallbackQ', x) + Working(x)'
        BY OpenIsSum DEF Open, Handing, Queued, Working
      <4>4. Handing(x)' = Handing(x) /\ Working(x)' = Working(x)
        BY <1>2 DEF Handing, Working
      <4>5. Open(x) = Handing(x) + Queued(extractQ, x) + Queued(fallbackQ, x) + Working(x)
        BY OpenIsSum
      <4>6. One(x = m) \in {0, 1}
        BY DEF One
      <4> QED BY <1>2, <4>1, <4>2, <4>3, <4>4, <4>5, <4>6
    <3>3. \A x \in Msg : Open(x) \in Nat
      BY BarsAt
    <3>4. Open(m)' = Open(m) + 1 /\ \A x \in Msg \ {m} : Open(x)' = Open(x)
      BY <2>2, <3>2, <3>3 DEF One
    <3>5. Kept!Opens(m)
      BY <2>2, <3>4, OpenMoves DEF Kept!Opens
    <3>6. Kept!OrderAgain(m)
      BY <1>2, <2>1, <2>2, <2>3, <3>5 DEF Kept!OrderAgain
    <3> QED BY <2>2, <3>6, MessageSimulated
  <2> QED BY <1>11, <2>4, <2>5 DEF RescanSend
<1>12. CASE UNCHANGED <<row, toRescan, rescan, extractQ>>
  BY <1>2, <1>3, <1>12, BarsStable, StuttersSimulated
<1> QED BY <1>6, <1>7, <1>8, <1>9, <1>10, <1>11, <1>12
        DEF MainStep, ListInbox, ListFails, EndRescan, LoopCheck, CloseExtract,
            CloseFallback, Exit

\* With no job in any hand nothing is open.
NothingAtHand ==
    /\ \A s \in Sorters : sorter[s].pc = "idle"
    /\ extractQ = <<>> /\ fallbackQ = <<>>
    /\ \A p \in Procs : proc[p].m = NoMsg

LEMMA NothingOpen == NothingAtHand => \A m \in Msg : Open(m) = 0
<1> SUFFICES ASSUME NothingAtHand, NEW m \in Msg PROVE Open(m) = 0
  OBVIOUS
<1> USE FS_EmptySet DEF NothingAtHand
<1>1. Handing(m) = 0
  <2>1. {s \in Sorters : HandsOver(sorter[s], m)} = {}
    BY DEF HandsOver
  <2> QED BY <2>1 DEF Handing
<1>2. Queued(extractQ, m) = 0 /\ Queued(fallbackQ, m) = 0
  <2>1. Places(extractQ, m) = {} /\ Places(fallbackQ, m) = {}
    BY DEF Places
  <2> QED BY <2>1 DEF Queued
<1>3. Working(m) = 0
  <2>1. {p \in Procs : WorksOn(proc[p], m)} = {}
    BY WorkerAssumption DEF WorksOn
  <2> QED BY <2>1 DEF Working
<1> QED BY <1>1, <1>2, <1>3, OpenIsSum

LEMMA NothingOpenNext == (NothingAtHand => \A m \in Msg : Open(m) = 0)'
BY NothingOpen, PTL

LEMMA SimulateCrash ==
    ASSUME TypeOK, Crash
    PROVE  Simulated
<1>1. /\ UNCHANGED row /\ "crash" \in Faults
      /\ \A s \in Sorters : sorter'[s].pc = "idle"
      /\ toRescan' = {} /\ rescan'.pc = "next"
      /\ extractQ' = <<>> /\ fallbackQ' = <<>>
      /\ \A p \in Procs : proc'[p].m = NoMsg
  BY DEF Crash, cacheVars, IdleSorter, IdleProc, NoRescan
<1>2. \A m \in Msg : Open(m)' = 0
  <2>1. NothingAtHand'
    BY <1>1 DEF NothingAtHand
  <2> QED BY <2>1, NothingOpenNext
<1>3. openBar' = [m \in Msg |-> 0]
  BY <1>2 DEF openBar
<1>4. LosesBar
  BY <1>1 DEF LosesBar
<1>5. askedBar' = {} /\ dueBar' = {}
  BY <1>1 DEF askedBar, dueBar
<1>6. Kept!Die
  BY <1>1, <1>3, <1>4, <1>5, BarsStable DEF Kept!Die
<1> QED BY <1>6, PassSimulated

LEMMA SimulateStep ==
    TypeOK /\ ShutdownInv /\ StatusInv /\ OnceInv /\ [Next]_vars => [Kept!Next]_(Kept!vars)
<1> SUFFICES ASSUME TypeOK, ShutdownInv, StatusInv, OnceInv, [Next]_vars PROVE Simulated
  BY DEF Simulated
<1>1. CASE WorldStep \/ Done \/ UNCHANGED vars
  <2>1. UNCHANGED <<row, proc, sorter, extractQ, fallbackQ, toRescan, rescan>>
    BY <1>1 DEF WorldStep, Deliver, Leave, SyncMessage, CooldownExpires, ClerkRead,
                ClerkWrite, Done, vars, cacheVars, queueVars, mainVars
  <2>2. UNCHANGED openBar
    BY <2>1 DEF openBar, Open
  <2> QED BY <2>1, <2>2, BarsStable, StuttersSimulated
<1> QED BY <1>1, SimulateSort, SimulateExtract, SimulateFallback, SimulateFinish,
           SimulateMain, SimulateCrash DEF Next

LEMMA SimulateInit == Init => Kept!Init
<1> SUFFICES ASSUME Init PROVE Kept!Init
  OBVIOUS
<1>1. /\ row = [m \in Msg |-> NoRow]
      /\ \A s \in Sorters : sorter[s].pc = "idle"
      /\ toRescan = {} /\ rescan.pc = "next"
      /\ extractQ = <<>> /\ fallbackQ = <<>>
      /\ \A p \in Procs : proc[p].m = NoMsg
  BY DEF Init, IdleSorter, IdleProc, NoRescan
<1>2. openBar = [m \in Msg |-> 0]
  BY <1>1, NothingOpen DEF NothingAtHand, openBar
<1>3. EntryOf(NoRow) = "none" /\ NoRow.attempts = 0 /\ ~NoRow.rescan
  BY DEF EntryOf, NoRow
<1>4. entryBar = [m \in Msg |-> "none"] /\ writesBar = [m \in Msg |-> 0] /\ flaggedBar = {}
  BY <1>1, <1>3 DEF entryBar, writesBar, flaggedBar
<1>5. askedBar = {} /\ dueBar = {}
  BY <1>1 DEF askedBar, dueBar
<1> QED BY <1>2, <1>4, <1>5 DEF Kept!Init

\* dispatch-worker keeps the ledger, with any number of messages, sort, extract
\* and fallback workers, any channel capacities and any of the faults: between
\* the request of the sort pool (handleMessage) or the rescan pass and the row
\* that is stored (processExtractionResult, StoreInvoiceExtraction) an
\* extraction is neither doubled nor, without a failing write or a crash,
\* dropped, and the attempts of a row are the writes over it.
THEOREM LedgerKept == Spec => KeepsTheLedger
<1> DEFINE IInv == ShutdownInv /\ StatusInv /\ OnceInv
<1>1. Init => IInv
  BY ShutdownInit, StatusInit, OnceInit
<1>2. TypeOK /\ IInv /\ [Next]_vars => IInv'
  BY ShutdownStep, StatusStep, OnceStep
<1>3. TypeOK /\ IInv /\ [Next]_vars => [Kept!Next]_(Kept!vars)
  BY SimulateStep
<1> HIDE DEF IInv
<1> QED BY <1>1, <1>2, <1>3, TypeCorrect, SimulateInit, PTL DEF Spec, KeepsTheLedger, Kept!Spec

=============================================================================
