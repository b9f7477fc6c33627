------------------------- MODULE PoolManagerProofs -------------------------
(***************************************************************************)
(* Proofs of the safety properties of PoolManager for every value of its   *)
(* constants.                                                              *)
(***************************************************************************)
EXTENDS PoolManager, SequenceTheorems, WellFoundedInduction, TLAPS

(* A pool whose Running flag is set has a goroutine that has begun: the    *)
(* strengthening of RunningHasGoroutine that is inductive.                 *)
RunningHasBegun ==
    \A p \in DOMAIN rt : rt[p].Running =>
        \E s \in Slots : gos[s].pool = p /\ gos[s].pc \notin {"idle", "spawned"}

-----------------------------------------------------------------------------
(* The heap.                                                               *)

(* A non-empty set of natural numbers has a least element. *)
LEMMA LeastNat ==
    ASSUME NEW T \in SUBSET Nat, T # {}
    PROVE  \E x \in T : \A y \in T : x <= y
  <1>1. PICK x \in T : \A y \in T : ~ (<<y, x>> \in OpToRel(<, Nat))
    BY NatLessThanWellFounded, WFMin
  <1>2. ASSUME NEW y \in T PROVE x <= y
    <2>1. <<y, x>> \in Nat \X Nat
      OBVIOUS
    <2>2. ~ (<<y, x>>[1] < <<y, x>>[2])
      BY <1>1, <2>1, Zenon DEF OpToRel
    <2> QED
      BY <2>2
  <1> QED
    BY <1>2

(* Stopping and starting a pool keep the heap's type and size. *)
LEMMA StopPoolHeap ==
    ASSUME NEW h \in Seq(PoolRuntime), NEW p \in 1 .. Len(h)
    PROVE  StopPool(h, p) \in Seq(PoolRuntime) /\ Len(StopPool(h, p)) = Len(h)
  <1>1. h[p] \in PoolRuntime
    OBVIOUS
  <1>2. [h[p] EXCEPT !.bExit = TRUE] \in PoolRuntime
    BY <1>1 DEF PoolRuntime
  <1> QED
    BY <1>2, ExceptSeq DEF StopPool

LEMMA StartPoolHeap ==
    ASSUME NEW h \in Seq(PoolRuntime), NEW p \in 1 .. Len(h)
    PROVE  StartPool(h, p) \in Seq(PoolRuntime) /\ Len(StartPool(h, p)) = Len(h)
  <1>1. h[p] \in PoolRuntime
    OBVIOUS
  <1>2. [h[p] EXCEPT !.Enabled = TRUE, !.Running = FALSE, !.Unreachable = FALSE,
                     !.SeqRejected = 0, !.bExit = FALSE] \in PoolRuntime
    BY <1>1 DEF PoolRuntime
  <1> QED
    BY <1>2, ExceptSeq DEF StartPool

(* The pool the scheduler chooses is in the list. *)
LEMMA FirstInSet ==
    ASSUME HeapOK, NEW ks \in SUBSET (1 .. Len(Pools)), ks # {}
    PROVE  First(ks) \in ks
  <1> DEFINE T == {rt[Pools[k]].Priority : k \in ks}
  <1>1. \A k \in ks : rt[Pools[k]] \in PoolRuntime
    BY DEF HeapOK
  <1>2. T \in SUBSET Nat /\ T # {}
    BY <1>1 DEF PoolRuntime
  <1>3. PICK x \in T : \A y \in T : x <= y
    BY <1>2, LeastNat
  <1>4. PICK k \in ks : rt[Pools[k]].Priority = x
    BY <1>3
  <1>5. \A j \in ks : rt[Pools[k]].Priority <= rt[Pools[j]].Priority
    BY <1>3, <1>4
  <1> QED
    BY <1>5 DEF First

LEMMA SchedulePoolInHeap ==
    ASSUME HeapOK, SchedulePool # Nil
    PROVE  SchedulePool \in 1 .. Len(rt)
  <1>1. \A b \in BOOLEAN : Schedulable(b) \in SUBSET (1 .. Len(Pools))
    BY DEF Schedulable, HeapOK
  <1>2. \A b \in BOOLEAN : Schedulable(b) # {} => First(Schedulable(b)) \in 1 .. Len(Pools)
    BY <1>1, FirstInSet
  <1> QED
    BY <1>2 DEF SchedulePool, HeapOK

-----------------------------------------------------------------------------
(* Each operation leaves a well-typed heap in which no object disappears.  *)
HeapGrows == HeapOK' /\ Len(rt') \in Nat /\ Len(rt) <= Len(rt')

LEMMA DoAddPoolHeap ==
    ASSUME HeapOK, NEW cfg, CanAdd(cfg), DoAddPool(cfg)
    PROVE  HeapGrows
  <1> DEFINE r == [Cfg |-> cfg, ID |-> Len(Pools), Priority |-> Len(Pools),
                   Enabled |-> TRUE, Running |-> FALSE, Unreachable |-> FALSE,
                   SeqRejected |-> 0, bExit |-> FALSE]
  <1>1. r \in PoolRuntime
    BY DEF CanAdd, HeapOK, PoolRuntime
  <1>2. rt' = Append(rt, r) /\ Pools' = Append(Pools, Len(rt) + 1)
    BY DEF DoAddPool
  <1> HIDE DEF r
  <1> QED
    BY <1>1, <1>2, AppendProperties DEF HeapOK, HeapGrows

LEMMA SetHeap ==
    ASSUME HeapOK, UNCHANGED Pools, NEW p \in 1 .. Len(rt), NEW r \in PoolRuntime,
           rt' = [rt EXCEPT ![p] = r]
    PROVE  HeapGrows
  BY ExceptSeq DEF HeapOK, HeapGrows

LEMMA MapHeap ==
    ASSUME HeapOK, DOMAIN rt' = DOMAIN rt, rt' = [q \in DOMAIN rt |-> rt'[q]],
           \A q \in DOMAIN rt : rt'[q] \in PoolRuntime,
           Len(Pools) \in Nat, NEW n \in 0 .. Len(Pools),
           Pools' \in [1 .. n -> 1 .. Len(rt)]
    PROVE  HeapGrows
  <1>1. rt' \in [1 .. Len(rt) -> PoolRuntime] /\ Len(rt) \in Nat
    BY DEF HeapOK
  <1>2. rt' \in Seq(PoolRuntime) /\ Len(rt') = Len(rt)
    BY <1>1
  <1>3. Pools' \in Seq(1 .. Len(rt)) /\ Len(Pools') = n
    OBVIOUS
  <1>4. Pools' \in Seq(Nat) /\ \A k \in 1 .. Len(Pools') : Pools'[k] \in 1 .. Len(rt)
    BY <1>3
  <1> QED
    BY <1>1, <1>2, <1>4 DEF HeapOK, HeapGrows

LEMMA RemovePoolHeap ==
    ASSUME HeapOK, NEW ID \in Nat, RemovePool(ID)
    PROVE  HeapGrows
  <1> DEFINE p == Pools[ID + 1]
  <1>1. /\ p \in 1 .. Len(rt)
        /\ Len(Pools) \in Nat
        /\ Len(Pools) > 1
        /\ ID < Len(Pools)
    <2>1. Len(Pools) > 1 /\ ID < Len(Pools)
      BY DEF RemovePool
    <2>2. Len(Pools) \in Nat /\ ID + 1 \in 1 .. Len(Pools)
      BY <2>1 DEF HeapOK
    <2> QED
      BY <2>1, <2>2 DEF HeapOK
  <1>2. Pools' \in [1 .. Len(Pools) - 1 -> 1 .. Len(rt)]
    <2>1. Pools' = [k \in 1 .. Len(Pools) - 1 |-> IF k <= ID THEN Pools[k] ELSE Pools[k + 1]]
      BY DEF RemovePool
    <2>2. \A k \in 1 .. Len(Pools) - 1 : k \in 1 .. Len(Pools) /\ k + 1 \in 1 .. Len(Pools)
      BY <1>1
    <2> QED
      BY <2>1, <2>2 DEF HeapOK
  <1>3. ASSUME NEW q \in DOMAIN rt PROVE rt'[q] \in PoolRuntime
    <2>1. rt[q] \in PoolRuntime /\ rt[p] \in PoolRuntime
      BY <1>1 DEF HeapOK
    <2>2. CASE q = p
      <3>1. StopPool(rt, p)[p] \in PoolRuntime
        BY <1>1, StopPoolHeap DEF HeapOK
      <3> QED
        BY <2>2, <3>1 DEF RemovePool
    <2>3. CASE q # p /\ ~InList(q)
      BY <2>1, <2>3 DEF RemovePool
    <2>4. CASE q # p /\ InList(q)
      <3> DEFINE a == IF rt[q].Priority > rt[p].Priority THEN rt[q].Priority - 1
                                                          ELSE rt[q].Priority
                 b == IF rt[q].ID > ID THEN rt[q].ID - 1 ELSE rt[q].ID
      <3>1. a \in Nat /\ b \in Nat
        BY <2>1 DEF PoolRuntime
      <3>2. rt'[q] = [rt[q] EXCEPT !.Priority = a, !.ID = b]
        BY <2>4 DEF RemovePool
      <3> HIDE DEF a, b
      <3> QED
        BY <2>1, <3>1, <3>2 DEF PoolRuntime
    <2> QED
      BY <2>2, <2>3, <2>4
  <1>4. DOMAIN rt' = DOMAIN rt /\ rt' = [q \in DOMAIN rt |-> rt'[q]]
    BY DEF RemovePool
  <1> QED
    BY <1>1, <1>2, <1>3, <1>4, MapHeap

LEMMA SwitchPoolHeap ==
    ASSUME HeapOK, NEW ID \in Nat, SwitchPool(ID)
    PROVE  HeapGrows /\ Pools[ID + 1] \in 1 .. Len(rt)
  <1> DEFINE p == Pools[ID + 1]
  <1>1. p \in 1 .. Len(rt) /\ rt[p] \in PoolRuntime /\ Len(Pools) \in Nat /\ ID < Len(Pools)
    <2>1. ID < Len(Pools)
      BY DEF SwitchPool
    <2>2. Len(Pools) \in Nat /\ ID + 1 \in 1 .. Len(Pools)
      BY <2>1 DEF HeapOK
    <2> QED
      BY <2>1, <2>2 DEF HeapOK
  <1>2. CASE rt[p].ID = 0
    <2>1. UNCHANGED Pools /\ rt' = [rt EXCEPT ![p] = [rt[p] EXCEPT !.Enabled = TRUE]]
      BY <1>2 DEF SwitchPool
    <2>2. [rt[p] EXCEPT !.Enabled = TRUE] \in PoolRuntime
      BY <1>1 DEF PoolRuntime
    <2> QED
      BY <1>1, <2>1, <2>2, SetHeap
  <1>3. CASE rt[p].ID # 0
    <2>1. Pools' \in [1 .. Len(Pools) -> 1 .. Len(rt)]
      <3>1. Pools' = [k \in DOMAIN Pools |->
                        IF k = 1 THEN p ELSE IF k <= ID + 1 THEN Pools[k - 1] ELSE Pools[k]]
        BY <1>3 DEF SwitchPool
      <3>2. DOMAIN Pools = 1 .. Len(Pools)
        BY DEF HeapOK
      <3>3. \A k \in 1 .. Len(Pools) : k # 1 => k - 1 \in 1 .. Len(Pools)
        BY <1>1
      <3> QED
        BY <1>1, <3>1, <3>2, <3>3 DEF HeapOK
    <2>2. ASSUME NEW q \in DOMAIN rt PROVE rt'[q] \in PoolRuntime
      <3>1. rt[q] \in PoolRuntime
        BY DEF HeapOK
      <3>2. \/ rt'[q] = rt[q]
            \/ rt'[q] = [rt[q] EXCEPT !.ID = 0, !.Priority = 0, !.Enabled = TRUE]
            \/ rt'[q] = [rt[q] EXCEPT !.ID = @ + 1, !.Priority = @ + 1]
        BY <1>3 DEF SwitchPool
      <3>3. /\ [rt[q] EXCEPT !.ID = 0, !.Priority = 0, !.Enabled = TRUE] \in PoolRuntime
            /\ [rt[q] EXCEPT !.ID = @ + 1, !.Priority = @ + 1] \in PoolRuntime
        <4> DEFINE a == rt[q].ID + 1
                   b == rt[q].Priority + 1
        <4>1. a \in Nat /\ b \in Nat
          BY <3>1 DEF PoolRuntime
        <4>2. [rt[q] EXCEPT !.ID = a, !.Priority = b] \in PoolRuntime
          <5> HIDE DEF a, b
          <5> QED
            BY <3>1, <4>1 DEF PoolRuntime
        <4> QED
          BY <3>1, <4>2 DEF PoolRuntime
      <3> QED
        BY <3>1, <3>2, <3>3
    <2>3. DOMAIN rt' = DOMAIN rt /\ rt' = [q \in DOMAIN rt |-> rt'[q]]
      BY <1>3 DEF SwitchPool
    <2> QED
      BY <1>1, <2>1, <2>2, <2>3, MapHeap
  <1> QED
    BY <1>1, <1>2, <1>3

LEMMA TickHeap ==
    ASSUME HeapOK, SchedulerOK, Tick
    PROVE  /\ HeapGrows
           /\ UNCHANGED Pools
           /\ SchedulePool \in 1 .. Len(rt)
           /\ rt[SchedulePool] \in PoolRuntime
  <1> DEFINE p == SchedulePool
             h == IF ~rt[p].Running THEN StartPool(rt, p) ELSE rt
  <1>1. p # Nil /\ p \in 1 .. Len(rt)
    BY SchedulePoolInHeap DEF Tick
  <1>2. h \in Seq(PoolRuntime) /\ Len(h) = Len(rt)
    BY <1>1, StartPoolHeap DEF HeapOK
  <1>3. rt' = IF currentpool \notin {p, Nil} THEN StopPool(h, currentpool) ELSE h
    BY DEF Tick
  <1>4. rt' \in Seq(PoolRuntime) /\ Len(rt') = Len(rt)
    <2> HIDE DEF h, p
    <2> QED
      BY <1>2, <1>3, StopPoolHeap DEF SchedulerOK, Nil
  <1>5. UNCHANGED Pools
    BY DEF Tick
  <1> QED
    BY <1>1, <1>4, <1>5 DEF HeapOK, HeapGrows

LEMMA RunHeap ==
    ASSUME HeapOK, GoroutinesOK, NEW s \in Slots, Run(s)
    PROVE  HeapGrows
  <1> DEFINE p == gos[s].pool
  <1>1. UNCHANGED Pools
    BY DEF Run, GoBegin, GoLoop, GoEnd, GoDial, GoReturn, UpdateShares, RunUnchanged
  <1>2. CASE GoDial(s) \/ GoReturn(s)
    BY <1>2 DEF GoDial, GoReturn, RunUnchanged, HeapOK, HeapGrows
  <1>3. CASE ~(GoDial(s) \/ GoReturn(s))
    <2>1. gos[s].pc # "idle"
      BY <1>3 DEF Run, GoBegin, GoLoop, GoEnd, UpdateShares
    <2>2. p \in 1 .. Len(rt) /\ rt[p] \in PoolRuntime
      BY <2>1 DEF GoroutinesOK, HeapOK
    <2>3. PICK r \in PoolRuntime : rt' = [rt EXCEPT ![p] = r]
      <3>1. CASE GoBegin(s) \/ GoEnd(s)
        <4>1. PICK b \in BOOLEAN : rt' = [rt EXCEPT ![p] = [rt[p] EXCEPT !.Running = b]]
          BY <3>1 DEF GoBegin, GoEnd
        <4>2. [rt[p] EXCEPT !.Running = b] \in PoolRuntime
          BY <2>2 DEF PoolRuntime
        <4> QED
          BY <4>1, <4>2
      <3>2. CASE GoLoop(s)
        <4> DEFINE exit == gos[s].err # "nil" \/ rt[p].bExit
                   unr  == rt[p].Unreachable \/ gos[s].err = "Unreachable"
        <4>1. exit \in BOOLEAN /\ unr \in BOOLEAN
          OBVIOUS
        <4>2. rt' = [rt EXCEPT ![p] = [rt[p] EXCEPT !.bExit = exit, !.Unreachable = unr]]
          BY <3>2, <2>2 DEF GoLoop, HeapOK
        <4>3. [rt[p] EXCEPT !.bExit = exit, !.Unreachable = unr] \in PoolRuntime
          <5> HIDE DEF exit, unr
          <5> QED
            BY <2>2, <4>1 DEF PoolRuntime
        <4> QED
          BY <4>2, <4>3
      <3>3. CASE \E bAccepted \in BOOLEAN : UpdateShares(s, bAccepted)
        <4>1. PICK n \in Nat : rt' = [rt EXCEPT ![p] = [rt[p] EXCEPT !.SeqRejected = n]]
          <5>1. PICK b \in BOOLEAN : UpdateShares(s, b)
            BY <3>3
          <5> DEFINE n == IF b THEN 0 ELSE IF rt[p].SeqRejected > MAX_POOL_SEQREJECT
                                           THEN rt[p].SeqRejected ELSE rt[p].SeqRejected + 1
          <5>2. n \in Nat
            BY <2>2 DEF PoolRuntime
          <5>3. rt' = [rt EXCEPT ![p] = [rt[p] EXCEPT !.SeqRejected = n]]
            BY <5>1 DEF UpdateShares
          <5> QED
            BY <5>2, <5>3
        <4>2. [rt[p] EXCEPT !.SeqRejected = n] \in PoolRuntime
          BY <2>2 DEF PoolRuntime
        <4> QED
          BY <4>1, <4>2
      <3> QED
        BY <1>3, <3>1, <3>2, <3>3 DEF Run
    <2> QED
      BY <1>1, <2>2, <2>3, SetHeap
  <1> QED
    BY <1>2, <1>3

-----------------------------------------------------------------------------
(* Type correctness.                                                       *)

(* Every step keeps the heap well-typed, and no object disappears. *)
LEMMA NextHeap == TypeOK /\ [Next]_vars => HeapGrows
  <1> SUFFICES ASSUME TypeOK, [Next]_vars PROVE HeapGrows
    OBVIOUS
  <1>0. HeapOK /\ SchedulerOK /\ GoroutinesOK /\ IDs \subseteq Nat
    BY NumberAssumption DEF TypeOK, IDs
  <1>1. CASE UNCHANGED <<rt, Pools>>
    BY <1>0, <1>1 DEF HeapOK, HeapGrows
  <1>2. ASSUME NEW cfg, AddPool(cfg) PROVE HeapGrows
    BY <1>0, <1>2, DoAddPoolHeap DEF AddPool
  <1>3. ASSUME NEW ID \in IDs, RemovePool(ID) PROVE HeapGrows
    BY <1>0, <1>3, RemovePoolHeap
  <1>4. ASSUME NEW ID \in IDs, EnablePool(ID) \/ DisablePool(ID) PROVE HeapGrows
    <2> DEFINE p == Pools[ID + 1]
    <2>1. ID + 1 \in 1 .. Len(Pools)
      BY <1>0, <1>4 DEF EnablePool, DisablePool, HeapOK
    <2>2. p \in 1 .. Len(rt) /\ rt[p] \in PoolRuntime
      BY <1>0, <2>1 DEF HeapOK
    <2>3. PICK b \in BOOLEAN : rt' = [rt EXCEPT ![p] = [rt[p] EXCEPT !.Enabled = b]]
      BY <1>4 DEF EnablePool, DisablePool
    <2>4. [rt[p] EXCEPT !.Enabled = b] \in PoolRuntime
      BY <2>2 DEF PoolRuntime
    <2>5. UNCHANGED Pools
      BY <1>4 DEF EnablePool, DisablePool
    <2> QED
      BY <1>0, <2>2, <2>3, <2>4, <2>5, SetHeap
  <1>5. ASSUME NEW ID \in IDs, SwitchPool(ID) PROVE HeapGrows
    BY <1>0, <1>5, SwitchPoolHeap
  <1>6. CASE UpdateRemoveAll
    BY <1>0, <1>6 DEF UpdateRemoveAll, RemoveAllPools, HeapOK, HeapGrows
  <1>7. CASE UpdateAdd
    <2>1. UNCHANGED <<rt, Pools>> \/ (CanAdd(Head(upd.cfgs)) /\ DoAddPool(Head(upd.cfgs)))
      BY <1>7 DEF UpdateAdd
    <2> QED
      BY <1>0, <1>1, <2>1, DoAddPoolHeap
  <1>8. CASE Tick
    BY <1>0, <1>8, TickHeap
  <1>9. ASSUME NEW s \in Slots, Run(s) PROVE HeapGrows
    BY <1>0, <1>9, RunHeap
  <1>10. CASE \/ SwitchWait
              \/ \E cfgs \in Configs, ztp \in BOOLEAN : UpdatePools(cfgs, ztp)
              \/ UpdateCompare \/ UpdateEnd \/ Fini
              \/ UNCHANGED vars
    BY <1>1, <1>10 DEF SwitchWait, UpdatePools, UpdateCompare, UpdateEnd, Fini, vars
  <1> QED
    BY <1>2, <1>3, <1>4, <1>5, <1>6, <1>7, <1>8, <1>9, <1>10 DEF Next, ListOp, Update

LEMMA NextScheduler == TypeOK /\ [Next]_vars => SchedulerOK'
  <1> SUFFICES ASSUME TypeOK, [Next]_vars PROVE SchedulerOK'
    OBVIOUS
  <1>0. SchedulerOK /\ Len(rt) \in Nat /\ Len(rt') \in Nat /\ Len(rt) <= Len(rt')
    BY NextHeap DEF TypeOK, HeapOK, HeapGrows
  <1>1. CASE UNCHANGED <<CurrentPoolIndex, currentpool, mgr, bExit>>
    BY <1>0, <1>1 DEF SchedulerOK
  <1>2. CASE Tick
    <2>1. SchedulePool \in 1 .. Len(rt) /\ rt[SchedulePool] \in PoolRuntime
      BY <1>2, TickHeap DEF TypeOK
    <2>2. rt[SchedulePool].ID \in Nat
      BY <2>1 DEF PoolRuntime
    <2> QED
      BY <1>0, <1>2, <2>1, <2>2 DEF Tick, SchedulerOK
  <1>3. CASE UpdateEnd
    BY <1>0, <1>3, NumberAssumption DEF UpdateEnd, NoIndex, SchedulerOK
  <1>4. CASE Fini
    BY <1>0, <1>4 DEF Fini, SchedulerOK
  <1>5. ASSUME NEW s \in Slots, Run(s) PROVE SchedulerOK'
    BY <1>1, <1>5 DEF Run, GoBegin, GoLoop, GoEnd, GoDial, GoReturn, UpdateShares, RunUnchanged
  <1>6. CASE ListOp
    BY <1>1, <1>6 DEF ListOp, AddPool, RemovePool, EnablePool, DisablePool, SwitchPool
  <1>7. CASE SwitchWait \/ UNCHANGED vars
    BY <1>1, <1>7 DEF SwitchWait, vars
  <1>8. CASE Update /\ ~UpdateEnd
    BY <1>1, <1>8 DEF Update, UpdatePools, UpdateCompare, UpdateRemoveAll, UpdateAdd
  <1> QED
    BY <1>2, <1>3, <1>4, <1>5, <1>6, <1>7, <1>8 DEF Next

LEMMA NextGoroutines == TypeOK /\ [Next]_vars => GoroutinesOK'
  <1> SUFFICES ASSUME TypeOK, [Next]_vars PROVE GoroutinesOK'
    OBVIOUS
  <1>0. GoroutinesOK /\ Len(rt) \in Nat /\ Len(rt') \in Nat /\ Len(rt) <= Len(rt')
    BY NextHeap DEF TypeOK, HeapOK, HeapGrows
  <1>1. CASE UNCHANGED gos
    BY <1>0, <1>1 DEF GoroutinesOK
  <1>2. CASE Tick
    <2>1. SchedulePool \in 1 .. Len(rt)
      BY <1>2, TickHeap DEF TypeOK
    <2>2. CASE ~UNCHANGED gos
      <3>1. PICK s \in Slots :
               gos' = [gos EXCEPT ![s] = [pool |-> SchedulePool, pc |-> "spawned", err |-> "nil"]]
        BY <1>2, <2>2 DEF Tick
      <3> QED
        BY <1>0, <2>1, <3>1 DEF GoroutinesOK, Goroutine, Pcs, Errs
    <2> QED
      BY <1>1, <2>2
  <1>3. ASSUME NEW s \in Slots, Run(s) PROVE GoroutinesOK'
    <2>1. CASE GoEnd(s)
      BY <1>0, <2>1 DEF GoEnd, NoGoroutine, Nil, GoroutinesOK, Goroutine, Pcs, Errs
    <2>2. CASE \E b \in BOOLEAN : UpdateShares(s, b)
      BY <1>1, <2>2 DEF UpdateShares
    <2>3. CASE GoBegin(s) \/ GoLoop(s) \/ GoDial(s) \/ GoReturn(s)
      <3>1. gos[s].pc # "idle"
        BY <2>3 DEF GoBegin, GoLoop, GoDial, GoReturn
      <3>2. PICK pc \in Pcs, err \in Errs : Goto(s, pc, err)
        BY <2>3 DEF GoBegin, GoLoop, GoDial, GoReturn, Pcs, Errs
      <3> QED
        <4>1. gos[s] \in Goroutine /\ gos[s].pool \in 1 .. Len(rt)
          BY <1>0, <3>1 DEF GoroutinesOK
        <4>2. [gos[s] EXCEPT !.pc = pc, !.err = err] \in Goroutine
          BY <4>1 DEF Goroutine
        <4>3. gos' = [gos EXCEPT ![s] = [gos[s] EXCEPT !.pc = pc, !.err = err]]
          BY <3>2 DEF Goto
        <4>4. gos' \in [Slots -> Goroutine]
          BY <1>0, <4>2, <4>3 DEF GoroutinesOK
        <4>5. \A t \in Slots : gos'[t].pool = gos[t].pool /\ (t # s => gos'[t].pc = gos[t].pc)
          BY <1>0, <4>1, <4>3 DEF GoroutinesOK, Goroutine
        <4> QED
          BY <1>0, <4>1, <4>4, <4>5 DEF GoroutinesOK
    <2> QED
      BY <1>3, <2>1, <2>2, <2>3 DEF Run
  <1>4. CASE ListOp \/ SwitchWait \/ Update \/ Fini \/ UNCHANGED vars
    BY <1>1, <1>4 DEF ListOp, AddPool, RemovePool, EnablePool, DisablePool, SwitchPool, SwitchWait,
       Update, UpdatePools, UpdateCompare, UpdateRemoveAll, UpdateAdd, UpdateEnd, Fini, vars
  <1> QED
    BY <1>2, <1>3, <1>4 DEF Next

LEMMA NextCalls == TypeOK /\ [Next]_vars => CallsOK'
  <1> SUFFICES ASSUME TypeOK, [Next]_vars PROVE CallsOK'
    OBVIOUS
  <1>0. CallsOK /\ Len(rt) \in Nat /\ Len(rt') \in Nat /\ Len(rt) <= Len(rt')
    BY NextHeap DEF TypeOK, HeapOK, HeapGrows
  <1>1. CASE UNCHANGED <<upd, sw, ops>>
    BY <1>0, <1>1 DEF CallsOK
  <1>2. CASE UNCHANGED <<upd, sw>> /\ ApiCall
    BY <1>0, <1>2, BoundAssumption DEF ApiCall, CallsOK
  <1>3. ASSUME NEW ID \in IDs, SwitchPool(ID) PROVE CallsOK'
    <2>1. Pools[ID + 1] \in 1 .. Len(rt)
      BY <1>3, NumberAssumption, SwitchPoolHeap DEF IDs, TypeOK
    <2> QED
      <3>1. sw' = [pc |-> "wait", pool |-> Pools[ID + 1]] /\ ApiCall /\ UNCHANGED upd
        BY <1>3 DEF SwitchPool
      <3> QED
        BY <1>0, <2>1, <3>1, BoundAssumption DEF ApiCall, CallsOK
  <1>4. CASE SwitchWait
    BY <1>0, <1>4 DEF SwitchWait, NoSwitch, Nil, CallsOK
  <1>5. ASSUME NEW cfgs \in Configs, NEW ztp \in BOOLEAN, UpdatePools(cfgs, ztp) PROVE CallsOK'
    <2>1. cfgs \in Seq(Cfg)
      BY ConfigsAssumption
    <2>2. PICK pc \in {"compare", "remove"} : upd' = [pc |-> pc, cfgs |-> cfgs, ztp |-> ztp]
      BY <1>5 DEF UpdatePools
    <2>3. UNCHANGED sw /\ ApiCall
      BY <1>5 DEF UpdatePools
    <2> QED
      BY <1>0, <2>1, <2>2, <2>3, BoundAssumption DEF ApiCall, CallsOK
  <1>6. CASE UpdateCompare \/ UpdateEnd
    <2>1. NoUpdate \in [pc : {"idle", "compare", "remove", "add"}, cfgs : Seq(Cfg), ztp : BOOLEAN]
      BY EmptySeq DEF NoUpdate
    <2>2. upd' = NoUpdate \/ upd' = [upd EXCEPT !.pc = "remove"]
      BY <1>6 DEF UpdateCompare, UpdateEnd
    <2>3. UNCHANGED <<sw, ops>>
      BY <1>6 DEF UpdateCompare, UpdateEnd
    <2> QED
      BY <1>0, <2>1, <2>2, <2>3 DEF CallsOK
  <1>7. CASE UpdateRemoveAll
    <2> DEFINE c == IF Len(upd.cfgs) > MAX_POOL_NUMBER
                    THEN SubSeq(upd.cfgs, 1, MAX_POOL_NUMBER) ELSE upd.cfgs
    <2>1. upd.cfgs \in Seq(Cfg)
      BY <1>0 DEF CallsOK
    <2>2. c \in Seq(Cfg)
      BY <2>1, NumberAssumption, SubSeqProperties
    <2>3. upd' = [upd EXCEPT !.pc = "add", !.cfgs = c] /\ UNCHANGED <<sw, ops>>
      BY <1>7 DEF UpdateRemoveAll
    <2> HIDE DEF c
    <2> QED
      <3>1. upd' \in [pc : {"idle", "compare", "remove", "add"}, cfgs : Seq(Cfg), ztp : BOOLEAN]
        BY <1>0, <2>2, <2>3 DEF CallsOK
      <3> QED
        BY <1>0, <2>3, <3>1 DEF CallsOK
  <1>8. CASE UpdateAdd
    <2>1. Tail(upd.cfgs) \in Seq(Cfg)
      BY <1>0, <1>8, HeadTailProperties DEF UpdateAdd, CallsOK
    <2>2. upd' = [upd EXCEPT !.cfgs = Tail(upd.cfgs)] /\ UNCHANGED <<sw, ops>>
      BY <1>8 DEF UpdateAdd
    <2> QED
      <3>1. upd' \in [pc : {"idle", "compare", "remove", "add"}, cfgs : Seq(Cfg), ztp : BOOLEAN]
        BY <1>0, <2>1, <2>2 DEF CallsOK
      <3> QED
        BY <1>0, <2>2, <3>1 DEF CallsOK
  <1>9. CASE ListOp /\ ~(\E ID \in IDs : SwitchPool(ID))
    BY <1>1, <1>2, <1>9 DEF ListOp, AddPool, RemovePool, EnablePool, DisablePool
  <1>10. CASE Fini
    BY <1>2, <1>10 DEF Fini
  <1>11. CASE Tick \/ UNCHANGED vars
    BY <1>1, <1>11 DEF Tick, vars
  <1>12. ASSUME NEW s \in Slots, Run(s) PROVE CallsOK'
    BY <1>1, <1>12 DEF Run, GoBegin, GoLoop, GoEnd, GoDial, GoReturn, UpdateShares, RunUnchanged
  <1> QED
    BY <1>3, <1>4, <1>5, <1>6, <1>7, <1>8, <1>9, <1>10, <1>11, <1>12 DEF Next, ListOp, Update

LEMMA InitTypeOK == Init => TypeOK
  <1> SUFFICES ASSUME Init PROVE TypeOK
    OBVIOUS
  <1>1. HeapOK /\ Len(rt) = 0
    BY EmptySeq DEF Init, HeapOK
  <1>2. SchedulerOK
    <2>1. CurrentPoolIndex = 0 /\ currentpool = 0 /\ mgr = "init" /\ bExit = FALSE
      BY DEF Init, Nil
    <2>2. bExit \in BOOLEAN
      BY <2>1, Zenon
    <2>3. currentpool \in 0 .. Len(rt) /\ CurrentPoolIndex \in Nat
      BY <1>1, <2>1
    <2> QED
      BY <2>1, <2>2, <2>3, Zenon DEF SchedulerOK
  <1>3. GoroutinesOK
    BY DEF Init, NoGoroutine, Nil, GoroutinesOK, Goroutine, Pcs, Errs
  <1>4. CallsOK
    <2>1. PICK c \in Configs : upd = [pc |-> "remove", cfgs |-> c, ztp |-> FALSE]
      BY DEF Init
    <2>2. c \in Seq(Cfg)
      BY ConfigsAssumption
    <2>3. upd \in [pc : {"idle", "compare", "remove", "add"}, cfgs : Seq(Cfg), ztp : BOOLEAN]
      BY <2>1, <2>2
    <2>4. sw \in [pc : {"idle", "wait", "reported"}, pool : Nat] /\ sw.pc = "idle"
      BY DEF Init, NoSwitch, Nil
    <2>5. ops \in 0 .. MaxOps
      BY BoundAssumption DEF Init
    <2> QED
      BY <2>3, <2>4, <2>5 DEF CallsOK
  <1> QED
    BY <1>1, <1>2, <1>3, <1>4 DEF TypeOK

(* Type correctness: no operation, in any interleaving, leaves a dangling  *)
(* reference in the list, the scheduler, a goroutine or a waiting call.    *)
THEOREM TypeCorrect == Spec => []TypeOK
  <1>1. TypeOK /\ [Next]_vars => TypeOK'
    BY NextHeap, NextScheduler, NextGoroutines, NextCalls DEF TypeOK, HeapGrows
  <1> QED
    BY InitTypeOK, <1>1, PTL DEF Spec

-----------------------------------------------------------------------------
(* Which flags the steps other than the scheduler's and the goroutines'    *)
(* may change: none is woken up (bExit is never cleared) and none is       *)
(* declared running, or no longer running.                                 *)
FlagsKept ==
    /\ \A p \in 1 .. Len(rt) : rt[p].bExit => rt'[p].bExit
    /\ \A p \in 1 .. Len(rt) : rt'[p].Running = rt[p].Running
    /\ \A p \in 1 .. Len(rt') : p \notin 1 .. Len(rt) => ~rt'[p].Running

LEMMA DoAddPoolFlags ==
    ASSUME HeapOK, NEW cfg, CanAdd(cfg), DoAddPool(cfg)
    PROVE  FlagsKept
  <1> DEFINE r == [Cfg |-> cfg, ID |-> Len(Pools), Priority |-> Len(Pools),
                   Enabled |-> TRUE, Running |-> FALSE, Unreachable |-> FALSE,
                   SeqRejected |-> 0, bExit |-> FALSE]
  <1>1. r \in PoolRuntime /\ ~r.Running
    BY DEF CanAdd, HeapOK, PoolRuntime
  <1>2. rt' = Append(rt, r)
    BY DEF DoAddPool
  <1> HIDE DEF r
  <1> QED
    BY <1>1, <1>2, AppendProperties DEF HeapOK, FlagsKept

LEMMA RemovePoolFlags ==
    ASSUME HeapOK, NEW ID \in Nat, RemovePool(ID)
    PROVE  FlagsKept
  <1> DEFINE p == Pools[ID + 1]
  <1>1. DOMAIN rt' = DOMAIN rt /\ rt' = [q \in DOMAIN rt |-> rt'[q]]
    BY DEF RemovePool
  <1>2. HeapOK' /\ Len(rt') = Len(rt) /\ p \in 1 .. Len(rt)
    <2>1. HeapGrows
      BY RemovePoolHeap
    <2>2. DOMAIN rt = 1 .. Len(rt) /\ DOMAIN rt' = 1 .. Len(rt') /\ Len(rt) \in Nat
      BY <2>1 DEF HeapGrows, HeapOK
    <2>3. Len(rt') = Len(rt)
      BY <1>1, <2>1, <2>2 DEF HeapGrows
    <2>4. ID + 1 \in 1 .. Len(Pools)
      <3>1. ID < Len(Pools)
        BY DEF RemovePool
      <3>2. Len(Pools) \in Nat
        BY DEF HeapOK
      <3> QED
        BY <3>1, <3>2
    <2> QED
      BY <2>1, <2>3, <2>4 DEF HeapGrows, HeapOK
  <1>3. ASSUME NEW q \in 1 .. Len(rt)
        PROVE  (rt[q].bExit => rt'[q].bExit) /\ rt'[q].Running = rt[q].Running
    <2>1. rt[q] \in PoolRuntime /\ rt[p] \in PoolRuntime /\ q \in DOMAIN rt /\ p \in DOMAIN rt
      BY <1>2 DEF HeapOK
    <2>2. CASE q = p
      <3>1. rt'[p] = [rt[p] EXCEPT !.bExit = TRUE]
        BY <2>1, <2>2 DEF RemovePool, StopPool
      <3> QED
        BY <2>1, <2>2, <3>1 DEF PoolRuntime
    <2>3. CASE q # p
      <3>1. PICK a, b : rt'[q] = rt[q] \/ rt'[q] = [rt[q] EXCEPT !.Priority = a, !.ID = b]
        BY <2>1, <2>3 DEF RemovePool
      <3> QED
        BY <2>1, <3>1 DEF PoolRuntime
    <2> QED
      BY <2>2, <2>3
  <1> QED
    BY <1>2, <1>3 DEF FlagsKept

LEMMA SwitchPoolFlags ==
    ASSUME HeapOK, NEW ID \in Nat, SwitchPool(ID)
    PROVE  FlagsKept
  <1> DEFINE p == Pools[ID + 1]
  <1>1. HeapGrows /\ p \in 1 .. Len(rt)
    BY SwitchPoolHeap
  <1>2. DOMAIN rt' = DOMAIN rt
    BY DEF SwitchPool
  <1>3. Len(rt') = Len(rt)
    <2>1. DOMAIN rt = 1 .. Len(rt) /\ DOMAIN rt' = 1 .. Len(rt') /\ Len(rt) \in Nat
      BY <1>1 DEF HeapGrows, HeapOK
    <2> QED
      BY <1>1, <1>2, <2>1 DEF HeapGrows
  <1>4. ASSUME NEW q \in 1 .. Len(rt)
        PROVE  (rt[q].bExit => rt'[q].bExit) /\ rt'[q].Running = rt[q].Running
    <2>1. rt[q] \in PoolRuntime /\ q \in DOMAIN rt
      BY DEF HeapOK
    <2>2. PICK a, b : \/ rt'[q] = rt[q]
                      \/ rt'[q] = [rt[q] EXCEPT !.Enabled = TRUE]
                      \/ rt'[q] = [rt[q] EXCEPT !.ID = a, !.Priority = b, !.Enabled = TRUE]
                      \/ rt'[q] = [rt[q] EXCEPT !.ID = a, !.Priority = b]
      <3>1. CASE rt[p].ID = 0
        <4>1. rt' = [rt EXCEPT ![p] = [rt[p] EXCEPT !.Enabled = TRUE]]
          BY <3>1 DEF SwitchPool
        <4> QED
          BY <2>1, <4>1
      <3>2. CASE rt[p].ID # 0
        <4>1. \/ rt'[q] = rt[q]
              \/ rt'[q] = [rt[q] EXCEPT !.ID = 0, !.Priority = 0, !.Enabled = TRUE]
              \/ rt'[q] = [rt[q] EXCEPT !.ID = rt[q].ID + 1, !.Priority = rt[q].Priority + 1]
          BY <2>1, <3>2 DEF SwitchPool
        <4> QED
          BY <4>1
      <3> QED
        BY <3>1, <3>2
    <2> QED
      BY <2>1, <2>2 DEF PoolRuntime
  <1> QED
    BY <1>3, <1>4 DEF FlagsKept

LEMMA NextFlags ==
    ASSUME TypeOK, ListOp \/ SwitchWait \/ Update \/ Fini \/ UNCHANGED vars
    PROVE  FlagsKept /\ UNCHANGED <<gos, currentpool>>
  <1>0. HeapOK /\ IDs \subseteq Nat
    BY NumberAssumption DEF TypeOK, IDs
  <1>1. UNCHANGED <<gos, currentpool>>
    BY DEF ListOp, AddPool, RemovePool, EnablePool, DisablePool, SwitchPool, SwitchWait,
       Update, UpdatePools, UpdateCompare, UpdateRemoveAll, UpdateAdd, UpdateEnd, Fini, vars
  <1>2. CASE UNCHANGED rt
    BY <1>1, <1>2 DEF FlagsKept
  <1>3. ASSUME NEW cfg, AddPool(cfg) PROVE FlagsKept
    BY <1>0, <1>3, DoAddPoolFlags DEF AddPool
  <1>4. ASSUME NEW ID \in IDs, EnablePool(ID) \/ DisablePool(ID) PROVE FlagsKept
    <2> DEFINE p == Pools[ID + 1]
    <2>1. ID + 1 \in 1 .. Len(Pools)
      BY <1>0, <1>4 DEF EnablePool, DisablePool, HeapOK
    <2>2. p \in 1 .. Len(rt) /\ rt[p] \in PoolRuntime
      BY <1>0, <2>1 DEF HeapOK
    <2>3. PICK b \in BOOLEAN : rt' = [rt EXCEPT ![p] = [rt[p] EXCEPT !.Enabled = b]]
      BY <1>4 DEF EnablePool, DisablePool
    <2>4. [rt[p] EXCEPT !.Enabled = b] \in PoolRuntime
      BY <2>2 DEF PoolRuntime
    <2> HIDE DEF p
    <2>5. /\ Len(rt') = Len(rt)
          /\ \A q \in 1 .. Len(rt) : rt'[q] = IF q = p THEN [rt[p] EXCEPT !.Enabled = b] ELSE rt[q]
      BY <1>0, <2>2, <2>3, <2>4, ExceptSeq DEF HeapOK
    <2>6. /\ [rt[p] EXCEPT !.Enabled = b].bExit = rt[p].bExit
          /\ [rt[p] EXCEPT !.Enabled = b].Running = rt[p].Running
      BY <2>2 DEF PoolRuntime
    <2> QED
      BY <2>5, <2>6 DEF FlagsKept
  <1>5. CASE UpdateAdd
    BY <1>0, <1>2, <1>5, DoAddPoolFlags DEF UpdateAdd
  <1>6. CASE SwitchWait \/ UpdateCompare \/ UpdateRemoveAll \/ UpdateEnd \/ Fini \/ UNCHANGED vars
    BY <1>2, <1>6 DEF SwitchWait, UpdateCompare, UpdateRemoveAll, RemoveAllPools,
                    UpdateEnd, Fini, vars
  <1>7. ASSUME NEW cfgs \in Configs, NEW ztp \in BOOLEAN, UpdatePools(cfgs, ztp) PROVE FlagsKept
    BY <1>2, <1>7 DEF UpdatePools
  <1> QED
    BY <1>0, <1>1, <1>3, <1>4, <1>5, <1>6, <1>7, RemovePoolFlags, SwitchPoolFlags
    DEF ListOp, Update

-----------------------------------------------------------------------------
(* The scheduler's pass, and the goroutines' steps.                        *)

LEMMA TickFlags ==
    ASSUME TypeOK, Tick
    PROVE  \A q \in 1 .. Len(rt) :
             /\ rt'[q].Running = rt[q].Running
             /\ q # SchedulePool /\ rt[q].bExit => rt'[q].bExit
             /\ q # SchedulePool /\ q = currentpool => rt'[q].bExit
  <1> DEFINE p == SchedulePool
             h == IF ~rt[p].Running THEN StartPool(rt, p) ELSE rt
  <1>1. p \in 1 .. Len(rt) /\ HeapOK /\ SchedulerOK /\ DOMAIN rt = 1 .. Len(rt)
    BY TickHeap DEF TypeOK, HeapOK
  <1>2. rt' = IF currentpool \notin {p, Nil} THEN StopPool(h, currentpool) ELSE h
    BY DEF Tick
  <1>3. ASSUME NEW q \in 1 .. Len(rt)
        PROVE  /\ h[q] \in PoolRuntime
               /\ h[q].Running = rt[q].Running
               /\ q # p => h[q] = rt[q]
    <2>1. rt[q] \in PoolRuntime /\ rt[p] \in PoolRuntime
      BY <1>1 DEF HeapOK
    <2>2. CASE rt[p].Running
      BY <2>1, <2>2
    <2>3. CASE ~rt[p].Running
      <3>1. q # p => h[q] = rt[q]
        BY <1>1, <2>3 DEF StartPool
      <3>2. h[p] = [rt[p] EXCEPT !.Enabled = TRUE, !.Running = FALSE, !.Unreachable = FALSE,
                                 !.SeqRejected = 0, !.bExit = FALSE]
        BY <1>1, <2>3 DEF StartPool
      <3>3. h[p] \in PoolRuntime /\ ~h[p].Running
        <4> DEFINE r == [rt[p] EXCEPT !.Enabled = TRUE, !.Running = FALSE,
                                      !.Unreachable = FALSE, !.SeqRejected = 0, !.bExit = FALSE]
        <4>1. r \in PoolRuntime /\ ~r.Running
          BY <2>1 DEF PoolRuntime
        <4>2. h[p] = r
          BY <3>2
        <4> HIDE DEF r, h
        <4> QED
          BY <4>1, <4>2
      <3> HIDE DEF h
      <3> QED
        BY <2>1, <2>3, <3>1, <3>3 DEF PoolRuntime
    <2> QED
      BY <2>2, <2>3
  <1>4. DOMAIN h = DOMAIN rt
    BY DEF StartPool
  <1> HIDE DEF h
  <1>5. ASSUME NEW q \in 1 .. Len(rt)
        PROVE  /\ rt'[q].Running = rt[q].Running
               /\ q # p /\ rt[q].bExit => rt'[q].bExit
               /\ q # p /\ q = currentpool => rt'[q].bExit
    <2>1. CASE currentpool \in {p, Nil}
      BY <1>2, <1>3, <2>1 DEF Nil
    <2>2. CASE currentpool \notin {p, Nil}
      <3>1. rt' = [h EXCEPT ![currentpool] = [h[currentpool] EXCEPT !.bExit = TRUE]]
        BY <1>2, <2>2 DEF StopPool
      <3>2. currentpool \in DOMAIN h /\ h[currentpool] \in PoolRuntime
        BY <1>1, <1>3, <1>4, <2>2 DEF SchedulerOK, Nil
      <3>3. rt'[q] = IF q = currentpool THEN [h[q] EXCEPT !.bExit = TRUE] ELSE h[q]
        BY <1>1, <1>4, <3>1, <3>2
      <3>4. /\ [h[q] EXCEPT !.bExit = TRUE].bExit
            /\ [h[q] EXCEPT !.bExit = TRUE].Running = h[q].Running
        BY <1>3 DEF PoolRuntime
      <3> QED
        BY <1>3, <3>3, <3>4
    <2> QED
      BY <2>1, <2>2
  <1> QED
    BY <1>5

LEMMA TickGos ==
    ASSUME TypeOK, Tick
    PROVE  /\ currentpool' = SchedulePool
           /\ \A s \in Slots : \/ gos'[s] = gos[s]
                               \/ gos[s].pc = "idle" /\ gos'[s].pool = SchedulePool
  BY DEF Tick, TypeOK, GoroutinesOK

\* what a step of the goroutine in slot s does to the flags
RunKeeps(s) ==
    /\ DOMAIN rt' = DOMAIN rt
    /\ \A q \in DOMAIN rt :
          /\ rt[q].bExit => rt'[q].bExit
          /\ rt'[q].Running => rt[q].Running \/ (GoBegin(s) /\ q = gos[s].pool)
          /\ rt[q].Running => rt'[q].Running \/ (GoEnd(s) /\ q = gos[s].pool)
          /\ GoBegin(s) /\ q = gos[s].pool => rt'[q].Running
          /\ GoEnd(s) /\ q = gos[s].pool => ~rt'[q].Running

LEMMA RunFlags ==
    ASSUME TypeOK, NEW s \in Slots, Run(s)
    PROVE  RunKeeps(s)
  <1> DEFINE p == gos[s].pool
  <1>1. CASE GoDial(s) \/ GoReturn(s)
    <2>1. UNCHANGED rt /\ ~GoEnd(s) /\ ~GoBegin(s)
      BY <1>1 DEF GoDial, GoReturn, GoEnd, GoBegin
    <2> QED
      BY <2>1, Zenon DEF RunKeeps
  <1>2. ASSUME NEW r, r \in PoolRuntime, rt' = [rt EXCEPT ![p] = r], p \in DOMAIN rt,
               rt[p].bExit => r.bExit,
               r.Running => rt[p].Running \/ GoBegin(s),
               rt[p].Running => r.Running \/ GoEnd(s),
               GoBegin(s) => r.Running,
               GoEnd(s) => ~r.Running
        PROVE  RunKeeps(s)
    <2>1. \A q \in DOMAIN rt : rt'[q] = IF q = p THEN r ELSE rt[q]
      BY <1>2
    <2> QED
      BY <1>2, <2>1 DEF RunKeeps
  <1>3. CASE ~(GoDial(s) \/ GoReturn(s))
    <2>1. gos[s].pc # "idle"
      BY <1>3 DEF Run, GoBegin, GoLoop, GoEnd, UpdateShares
    <2>2. p \in DOMAIN rt /\ rt[p] \in PoolRuntime
      BY <2>1 DEF TypeOK, GoroutinesOK, HeapOK
    <2>3. CASE GoBegin(s)
      <3>1. rt' = [rt EXCEPT ![p] = [rt[p] EXCEPT !.Running = TRUE]] /\ ~GoEnd(s)
        BY <2>3 DEF GoBegin, GoEnd
      <3>2. /\ [rt[p] EXCEPT !.Running = TRUE] \in PoolRuntime
            /\ [rt[p] EXCEPT !.Running = TRUE].bExit = rt[p].bExit
            /\ [rt[p] EXCEPT !.Running = TRUE].Running
        BY <2>2 DEF PoolRuntime
      <3> QED
        BY <1>2, <2>2, <2>3, <3>1, <3>2
    <2>4. CASE GoEnd(s)
      <3>1. rt' = [rt EXCEPT ![p] = [rt[p] EXCEPT !.Running = FALSE]] /\ ~GoBegin(s)
        BY <2>4 DEF GoEnd, GoBegin
      <3>2. /\ [rt[p] EXCEPT !.Running = FALSE] \in PoolRuntime
            /\ [rt[p] EXCEPT !.Running = FALSE].bExit = rt[p].bExit
            /\ ~[rt[p] EXCEPT !.Running = FALSE].Running
        BY <2>2 DEF PoolRuntime
      <3> QED
        BY <1>2, <2>2, <2>4, <3>1, <3>2
    <2>5. CASE GoLoop(s)
      <3> DEFINE exit == gos[s].err # "nil" \/ rt[p].bExit
                 unr  == rt[p].Unreachable \/ gos[s].err = "Unreachable"
                 r    == [rt[p] EXCEPT !.bExit = exit, !.Unreachable = unr]
      <3>1. rt' = [rt EXCEPT ![p] = r] /\ ~GoEnd(s) /\ ~GoBegin(s)
        BY <2>2, <2>5 DEF GoLoop, GoEnd, GoBegin
      <3>2. exit \in BOOLEAN /\ unr \in BOOLEAN /\ (rt[p].bExit => exit)
        OBVIOUS
      <3>3. r \in PoolRuntime /\ r.bExit = exit /\ r.Running = rt[p].Running
        <4> HIDE DEF exit, unr
        <4> QED
          BY <2>2, <3>2 DEF PoolRuntime
      <3> HIDE DEF r, exit
      <3> QED
        BY <1>2, <2>2, <3>1, <3>2, <3>3
    <2>6. ASSUME NEW b \in BOOLEAN, UpdateShares(s, b)
          PROVE  rt' = [rt EXCEPT ![p] = [rt[p] EXCEPT !.SeqRejected = rt'[p].SeqRejected]]
                 /\ rt'[p].SeqRejected \in Nat /\ ~GoEnd(s) /\ ~GoBegin(s)
      <3> DEFINE n == IF b THEN 0 ELSE IF rt[p].SeqRejected > MAX_POOL_SEQREJECT
                                       THEN rt[p].SeqRejected ELSE rt[p].SeqRejected + 1
      <3>1. n \in Nat
        BY <2>2 DEF PoolRuntime
      <3>2. rt' = [rt EXCEPT ![p] = [rt[p] EXCEPT !.SeqRejected = n]]
            /\ ~GoEnd(s) /\ ~GoBegin(s)
        BY <2>6 DEF UpdateShares, GoEnd, GoBegin
      <3>3. rt'[p].SeqRejected = n
        <4> HIDE DEF n
        <4> QED
          BY <2>2, <3>2 DEF PoolRuntime
      <3> HIDE DEF n
      <3> QED
        BY <3>1, <3>2, <3>3
    <2>7. ASSUME NEW n \in Nat,
               rt' = [rt EXCEPT ![p] = [rt[p] EXCEPT !.SeqRejected = n]], ~GoEnd(s), ~GoBegin(s)
          PROVE  RunKeeps(s)
      <3>1. /\ [rt[p] EXCEPT !.SeqRejected = n] \in PoolRuntime
            /\ [rt[p] EXCEPT !.SeqRejected = n].bExit = rt[p].bExit
            /\ [rt[p] EXCEPT !.SeqRejected = n].Running = rt[p].Running
        BY <2>2 DEF PoolRuntime
      <3> QED
        BY <1>2, <2>2, <2>7, <3>1
    <2> QED
      BY <1>3, <2>3, <2>4, <2>5, <2>6, <2>7 DEF Run
  <1> QED
    BY <1>1, <1>3

LEMMA RunGos ==
    ASSUME TypeOK, NEW s \in Slots, Run(s)
    PROVE  /\ UNCHANGED currentpool
           /\ \A t \in Slots \ {s} : gos'[t] = gos[t]
           /\ GoEnd(s) \/ (gos[s].pc # "idle" /\ gos'[s].pool = gos[s].pool
                            /\ gos'[s].pc \notin {"idle", "spawned"})
           /\ GoEnd(s) => gos[s].pc # "idle" /\ gos'[s].pc = "idle"
           /\ GoBegin(s) => gos[s].pc = "spawned"
  <1>1. UNCHANGED currentpool
    BY DEF Run, GoBegin, GoLoop, GoEnd, GoDial, GoReturn, UpdateShares, RunUnchanged
  <1>2. CASE GoEnd(s)
    BY <1>1, <1>2 DEF GoEnd, GoBegin, NoGoroutine, TypeOK, GoroutinesOK
  <1>3. CASE \E b \in BOOLEAN : UpdateShares(s, b)
    BY <1>1, <1>3 DEF UpdateShares, GoEnd, GoBegin
  <1>4. CASE GoBegin(s) \/ GoLoop(s) \/ GoDial(s) \/ GoReturn(s)
    <2>1. gos[s].pc # "idle" /\ ~GoEnd(s) /\ (GoBegin(s) => gos[s].pc = "spawned")
      BY <1>4 DEF GoBegin, GoLoop, GoDial, GoReturn, GoEnd
    <2>2. PICK pc \in Pcs \ {"idle", "spawned"}, err \in Errs : Goto(s, pc, err)
      BY <1>4 DEF GoBegin, GoLoop, GoDial, GoReturn, Pcs, Errs
    <2>3. gos' = [gos EXCEPT ![s] = [gos[s] EXCEPT !.pc = pc, !.err = err]] /\ s \in DOMAIN gos
      BY <2>2 DEF Goto, TypeOK, GoroutinesOK
    <2>4. gos[s] \in Goroutine
      BY DEF TypeOK, GoroutinesOK
    <2>5. gos'[s].pc = pc /\ gos'[s].pool = gos[s].pool
      BY <2>3, <2>4 DEF Goroutine
    <2>6. \A t \in Slots \ {s} : gos'[t] = gos[t]
      BY <2>3
    <2> QED
      BY <1>1, <2>1, <2>2, <2>5, <2>6
  <1> QED
    BY <1>2, <1>3, <1>4 DEF Run

-----------------------------------------------------------------------------
(* One pool at a time: the inductive invariant is OnlyCurrentUnstopped     *)
(* with RunningHasBegun, over well-typed states.                           *)
SchedInv == TypeOK /\ OnlyCurrentUnstopped /\ RunningHasBegun

LEMMA InitSched == Init => SchedInv
  <1>1. Init => OnlyCurrentUnstopped /\ RunningHasBegun
    BY DEF Init, OnlyCurrentUnstopped, RunningHasBegun, NoGoroutine
  <1> QED
    BY <1>1, InitTypeOK DEF SchedInv

LEMMA NextSched == SchedInv /\ [Next]_vars => SchedInv'
  <1> SUFFICES ASSUME SchedInv, [Next]_vars PROVE SchedInv'
    OBVIOUS
  <1>0. /\ TypeOK /\ OnlyCurrentUnstopped /\ RunningHasBegun
        /\ HeapGrows /\ GoroutinesOK /\ TypeOK'
        /\ DOMAIN rt = 1 .. Len(rt) /\ DOMAIN rt' = 1 .. Len(rt')
        /\ \A p \in DOMAIN rt : rt[p] \in PoolRuntime
        /\ \A p \in DOMAIN rt' : rt'[p] \in PoolRuntime
    BY NextHeap, NextScheduler, NextGoroutines, NextCalls
    DEF SchedInv, TypeOK, HeapGrows, HeapOK
  <1>1. CASE ListOp \/ SwitchWait \/ Update \/ Fini \/ UNCHANGED vars
    <2>1. FlagsKept /\ UNCHANGED <<gos, currentpool>>
      BY <1>0, <1>1, NextFlags
    <2>2. OnlyCurrentUnstopped'
      BY <1>0, <2>1 DEF FlagsKept, OnlyCurrentUnstopped, GoroutinesOK
    <2>3. RunningHasBegun'
      BY <1>0, <2>1 DEF FlagsKept, RunningHasBegun
    <2> QED
      BY <1>0, <2>2, <2>3 DEF SchedInv
  <1>2. CASE Tick
    <2>1. OnlyCurrentUnstopped'
      <3> SUFFICES ASSUME NEW s \in Slots, gos'[s].pc # "idle", ~rt'[gos'[s].pool].bExit,
                          gos'[s].pool # SchedulePool
                   PROVE  FALSE
        BY <1>0, <1>2, TickGos DEF OnlyCurrentUnstopped
      <3>1. gos'[s] = gos[s]
        BY <1>0, <1>2, TickGos
      <3>2. gos[s].pool \in 1 .. Len(rt) /\ (rt[gos[s].pool].bExit \/ gos[s].pool = currentpool)
        BY <1>0, <3>1 DEF OnlyCurrentUnstopped, GoroutinesOK
      <3> QED
        BY <1>0, <1>2, <3>1, <3>2, TickFlags
    <2>2. RunningHasBegun'
      <3> SUFFICES ASSUME NEW p \in DOMAIN rt', rt'[p].Running
                   PROVE  \E s \in Slots : gos'[s].pool = p /\ gos'[s].pc \notin {"idle", "spawned"}
        BY DEF RunningHasBegun
      <3>1. p \in DOMAIN rt
        BY <1>2 DEF Tick, StopPool, StartPool
      <3>2. rt[p].Running
        BY <1>0, <1>2, <3>1, TickFlags
      <3>3. PICK s \in Slots : gos[s].pool = p /\ gos[s].pc \notin {"idle", "spawned"}
        BY <1>0, <3>1, <3>2 DEF RunningHasBegun
      <3> QED
        BY <1>0, <1>2, <3>3, TickGos
    <2> QED
      BY <1>0, <2>1, <2>2 DEF SchedInv
  <1>3. ASSUME NEW s \in Slots, Run(s) PROVE SchedInv'
    <2>1. OnlyCurrentUnstopped'
      <3> SUFFICES ASSUME NEW t \in Slots, gos'[t].pc # "idle", ~rt'[gos'[t].pool].bExit
                   PROVE  gos'[t].pool = currentpool
        BY <1>0, <1>3, RunGos DEF OnlyCurrentUnstopped
      <3>1. gos[t].pc # "idle" /\ gos'[t].pool = gos[t].pool
        BY <1>0, <1>3, RunGos
      <3>2. gos[t].pool \in DOMAIN rt
        BY <1>0, <3>1 DEF GoroutinesOK
      <3>3. ~rt[gos[t].pool].bExit
        BY <1>0, <1>3, <3>1, <3>2, RunFlags DEF RunKeeps
      <3> QED
        BY <1>0, <3>1, <3>3 DEF OnlyCurrentUnstopped
    <2>2. RunningHasBegun'
      <3> SUFFICES ASSUME NEW p \in DOMAIN rt', rt'[p].Running
                   PROVE  \E t \in Slots : gos'[t].pool = p /\ gos'[t].pc \notin {"idle", "spawned"}
        BY DEF RunningHasBegun
      <3>1. /\ p \in DOMAIN rt
            /\ rt[p].Running \/ (GoBegin(s) /\ p = gos[s].pool)
            /\ ~(GoEnd(s) /\ p = gos[s].pool)
        BY <1>0, <1>3, RunFlags DEF RunKeeps
      <3>2. CASE p = gos[s].pool
        BY <1>0, <1>3, <3>1, <3>2, RunGos
      <3>3. CASE p # gos[s].pool
        <4>1. PICK t \in Slots : gos[t].pool = p /\ gos[t].pc \notin {"idle", "spawned"}
          BY <1>0, <3>1, <3>3 DEF RunningHasBegun
        <4> QED
          BY <1>0, <1>3, <3>3, <4>1, RunGos
      <3> QED
        BY <3>2, <3>3
    <2> QED
      BY <1>0, <2>1, <2>2 DEF SchedInv
  <1> QED
    BY <1>1, <1>2, <1>3 DEF Next

(* The miner mines for one pool at a time: every goroutine that was not    *)
(* told to stop belongs to the pool the scheduler chose last.              *)
THEOREM OnePoolAtATime == Spec => []OnlyCurrentUnstopped
  <1>1. SchedInv => OnlyCurrentUnstopped
    BY DEF SchedInv
  <1> QED
    BY InitSched, NextSched, <1>1, PTL DEF Spec

(* A pool never keeps its Running flag without a goroutine, so the         *)
(* scheduler can always start it again.                                    *)
THEOREM RunningIsHonest == Spec => []RunningHasGoroutine
  <1>1. SchedInv => RunningHasGoroutine
    BY DEF SchedInv, RunningHasBegun, RunningHasGoroutine, Live
  <1> QED
    BY InitSched, NextSched, <1>1, PTL DEF Spec

-----------------------------------------------------------------------------
(* One goroutine per pool: if a goroutine begins before the next pass of   *)
(* the scheduler, Running stands for every goroutine that the scheduler    *)
(* could overlook.                                                         *)
LiveIsRunning ==
    \A s \in Slots : gos[s].pc \notin {"idle", "spawned"} => rt[gos[s].pool].Running
Alone ==
    \A s, t \in Slots :
        gos[s].pc # "idle" /\ gos[t].pc # "idle" /\ gos[s].pool = gos[t].pool => s = t
AloneInv == TypeOK /\ (PromptStart => LiveIsRunning /\ Alone)

(* The scheduler starts only a pool that has no goroutine. *)
LEMMA TickAlone ==
    ASSUME TypeOK, PromptStart, LiveIsRunning, Alone, Tick
    PROVE  LiveIsRunning' /\ Alone'
  <1> DEFINE p == SchedulePool
  <1>1. /\ p \in 1 .. Len(rt) /\ DOMAIN rt = 1 .. Len(rt)
        /\ gos \in [Slots -> Goroutine]
        /\ \A s \in Slots : gos[s].pc # "idle" => gos[s].pool \in 1 .. Len(rt)
    BY TickHeap DEF TypeOK, HeapOK, GoroutinesOK
  <1>2. \A s \in Slots : gos[s].pc # "spawned"
    BY DEF Tick
  <1>3. CASE rt[p].Running
    <2>1. gos' = gos
      BY <1>3 DEF Tick
    <2> QED
      BY <1>1, <2>1, TickFlags DEF LiveIsRunning, Alone
  <1>4. CASE ~rt[p].Running
    <2>1. PICK s \in Slots :
             /\ gos[s].pc = "idle"
             /\ gos' = [gos EXCEPT ![s] = [pool |-> p, pc |-> "spawned", err |-> "nil"]]
      BY <1>4 DEF Tick
    <2>2. /\ gos'[s].pool = p /\ gos'[s].pc = "spawned"
          /\ \A t \in Slots \ {s} : gos'[t] = gos[t]
      BY <1>1, <2>1
    <2>3. \A t \in Slots : gos[t].pc # "idle" => gos[t].pool # p
      BY <1>2, <1>4 DEF LiveIsRunning
    <2>4. LiveIsRunning'
      BY <1>1, <2>2, TickFlags DEF LiveIsRunning
    <2>5. Alone'
      BY <2>2, <2>3 DEF Alone
    <2> QED
      BY <2>4, <2>5
  <1> QED
    BY <1>3, <1>4

(* A goroutine that ends is the last of its pool. *)
LEMMA RunAlone ==
    ASSUME TypeOK, LiveIsRunning, Alone, NEW s \in Slots, Run(s)
    PROVE  LiveIsRunning' /\ Alone'
  <1>1. \A t \in Slots : gos[t].pc # "idle" => gos[t].pool \in DOMAIN rt
    BY DEF TypeOK, HeapOK, GoroutinesOK
  <1>2. \A t \in Slots : gos'[t].pc # "idle" => gos[t].pc # "idle" /\ gos'[t].pool = gos[t].pool
    BY RunGos
  <1>3. Alone'
    BY <1>2 DEF Alone
  <1>4. ASSUME NEW t \in Slots, gos'[t].pc \notin {"idle", "spawned"}
        PROVE  rt'[gos'[t].pool].Running
    <2>1. gos[t].pc # "idle" /\ gos'[t].pool = gos[t].pool
      BY <1>2, <1>4
    <2>2. CASE gos[t].pc = "spawned"
      <3>1. t = s /\ GoBegin(s)
        BY <1>4, <2>2, RunGos DEF Run, GoBegin, GoLoop, GoEnd, GoDial, GoReturn, UpdateShares
      <3> QED
        BY <1>1, <2>1, <3>1, RunFlags DEF RunKeeps
    <2>3. CASE gos[t].pc # "spawned"
      <3>1. rt[gos[t].pool].Running
        BY <2>1, <2>3 DEF LiveIsRunning
      <3>2. ~(GoEnd(s) /\ gos[t].pool = gos[s].pool)
        BY <1>4, <2>1, RunGos DEF Alone
      <3> QED
        BY <1>1, <2>1, <3>1, <3>2, RunFlags DEF RunKeeps
    <2> QED
      BY <2>2, <2>3
  <1> QED
    BY <1>3, <1>4 DEF LiveIsRunning

LEMMA NextAlone == AloneInv /\ [Next]_vars => AloneInv'
  <1> SUFFICES ASSUME TypeOK, [Next]_vars, PromptStart, LiveIsRunning, Alone
               PROVE  LiveIsRunning' /\ Alone'
    BY NextHeap, NextScheduler, NextGoroutines, NextCalls DEF AloneInv, TypeOK, HeapGrows
  <1>1. CASE ListOp \/ SwitchWait \/ Update \/ Fini \/ UNCHANGED vars
    <2>1. FlagsKept /\ gos' = gos
      BY <1>1, NextFlags
    <2>2. \A s \in Slots : gos[s].pc # "idle" => gos[s].pool \in 1 .. Len(rt)
      BY DEF TypeOK, GoroutinesOK
    <2> QED
      BY <2>1, <2>2 DEF FlagsKept, LiveIsRunning, Alone
  <1> QED
    BY <1>1, TickAlone, RunAlone DEF Next

(* If goroutines are scheduled within a tick, no pool is ever run by two   *)
(* of them, however it is disabled, removed, switched to and started again *)
(* while one is still ending.                                              *)
THEOREM PoolRunByOne == Spec => []OneGoroutinePerPool
  <1>1. Init => AloneInv
    BY InitTypeOK DEF Init, AloneInv, LiveIsRunning, Alone, NoGoroutine
  <1>2. AloneInv => OneGoroutinePerPool
    BY DEF AloneInv, Alone, OneGoroutinePerPool
  <1> QED
    BY <1>1, <1>2, NextAlone, PTL DEF Spec

-----------------------------------------------------------------------------
(* The layout of the list.                                                 *)

(* Steps that leave the list and the numbers of its pools alone. *)
LayoutKept ==
    /\ UNCHANGED Pools
    /\ \A p \in 1 .. Len(rt) : rt'[p].ID = rt[p].ID /\ rt'[p].Priority = rt[p].Priority

(* ListLayout over well-typed states, with the domains spelled out. *)
LEMMA LayoutFacts ==
    ASSUME TypeOK, ListLayout
    PROVE  /\ Len(Pools) \in Nat /\ Len(Pools) <= MAX_POOL_NUMBER
           /\ DOMAIN Pools = 1 .. Len(Pools) /\ DOMAIN rt = 1 .. Len(rt)
           /\ \A i \in 1 .. Len(Pools) :
                 /\ Pools[i] \in 1 .. Len(rt) /\ rt[Pools[i]] \in PoolRuntime
                 /\ rt[Pools[i]].ID = i - 1 /\ rt[Pools[i]].Priority = i - 1
           /\ \A i, j \in 1 .. Len(Pools) : Pools[i] = Pools[j] => i = j
  <1>1. DOMAIN Pools = 1 .. Len(Pools) /\ DOMAIN rt = 1 .. Len(rt) /\ Len(Pools) \in Nat
    BY DEF TypeOK, HeapOK
  <1>2. \A i \in 1 .. Len(Pools) : Pools[i] \in 1 .. Len(rt) /\ rt[Pools[i]] \in PoolRuntime
    BY DEF TypeOK, HeapOK
  <1> QED
    BY <1>1, <1>2 DEF ListLayout

LEMMA KeptLayout ==
    ASSUME TypeOK, ListLayout, LayoutKept
    PROVE  ListLayout'
  <1>1. Pools' = Pools
    BY DEF LayoutKept
  <1>2. \A k \in DOMAIN Pools : /\ rt'[Pools[k]].ID = k - 1
                               /\ rt'[Pools[k]].Priority = k - 1
    BY LayoutFacts DEF LayoutKept
  <1> QED
    BY <1>1, <1>2 DEF ListLayout

LEMMA DoAddPoolLayout ==
    ASSUME TypeOK, ListLayout, NEW cfg, CanAdd(cfg), DoAddPool(cfg)
    PROVE  ListLayout'
  <1> DEFINE r == [Cfg |-> cfg, ID |-> Len(Pools), Priority |-> Len(Pools),
                   Enabled |-> TRUE, Running |-> FALSE, Unreachable |-> FALSE,
                   SeqRejected |-> 0, bExit |-> FALSE]
  <1>1. r \in PoolRuntime /\ r.ID = Len(Pools) /\ r.Priority = Len(Pools)
    BY DEF CanAdd, TypeOK, HeapOK, PoolRuntime
  <1>2. rt' = Append(rt, r) /\ Pools' = Append(Pools, Len(rt) + 1)
    BY DEF DoAddPool
  <1> HIDE DEF r
  <1>3. /\ Len(Pools') = Len(Pools) + 1 /\ DOMAIN Pools' = 1 .. Len(Pools) + 1
        /\ Len(Pools) \in Nat /\ Len(rt) \in Nat
        /\ DOMAIN Pools = 1 .. Len(Pools)
        /\ \A k \in 1 .. Len(Pools) : Pools'[k] = Pools[k] /\ Pools[k] \in 1 .. Len(rt)
        /\ Pools'[Len(Pools) + 1] = Len(rt) + 1
    BY <1>2, AppendProperties DEF TypeOK, HeapOK
  <1>4. /\ \A p \in 1 .. Len(rt) : rt'[p] = rt[p]
        /\ rt'[Len(rt) + 1] = r
    BY <1>1, <1>2, AppendProperties DEF TypeOK, HeapOK
  <1>5. Len(Pools') <= MAX_POOL_NUMBER
    BY <1>3, NumberAssumption DEF CanAdd
  <1>6. \A j, k \in DOMAIN Pools' : Pools'[j] = Pools'[k] => j = k
    <2> SUFFICES ASSUME NEW j \in DOMAIN Pools', NEW k \in DOMAIN Pools', Pools'[j] = Pools'[k]
                 PROVE  j = k
      OBVIOUS
    <2>1. CASE j \in 1 .. Len(Pools) /\ k \in 1 .. Len(Pools)
      BY <1>3, <2>1 DEF ListLayout
    <2>2. CASE ~(j \in 1 .. Len(Pools) /\ k \in 1 .. Len(Pools))
      BY <1>3, <2>2
    <2> QED
      BY <2>1, <2>2
  <1>7. ASSUME NEW k \in DOMAIN Pools'
        PROVE  rt'[Pools'[k]].ID = k - 1 /\ rt'[Pools'[k]].Priority = k - 1
    <2>1. CASE k \in 1 .. Len(Pools)
      <3>1. Pools'[k] = Pools[k] /\ rt'[Pools[k]] = rt[Pools[k]]
        BY <1>3, <1>4, <2>1
      <3>2. rt[Pools[k]].ID = k - 1 /\ rt[Pools[k]].Priority = k - 1
        BY <2>1, LayoutFacts
      <3> QED
        BY <3>1, <3>2
    <2>2. CASE k = Len(Pools) + 1
      BY <1>1, <1>3, <1>4, <2>2
    <2> QED
      BY <1>3, <2>1, <2>2
  <1> QED
    BY <1>5, <1>6, <1>7 DEF ListLayout

LEMMA RemovePoolLayout ==
    ASSUME TypeOK, ListLayout, NEW ID \in Nat, RemovePool(ID)
    PROVE  ListLayout'
  <1> DEFINE p == Pools[ID + 1]
             n == Len(Pools)
             old(k) == IF k <= ID THEN k ELSE k + 1
  <1>1. /\ n \in Nat /\ n > 1 /\ ID < n /\ n <= MAX_POOL_NUMBER /\ ID + 1 \in 1 .. n
        /\ DOMAIN Pools = 1 .. n
    <2>1. n > 1 /\ ID < n
      BY DEF RemovePool
    <2>2. n \in Nat /\ n <= MAX_POOL_NUMBER /\ DOMAIN Pools = 1 .. n
      BY DEF TypeOK, HeapOK, ListLayout
    <2> QED
      BY <2>1, <2>2
  <1>2. /\ Len(Pools') = n - 1 /\ DOMAIN Pools' = 1 .. n - 1
        /\ \A k \in 1 .. n - 1 : old(k) \in 1 .. n /\ old(k) # ID + 1 /\ Pools'[k] = Pools[old(k)]
    <2>1. Pools' = [k \in 1 .. n - 1 |-> IF k <= ID THEN Pools[k] ELSE Pools[k + 1]]
      BY DEF RemovePool
    <2>2. DOMAIN Pools' = 1 .. n - 1 /\ \A k \in 1 .. n - 1 : Pools'[k] = Pools[old(k)]
      BY <2>1
    <2>3. Len(Pools') = n - 1
      BY <1>1, <2>1
    <2>4. \A k \in 1 .. n - 1 : old(k) \in 1 .. n /\ old(k) # ID + 1
      BY <1>1
    <2> QED
      BY <2>2, <2>3, <2>4
  <1>3. \A i \in 1 .. n : /\ Pools[i] \in DOMAIN rt
                         /\ rt[Pools[i]].ID = i - 1 /\ rt[Pools[i]].Priority = i - 1
                         /\ \A j \in 1 .. n : Pools[i] = Pools[j] => i = j
    BY LayoutFacts
  <1>4. ASSUME NEW i \in 1 .. n, i # ID + 1
        PROVE  LET m == IF i > ID + 1 THEN i - 2 ELSE i - 1
               IN  rt'[Pools[i]].ID = m /\ rt'[Pools[i]].Priority = m
    <2> DEFINE q == Pools[i]
               a == IF rt[q].Priority > rt[p].Priority THEN rt[q].Priority - 1 ELSE rt[q].Priority
               b == IF rt[q].ID > ID THEN rt[q].ID - 1 ELSE rt[q].ID
    <2>1. q \in DOMAIN rt /\ q # p /\ InList(q)
      BY <1>1, <1>3, <1>4 DEF InList
    <2>2. rt'[q] = [rt[q] EXCEPT !.Priority = a, !.ID = b]
      BY <2>1 DEF RemovePool
    <2>3. rt[q] \in PoolRuntime
      BY <2>1 DEF TypeOK, HeapOK
    <2>4. rt'[q].Priority = a /\ rt'[q].ID = b
      <3> HIDE DEF a, b
      <3> QED
        BY <2>2, <2>3 DEF PoolRuntime
    <2>5. rt[q].Priority = i - 1 /\ rt[q].ID = i - 1 /\ rt[p].Priority = ID
      BY <1>1, <1>3
    <2> QED
      BY <1>1, <1>4, <2>4, <2>5
  <1>5. Len(Pools') <= MAX_POOL_NUMBER
    BY <1>1, <1>2, NumberAssumption
  <1>6. \A j, k \in DOMAIN Pools' : Pools'[j] = Pools'[k] => j = k
    <2> SUFFICES ASSUME NEW j \in 1 .. n - 1, NEW k \in 1 .. n - 1, Pools'[j] = Pools'[k]
                 PROVE  j = k
      BY <1>2
    <2>1. Pools[old(j)] = Pools[old(k)] /\ old(j) \in 1 .. n /\ old(k) \in 1 .. n
      BY <1>2
    <2>2. old(j) = old(k)
      BY <1>3, <2>1
    <2> QED
      BY <1>1, <2>2
  <1>7. \A k \in DOMAIN Pools' : rt'[Pools'[k]].ID = k - 1 /\ rt'[Pools'[k]].Priority = k - 1
    <2> SUFFICES ASSUME NEW k \in 1 .. n - 1
                 PROVE  rt'[Pools'[k]].ID = k - 1 /\ rt'[Pools'[k]].Priority = k - 1
      BY <1>2
    <2>1. Pools'[k] = Pools[old(k)] /\ old(k) \in 1 .. n /\ old(k) # ID + 1
      BY <1>2
    <2>2. (IF old(k) > ID + 1 THEN old(k) - 2 ELSE old(k) - 1) = k - 1
      BY <1>1
    <2> HIDE DEF old
    <2> QED
      BY <1>4, <2>1, <2>2
  <1> QED
    BY <1>5, <1>6, <1>7 DEF ListLayout

LEMMA SwitchPoolLayout ==
    ASSUME TypeOK, ListLayout, NEW ID \in Nat, SwitchPool(ID)
    PROVE  ListLayout'
  <1> DEFINE p == Pools[ID + 1]
             n == Len(Pools)
             before == {Pools[k] : k \in 1 .. ID}
             old(k) == IF k = 1 THEN ID + 1 ELSE IF k <= ID + 1 THEN k - 1 ELSE k
  <1>1. /\ n \in Nat /\ ID < n /\ n <= MAX_POOL_NUMBER /\ ID + 1 \in 1 .. n
        /\ DOMAIN Pools = 1 .. n
    <2>1. ID < n
      BY DEF SwitchPool
    <2>2. n \in Nat /\ n <= MAX_POOL_NUMBER /\ DOMAIN Pools = 1 .. n
      BY DEF TypeOK, HeapOK, ListLayout
    <2> QED
      BY <2>1, <2>2
  <1>2. \A i \in 1 .. n : /\ Pools[i] \in DOMAIN rt /\ rt[Pools[i]] \in PoolRuntime
                         /\ rt[Pools[i]].ID = i - 1 /\ rt[Pools[i]].Priority = i - 1
                         /\ \A j \in 1 .. n : Pools[i] = Pools[j] => i = j
    BY LayoutFacts
  <1>3. CASE rt[p].ID = 0
    <2>1. UNCHANGED Pools /\ rt' = [rt EXCEPT ![p] = [rt[p] EXCEPT !.Enabled = TRUE]]
      BY <1>3 DEF SwitchPool
    <2>2. p \in 1 .. Len(rt) /\ rt[p] \in PoolRuntime /\ DOMAIN rt = 1 .. Len(rt)
      BY <1>1, <1>2 DEF TypeOK, HeapOK
    <2>3. /\ [rt[p] EXCEPT !.Enabled = TRUE].ID = rt[p].ID
          /\ [rt[p] EXCEPT !.Enabled = TRUE].Priority = rt[p].Priority
      BY <2>2 DEF PoolRuntime
    <2>4. LayoutKept
      BY <2>1, <2>2, <2>3 DEF LayoutKept
    <2> QED
      BY <2>4, KeptLayout
  <1>4. CASE rt[p].ID # 0
    <2>1. /\ Pools' = [k \in 1 .. n |->
                         IF k = 1 THEN p ELSE IF k <= ID + 1 THEN Pools[k - 1] ELSE Pools[k]]
          /\ \A q \in DOMAIN rt :
                rt'[q] = IF q = p THEN [rt[q] EXCEPT !.ID = 0, !.Priority = 0, !.Enabled = TRUE]
                         ELSE IF q \in before
                         THEN [rt[q] EXCEPT !.ID = rt[q].ID + 1, !.Priority = rt[q].Priority + 1]
                         ELSE rt[q]
      BY <1>1, <1>4 DEF SwitchPool
    <2>2. /\ Len(Pools') = n /\ DOMAIN Pools' = 1 .. n
          /\ \A k \in 1 .. n : old(k) \in 1 .. n /\ Pools'[k] = Pools[old(k)]
      <3>1. DOMAIN Pools' = 1 .. n /\ Len(Pools') = n
        <4>1. Pools' = [k \in 1 .. n |->
                         IF k = 1 THEN p ELSE IF k <= ID + 1 THEN Pools[k - 1] ELSE Pools[k]]
          BY <2>1
        <4>2. DOMAIN Pools' = 1 .. n
          BY <4>1
        <4>3. Pools' \in Seq(Nat)
          BY SwitchPoolHeap DEF TypeOK, HeapGrows, HeapOK
        <4> QED
          BY <1>1, <4>2, <4>3
      <3>2. \A k \in 1 .. n : old(k) \in 1 .. n
        BY <1>1
      <3>3. \A k \in 1 .. n : Pools'[k] = Pools[old(k)]
        <4> SUFFICES ASSUME NEW k \in 1 .. n PROVE Pools'[k] = Pools[old(k)]
          OBVIOUS
        <4>1. CASE k = 1
          BY <1>1, <2>1, <4>1
        <4>2. CASE k # 1 /\ k <= ID + 1
          BY <1>1, <2>1, <4>2
        <4>3. CASE k # 1 /\ ~(k <= ID + 1)
          BY <1>1, <2>1, <4>3
        <4> QED
          BY <4>1, <4>2, <4>3
      <3> QED
        BY <3>1, <3>2, <3>3
    <2>3. \A j, k \in 1 .. n : old(j) = old(k) => j = k
      BY <1>1
    <2>4. ASSUME NEW i \in 1 .. n
          PROVE  LET m == IF i = ID + 1 THEN 0 ELSE IF i <= ID THEN i ELSE i - 1
                 IN  rt'[Pools[i]].ID = m /\ rt'[Pools[i]].Priority = m
      <3> DEFINE q == Pools[i]
                 a == rt[q].ID + 1
                 b == rt[q].Priority + 1
      <3>1. /\ q \in DOMAIN rt /\ rt[q] \in PoolRuntime
            /\ rt[q].ID = i - 1 /\ rt[q].Priority = i - 1
        BY <1>2
      <3>2. (q = p) <=> (i = ID + 1)
        BY <1>1, <1>2
      <3>3. (q \in before) <=> (i <= ID)
        BY <1>1, <1>2
      <3>4. CASE i = ID + 1
        <4>1. rt'[q] = [rt[q] EXCEPT !.ID = 0, !.Priority = 0, !.Enabled = TRUE]
          BY <2>1, <3>1, <3>2, <3>4
        <4> QED
          BY <3>1, <3>4, <4>1 DEF PoolRuntime
      <3>5. CASE i # ID + 1 /\ i <= ID
        <4>1. rt'[q] = [rt[q] EXCEPT !.ID = a, !.Priority = b]
          BY <2>1, <3>1, <3>2, <3>3, <3>5
        <4>2. a = i /\ b = i
          BY <3>1
        <4> HIDE DEF a, b
        <4>3. rt'[q].ID = a /\ rt'[q].Priority = b
          BY <3>1, <4>1 DEF PoolRuntime
        <4> QED
          BY <3>5, <4>2, <4>3
      <3>6. CASE i # ID + 1 /\ ~(i <= ID)
        BY <2>1, <3>1, <3>2, <3>3, <3>6
      <3> QED
        BY <3>4, <3>5, <3>6
    <2>5. \A j, k \in DOMAIN Pools' : Pools'[j] = Pools'[k] => j = k
      <3> HIDE DEF old
      <3> QED
        BY <1>2, <2>2, <2>3
    <2>6. \A k \in DOMAIN Pools' : rt'[Pools'[k]].ID = k - 1 /\ rt'[Pools'[k]].Priority = k - 1
      <3> SUFFICES ASSUME NEW k \in 1 .. n
                   PROVE  rt'[Pools'[k]].ID = k - 1 /\ rt'[Pools'[k]].Priority = k - 1
        BY <2>2
      <3>1. Pools'[k] = Pools[old(k)] /\ old(k) \in 1 .. n
        BY <2>2
      <3>2. (IF old(k) = ID + 1 THEN 0 ELSE IF old(k) <= ID THEN old(k) ELSE old(k) - 1) = k - 1
        <4>1. rt[p].ID = ID
          BY <1>1, <1>2
        <4> QED
          BY <1>1, <1>4, <4>1
      <3> HIDE DEF old
      <3> QED
        BY <2>4, <3>1, <3>2
    <2> QED
      BY <1>1, <2>2, <2>5, <2>6 DEF ListLayout
  <1> QED
    BY <1>3, <1>4

LEMMA NextLayout == TypeOK /\ ListLayout /\ [Next]_vars => ListLayout'
  <1> SUFFICES ASSUME TypeOK, ListLayout, [Next]_vars PROVE ListLayout'
    OBVIOUS
  <1>0. HeapOK /\ IDs \subseteq Nat
    BY NumberAssumption DEF TypeOK, IDs
  <1>1. CASE UNCHANGED <<rt, Pools>>
    BY <1>1, KeptLayout DEF LayoutKept
  <1>2. ASSUME NEW cfg, AddPool(cfg) PROVE ListLayout'
    BY <1>2, DoAddPoolLayout DEF AddPool
  <1>3. ASSUME NEW ID \in IDs, EnablePool(ID) \/ DisablePool(ID) PROVE ListLayout'
    <2> DEFINE p == Pools[ID + 1]
    <2>1. ID + 1 \in 1 .. Len(Pools)
      BY <1>0, <1>3 DEF EnablePool, DisablePool, HeapOK
    <2>2. p \in DOMAIN rt /\ rt[p] \in PoolRuntime /\ DOMAIN rt = 1 .. Len(rt)
      BY <2>1, LayoutFacts
    <2>3. PICK b \in BOOLEAN : rt' = [rt EXCEPT ![p] = [rt[p] EXCEPT !.Enabled = b]]
      BY <1>3 DEF EnablePool, DisablePool
    <2>4. /\ [rt[p] EXCEPT !.Enabled = b].ID = rt[p].ID
          /\ [rt[p] EXCEPT !.Enabled = b].Priority = rt[p].Priority
      BY <2>2 DEF PoolRuntime
    <2>5. UNCHANGED Pools
      BY <1>3 DEF EnablePool, DisablePool
    <2>6. LayoutKept
      <3> HIDE DEF p
      <3> QED
        BY <2>2, <2>3, <2>4, <2>5 DEF LayoutKept
    <2> QED
      BY <2>6, KeptLayout
  <1>4. CASE UpdateRemoveAll
    BY <1>4, NumberAssumption DEF UpdateRemoveAll, RemoveAllPools, ListLayout
  <1>5. CASE UpdateAdd
    BY <1>1, <1>5, DoAddPoolLayout DEF UpdateAdd
  <1>6. CASE Tick
    <2> DEFINE p == SchedulePool
               h == IF ~rt[p].Running THEN StartPool(rt, p) ELSE rt
    <2>1. /\ p \in 1 .. Len(rt) /\ rt[p] \in PoolRuntime /\ DOMAIN rt = 1 .. Len(rt)
          /\ \A q \in DOMAIN rt : rt[q] \in PoolRuntime
      BY <1>6, TickHeap DEF TypeOK, HeapOK
    <2>2. /\ DOMAIN h = DOMAIN rt
          /\ \A q \in DOMAIN rt : /\ h[q] \in PoolRuntime
                                 /\ h[q].ID = rt[q].ID /\ h[q].Priority = rt[q].Priority
      <3>1. CASE h = rt
        BY <2>1, <3>1
      <3>2. CASE h = StartPool(rt, p)
        <4> DEFINE r == [rt[p] EXCEPT !.Enabled = TRUE, !.Running = FALSE,
                                      !.Unreachable = FALSE, !.SeqRejected = 0, !.bExit = FALSE]
        <4>1. r \in PoolRuntime /\ r.ID = rt[p].ID /\ r.Priority = rt[p].Priority
          BY <2>1 DEF PoolRuntime
        <4>2. h = [rt EXCEPT ![p] = r]
          BY <3>2 DEF StartPool
        <4> HIDE DEF r, h
        <4> QED
          BY <2>1, <4>1, <4>2
      <3> QED
        BY <3>1, <3>2
    <2>3. rt' = IF currentpool \notin {p, Nil} THEN StopPool(h, currentpool) ELSE h
      BY <1>6 DEF Tick
    <2> HIDE DEF h
    <2>4. ASSUME NEW q \in DOMAIN rt
          PROVE  rt'[q].ID = rt[q].ID /\ rt'[q].Priority = rt[q].Priority
      <3>1. CASE rt' = h
        BY <2>2, <3>1
      <3>2. CASE rt' = StopPool(h, currentpool)
        <4>1. rt'[q] = IF q = currentpool THEN [h[q] EXCEPT !.bExit = TRUE] ELSE h[q]
          BY <2>2, <3>2 DEF StopPool
        <4>2. /\ [h[q] EXCEPT !.bExit = TRUE].ID = h[q].ID
              /\ [h[q] EXCEPT !.bExit = TRUE].Priority = h[q].Priority
          BY <2>2 DEF PoolRuntime
        <4> QED
          BY <2>2, <4>1, <4>2
      <3> QED
        BY <2>3, <3>1, <3>2
    <2>5. UNCHANGED Pools
      BY <1>6 DEF Tick
    <2> QED
      BY <2>1, <2>4, <2>5, KeptLayout DEF LayoutKept
  <1>7. ASSUME NEW s \in Slots, Run(s) PROVE ListLayout'
    <2> DEFINE p == gos[s].pool
    <2>1. UNCHANGED Pools
      BY <1>7 DEF Run, GoBegin, GoLoop, GoEnd, GoDial, GoReturn, UpdateShares, RunUnchanged
    <2>2. CASE GoDial(s) \/ GoReturn(s)
      BY <1>1, <2>1, <2>2 DEF GoDial, GoReturn
    <2>3. CASE ~(GoDial(s) \/ GoReturn(s))
      <3>1. gos[s].pc # "idle"
        BY <1>7, <2>3 DEF Run, GoBegin, GoLoop, GoEnd, UpdateShares
      <3>2. p \in DOMAIN rt /\ rt[p] \in PoolRuntime /\ DOMAIN rt = 1 .. Len(rt)
        BY <3>1 DEF TypeOK, GoroutinesOK, HeapOK
      <3>3. PICK r : /\ rt' = [rt EXCEPT ![p] = r]
                     /\ r.ID = rt[p].ID /\ r.Priority = rt[p].Priority
        <4>1. CASE GoBegin(s) \/ GoEnd(s)
          <5>1. PICK b : rt' = [rt EXCEPT ![p] = [rt[p] EXCEPT !.Running = b]]
            BY <4>1 DEF GoBegin, GoEnd
          <5>2. /\ [rt[p] EXCEPT !.Running = b].ID = rt[p].ID
                /\ [rt[p] EXCEPT !.Running = b].Priority = rt[p].Priority
            BY <3>2 DEF PoolRuntime
          <5> QED
            BY <5>1, <5>2
        <4>2. CASE GoLoop(s)
          <5>1. PICK a, b : rt' = [rt EXCEPT ![p] = [rt[p] EXCEPT !.bExit = a, !.Unreachable = b]]
            BY <3>2, <4>2 DEF GoLoop
          <5>2. /\ [rt[p] EXCEPT !.bExit = a, !.Unreachable = b].ID = rt[p].ID
                /\ [rt[p] EXCEPT !.bExit = a, !.Unreachable = b].Priority = rt[p].Priority
            BY <3>2 DEF PoolRuntime
          <5> QED
            BY <5>1, <5>2
        <4>3. CASE \E b \in BOOLEAN : UpdateShares(s, b)
          <5>1. PICK a : rt' = [rt EXCEPT ![p] = [rt[p] EXCEPT !.SeqRejected = a]]
            BY <4>3 DEF UpdateShares
          <5>2. /\ [rt[p] EXCEPT !.SeqRejected = a].ID = rt[p].ID
                /\ [rt[p] EXCEPT !.SeqRejected = a].Priority = rt[p].Priority
            BY <3>2 DEF PoolRuntime
          <5> QED
            BY <5>1, <5>2
        <4> QED
          BY <1>7, <2>3, <4>1, <4>2, <4>3 DEF Run
      <3>4. LayoutKept
        <4> HIDE DEF p
        <4> QED
          BY <2>1, <3>2, <3>3 DEF LayoutKept
      <3> QED
        BY <3>4, KeptLayout
    <2> QED
      BY <2>2, <2>3
  <1>8. CASE \/ SwitchWait
             \/ \E cfgs \in Configs, ztp \in BOOLEAN : UpdatePools(cfgs, ztp)
             \/ UpdateCompare \/ UpdateEnd \/ Fini
             \/ UNCHANGED vars
    BY <1>1, <1>8 DEF SwitchWait, UpdatePools, UpdateCompare, UpdateEnd, Fini, vars
  <1> QED
    BY <1>0, <1>2, <1>3, <1>4, <1>5, <1>6, <1>7, <1>8, RemovePoolLayout, SwitchPoolLayout
    DEF Next, ListOp, Update

(* The list stays in the layout the API and the scheduler rely on: at most *)
(* MAX_POOL_NUMBER distinct pools, each with its index as ID and Priority. *)
THEOREM ListWellLaidOut == Spec => []ListLayout
  <1>1. Init => TypeOK /\ ListLayout
    BY InitTypeOK, NumberAssumption DEF Init, ListLayout
  <1>2. TypeOK /\ ListLayout /\ [Next]_vars => TypeOK' /\ ListLayout'
    BY NextHeap, NextScheduler, NextGoroutines, NextCalls, NextLayout DEF TypeOK, HeapGrows
  <1> QED
    BY <1>1, <1>2, PTL DEF Spec
=============================================================================
