---------------------------- MODULE PoolManager ----------------------------
(***************************************************************************)
(* The pool manager of eval_miner/pool: the list of configured mining      *)
(* pools, the API operations that edit it, the scheduler loop that picks   *)
(* the pool to mine on every WaitForPool (100 ms), and the goroutine each  *)
(* started pool runs its stratum sessions in.                              *)
(*                                                                         *)
(* A PoolRuntime is an object on the Go heap that several parties hold a   *)
(* pointer to (the list, the scheduler's local currentpool, the goroutine  *)
(* that runs it), so the model keeps a heap rt of all the objects ever     *)
(* created, in creation order (the index is the object's SeqNo), and the   *)
(* list Pools holds indices into it.  The API operations and each pass of  *)
(* the scheduler hold the mutex mx from beginning to end, so each is one   *)
(* action; UpdatePools takes and releases it several times and is several. *)
(* The pool goroutines never take mx.  Definitions whose name begins with  *)
(* Mut are seeded bugs for the mutation runs; nothing else uses them.      *)
(***************************************************************************)
EXTENDS Naturals, Sequences

CONSTANTS
    Cfg,                 \* pool configurations (PoolEntryConfig)
    ValidCfg,            \* those that PoolEntryConfig.Parse finds valid
    Configs,             \* lists of configurations: the file's and UpdatePools'
    MAX_POOL_NUMBER,
    MAX_POOL_SEQREJECT,
    Slots,               \* bound: how many pool goroutines exist at once
    MaxObjects,          \* bound: how many PoolRuntimes are ever created
    MaxOps,              \* bound: how many API calls are made, EnablePool aside
    PromptStart          \* TRUE: a goroutine is scheduled within 100 ms

ASSUME CfgAssumption     == ValidCfg \subseteq Cfg
ASSUME ConfigsAssumption == Configs \subseteq Seq(Cfg)
ASSUME NumberAssumption  == /\ MAX_POOL_NUMBER \in Nat \ {0}
                            /\ MAX_POOL_SEQREJECT \in Nat
ASSUME BoundAssumption   == MaxObjects \in Nat /\ MaxOps \in Nat
ASSUME PromptAssumption  == PromptStart \in BOOLEAN

VARIABLES
    rt,                  \* heap of PoolRuntime objects, by SeqNo
    Pools,               \* the list, of SeqNos
    CurrentPoolIndex,
    currentpool,         \* local of Run(): a SeqNo, Nil before the first pass
    mgr,                 \* "init", "running", "exited": progress of Init/Run
    bExit,               \* set by Fini
    gos,                 \* the goroutines of PoolRuntime.Run
    upd,                 \* the UpdatePools/ApplyConfig call in progress
    sw,                  \* the SWITCHPOOL request of Get() in progress
    ops                  \* number of API calls made, EnablePool aside

vars == <<rt, Pools, CurrentPoolIndex, currentpool, mgr, bExit, gos, upd, sw, ops>>

Nil     == 0
NoIndex == MAX_POOL_NUMBER + 1000

PoolRuntime == [Cfg : ValidCfg, ID : Nat, Priority : Nat, Enabled : BOOLEAN,
                Running : BOOLEAN, Unreachable : BOOLEAN,
                SeqRejected : Nat, bExit : BOOLEAN]
Pcs  == {"idle", "spawned", "top", "dial1", "conn1", "dial2", "conn2", "exit"}
Errs == {"nil", "Unreachable", "other"}
Goroutine == [pool : Nat, pc : Pcs, err : Errs]

NoGoroutine == [pool |-> Nil, pc |-> "idle", err |-> "nil"]
NoUpdate    == [pc |-> "idle", cfgs |-> <<>>, ztp |-> FALSE]
NoSwitch    == [pc |-> "idle", pool |-> Nil]

InList(p) == \E k \in DOMAIN Pools : Pools[k] = p
Live(p)   == \E s \in Slots : gos[s].pc # "idle" /\ gos[s].pool = p

-----------------------------------------------------------------------------
(* PoolRuntime.Stop and PoolRuntime.Start, on the heap h.  Stop also sets  *)
(* the flag of the pool's current session, which has the same effect as    *)
(* bExit, that every session polls.                                        *)
MutStopIgnored(h, p) == h
MutStopClearsRunning(h, p) == [h EXCEPT ![p].bExit = TRUE, ![p].Running = FALSE]
StopPool(h, p) == [h EXCEPT ![p].bExit = TRUE]

StartPool(h, p) ==
    [h EXCEPT ![p] = [@ EXCEPT !.Enabled = TRUE, !.Running = FALSE,
                               !.Unreachable = FALSE, !.SeqRejected = 0,
                               !.bExit = FALSE]]

-----------------------------------------------------------------------------
(* The list operations; each runs under mx.                                *)

RemoveAllPools == Pools' = <<>> /\ UNCHANGED rt

(* AddPool's effect; it refuses a full list and an invalid configuration.  *)
CanAdd(cfg) == Len(Pools) < MAX_POOL_NUMBER /\ cfg \in ValidCfg
MutAddBeforeCreate(cfg) ==
    Pools' = Append(Pools, Len(rt) + 1) /\ UNCHANGED rt
DoAddPool(cfg) ==
    /\ rt' = Append(rt, [Cfg |-> cfg, ID |-> Len(Pools), Priority |-> Len(Pools),
                         Enabled |-> TRUE, Running |-> FALSE, Unreachable |-> FALSE,
                         SeqRejected |-> 0, bExit |-> FALSE])
    /\ Pools' = Append(Pools, Len(rt) + 1)

ApiCall == mgr # "init" /\ ops < MaxOps /\ ops' = ops + 1

AddPool(cfg) ==
    /\ ApiCall
    /\ CanAdd(cfg)
    /\ Len(rt) < MaxObjects
    /\ DoAddPool(cfg)
    /\ UNCHANGED <<CurrentPoolIndex, currentpool, mgr, bExit, gos, upd, sw>>

(* The pool is stopped and leaves the list; the ones behind it move up.    *)
MutRemoveKeepsIDs(ID) ==
    /\ ApiCall
    /\ Len(Pools) > 1
    /\ ID < Len(Pools)
    /\ ID # CurrentPoolIndex
    /\ LET p == Pools[ID + 1] IN
       /\ Pools' = [k \in 1 .. Len(Pools) - 1 |->
                       IF k <= ID THEN Pools[k] ELSE Pools[k + 1]]
       /\ rt' = StopPool(rt, p)
    /\ UNCHANGED <<CurrentPoolIndex, currentpool, mgr, bExit, gos, upd, sw>>

RemovePool(ID) ==
    /\ ApiCall
    /\ Len(Pools) > 1
    /\ ID < Len(Pools)
    /\ ID # CurrentPoolIndex
    /\ LET p == Pools[ID + 1] IN
       /\ Pools' = [k \in 1 .. Len(Pools) - 1 |->
                       IF k <= ID THEN Pools[k] ELSE Pools[k + 1]]
       /\ rt' = [q \in DOMAIN rt |->
                    IF q = p THEN StopPool(rt, p)[p]
                    ELSE IF ~InList(q) THEN rt[q]
                    ELSE [rt[q] EXCEPT
                            !.Priority = IF @ > rt[p].Priority THEN @ - 1 ELSE @,
                            !.ID       = IF @ > ID THEN @ - 1 ELSE @]]
    /\ UNCHANGED <<CurrentPoolIndex, currentpool, mgr, bExit, gos, upd, sw>>

\* (not counted as a call: it needs a DisablePool before it, which is)
EnablePool(ID) ==
    /\ mgr # "init"
    /\ ID < Len(Pools)
    /\ ~rt[Pools[ID + 1]].Enabled
    /\ rt' = [rt EXCEPT ![Pools[ID + 1]].Enabled = TRUE]
    /\ UNCHANGED <<Pools, CurrentPoolIndex, currentpool, mgr, bExit, gos, upd, sw, ops>>

DisablePool(ID) ==
    /\ ApiCall
    /\ ID < Len(Pools)
    /\ rt[Pools[ID + 1]].Enabled
    /\ rt' = [rt EXCEPT ![Pools[ID + 1]].Enabled = FALSE]
    /\ UNCHANGED <<Pools, CurrentPoolIndex, currentpool, mgr, bExit, gos, upd, sw>>

(* The pool goes to the front of the list and gets priority 0; those that  *)
(* were before it move back by one.  Get() then waits for the switch.      *)
SwitchPool(ID) ==
    /\ ApiCall
    /\ sw.pc # "wait"
    /\ ID < Len(Pools)
    /\ LET p      == Pools[ID + 1]
           before == {Pools[k] : k \in 1 .. ID}
       IN IF rt[p].ID # 0
          THEN /\ Pools' = [k \in DOMAIN Pools |->
                               IF k = 1 THEN p
                               ELSE IF k <= ID + 1 THEN Pools[k - 1] ELSE Pools[k]]
               /\ rt' = [q \in DOMAIN rt |->
                            IF q = p THEN [rt[q] EXCEPT !.ID = 0, !.Priority = 0,
                                                        !.Enabled = TRUE]
                            ELSE IF q \in before
                            THEN [rt[q] EXCEPT !.ID = @ + 1, !.Priority = @ + 1]
                            ELSE rt[q]]
          ELSE rt' = [rt EXCEPT ![p].Enabled = TRUE] /\ UNCHANGED Pools
    /\ sw' = [pc |-> "wait", pool |-> Pools[ID + 1]]
    /\ UNCHANGED <<CurrentPoolIndex, currentpool, mgr, bExit, gos, upd>>

(* The SWITCHPOOL branch of Get() polls GetPool(CurrentPoolIndex) until    *)
(* its configuration is the one switched to, the index is out of the list  *)
(* or 5 seconds have passed; "reported" is the successful answer.          *)
SwitchSeen ==
    /\ CurrentPoolIndex < Len(Pools)
    /\ rt[Pools[CurrentPoolIndex + 1]].Cfg = rt[sw.pool].Cfg
SwitchWait ==
    /\ sw.pc = "wait"
    /\ \/ SwitchSeen  /\ sw' = [sw EXCEPT !.pc = "reported"]
       \/ ~SwitchSeen /\ sw' = NoSwitch
    /\ UNCHANGED <<rt, Pools, CurrentPoolIndex, currentpool, mgr, bExit, gos, upd, ops>>

-----------------------------------------------------------------------------
(* UpdatePools: the local list is checked (for the ZTP command), compared  *)
(* and rebuilt in separate critical sections.                              *)
UpdatePools(cfgs, ztp) ==
    /\ ApiCall
    /\ upd.pc = "idle"
    /\ ~(Len(Pools) > 0 /\ ztp)
    /\ \/ Len(cfgs) = 0 /\ upd' = [pc |-> "remove", cfgs |-> cfgs, ztp |-> ztp]
       \/ /\ \E k \in DOMAIN cfgs : cfgs[k] \in ValidCfg
          /\ upd' = [pc |-> "compare", cfgs |-> cfgs, ztp |-> ztp]
    /\ UNCHANGED <<rt, Pools, CurrentPoolIndex, currentpool, mgr, bExit, gos, sw>>

HasChange(cfgs) ==
    \/ Len(cfgs) # Len(Pools)
    \/ \E k \in DOMAIN cfgs : cfgs[k] # rt[Pools[k]].Cfg

UpdateCompare ==
    /\ upd.pc = "compare"
    /\ upd' = IF HasChange(upd.cfgs) THEN [upd EXCEPT !.pc = "remove"] ELSE NoUpdate
    /\ UNCHANGED <<rt, Pools, CurrentPoolIndex, currentpool, mgr, bExit, gos, sw, ops>>

UpdateRemoveAll ==
    /\ upd.pc = "remove"
    /\ RemoveAllPools
    /\ upd' = [upd EXCEPT !.pc = "add",
                          !.cfgs = IF Len(@) > MAX_POOL_NUMBER
                                   THEN SubSeq(@, 1, MAX_POOL_NUMBER) ELSE @]
    /\ UNCHANGED <<CurrentPoolIndex, currentpool, mgr, bExit, gos, sw, ops>>

(* One turn of the loop of ApplyConfig, or its end.  The call from Init is *)
(* the first one; it ends with the loop Run() entered.                     *)
UpdateAdd ==
    /\ upd.pc = "add"
    /\ upd.cfgs # <<>>
    /\ CanAdd(Head(upd.cfgs)) => Len(rt) < MaxObjects
    /\ IF CanAdd(Head(upd.cfgs)) THEN DoAddPool(Head(upd.cfgs)) ELSE UNCHANGED <<rt, Pools>>
    /\ upd' = [upd EXCEPT !.cfgs = Tail(@)]
    /\ UNCHANGED <<CurrentPoolIndex, currentpool, mgr, bExit, gos, sw, ops>>

UpdateEnd ==
    /\ upd.pc = "add"
    /\ upd.cfgs = <<>>
    /\ upd' = NoUpdate
    /\ CurrentPoolIndex' = IF mgr = "init" THEN NoIndex ELSE CurrentPoolIndex
    /\ mgr' = IF mgr = "init" THEN "running" ELSE mgr
    /\ UNCHANGED <<rt, Pools, currentpool, bExit, gos, sw, ops>>

Fini ==
    /\ ApiCall
    /\ ~bExit
    /\ bExit' = TRUE
    /\ UNCHANGED <<rt, Pools, CurrentPoolIndex, currentpool, mgr, gos, upd, sw>>

-----------------------------------------------------------------------------
(* The scheduler.                                                          *)

Unhealthy(p) == rt[p].SeqRejected > MAX_POOL_SEQREJECT \/ rt[p].Unreachable

(* SchedulePool: by priority, the first pool that is enabled and healthy,  *)
(* failing that the first that is enabled.                                 *)
Schedulable(healthy) ==
    {k \in DOMAIN Pools : rt[Pools[k]].Enabled /\ (healthy => ~Unhealthy(Pools[k]))}
First(ks) == CHOOSE k \in ks : \A j \in ks : rt[Pools[k]].Priority <= rt[Pools[j]].Priority
SchedulePool ==
    IF Schedulable(TRUE) # {} THEN Pools[First(Schedulable(TRUE))]
    ELSE IF Schedulable(FALSE) # {} THEN Pools[First(Schedulable(FALSE))]
    ELSE Nil

(* One pass of the loop of Run().  A pass that finds no pool changes       *)
(* nothing (and does not look at bExit).                                   *)
Tick ==
    /\ mgr = "running"
    /\ PromptStart => \A s \in Slots : gos[s].pc # "spawned"
    /\ LET p     == SchedulePool
           start == ~rt[p].Running
           h     == IF start THEN StartPool(rt, p) ELSE rt
       IN /\ p # Nil
          /\ IF start
             THEN \E s \in Slots :
                     /\ gos[s].pc = "idle"
                     /\ gos' = [gos EXCEPT ![s] = [pool |-> p, pc |-> "spawned", err |-> "nil"]]
             ELSE UNCHANGED gos
          /\ rt' = IF currentpool \notin {p, Nil} THEN StopPool(h, currentpool) ELSE h
          /\ CurrentPoolIndex' = IF currentpool # p THEN rt[p].ID ELSE CurrentPoolIndex
          /\ currentpool' = p
    /\ mgr' = IF bExit THEN "exited" ELSE "running"
    /\ UNCHANGED <<Pools, bExit, upd, sw, ops>>

-----------------------------------------------------------------------------
(* PoolRuntime.Run, the goroutine in slot s.  The sessions themselves are  *)
(* seen from outside: dialling, connected, returned with an error or nil.  *)

Goto(s, pc, err) == gos' = [gos EXCEPT ![s].pc = pc, ![s].err = err]
RunUnchanged == UNCHANGED <<Pools, CurrentPoolIndex, currentpool, mgr, bExit, upd, sw, ops>>

GoBegin(s) ==
    /\ gos[s].pc = "spawned"
    /\ rt' = [rt EXCEPT ![gos[s].pool].Running = TRUE]
    /\ Goto(s, "top", "nil")
    /\ RunUnchanged

(* The head of the loop: an error of the last session ends the goroutine,  *)
(* and ErrUnreachable marks the pool; otherwise a new client dials.        *)
MutLoopIgnoresExit(s) ==
    /\ gos[s].pc = "top"
    /\ LET exit == gos[s].err # "nil" IN
       /\ rt' = [rt EXCEPT ![gos[s].pool].bExit = @ \/ exit,
                           ![gos[s].pool].Unreachable = @ \/ gos[s].err = "Unreachable"]
       /\ Goto(s, IF exit THEN "exit" ELSE "dial1", "nil")
    /\ RunUnchanged
GoLoop(s) ==
    /\ gos[s].pc = "top"
    /\ LET p    == gos[s].pool
           exit == gos[s].err # "nil" \/ rt[p].bExit
       IN /\ rt' = [rt EXCEPT ![p].bExit = exit,
                              ![p].Unreachable = @ \/ gos[s].err = "Unreachable"]
          /\ Goto(s, IF exit THEN "exit" ELSE "dial1", "nil")
    /\ RunUnchanged

MutEndKeepsRunning(s) ==
    /\ gos[s].pc = "exit"
    /\ gos' = [gos EXCEPT ![s] = NoGoroutine]
    /\ UNCHANGED rt
    /\ RunUnchanged
GoEnd(s) ==
    /\ gos[s].pc = "exit"
    /\ rt' = [rt EXCEPT ![gos[s].pool].Running = FALSE]
    /\ gos' = [gos EXCEPT ![s] = NoGoroutine]
    /\ RunUnchanged

(* Stratum.Run dials up to MAX_RETRY times, whatever bExit says, and then  *)
(* returns ErrUnreachable.                                                 *)
GoDial(s) ==
    /\ \/ gos[s].pc = "dial1" /\ Goto(s, "conn1", "nil")
       \/ gos[s].pc = "dial2" /\ Goto(s, "conn2", "nil")
       \/ gos[s].pc \in {"dial1", "dial2"} /\ Goto(s, "top", "Unreachable")
    /\ UNCHANGED rt
    /\ RunUnchanged

(* A connected session returns: nil when it was told to stop or the server *)
(* disconnected, and then the first one is followed by a second with the   *)
(* same subscription; or with another error.                               *)
GoReturn(s) ==
    /\ \/ gos[s].pc = "conn1" /\ Goto(s, "dial2", "nil")
       \/ gos[s].pc = "conn2" /\ Goto(s, "top", "nil")
       \/ gos[s].pc \in {"conn1", "conn2"} /\ Goto(s, "top", "other")
    /\ UNCHANGED rt
    /\ RunUnchanged

(* UpdateShares: the answer of the pool to a share.  The count is capped   *)
(* one above the threshold, where more rejections make no difference.      *)
UpdateShares(s, bAccepted) ==
    /\ gos[s].pc \in {"conn1", "conn2"}
    /\ LET p == gos[s].pool
           n == rt[p].SeqRejected
       IN rt' = [rt EXCEPT ![p].SeqRejected =
                    IF bAccepted THEN 0 ELSE IF n > MAX_POOL_SEQREJECT THEN n ELSE n + 1]
    /\ UNCHANGED gos
    /\ RunUnchanged

-----------------------------------------------------------------------------
Init ==
    /\ rt = <<>>
    /\ Pools = <<>>
    /\ CurrentPoolIndex = 0
    /\ currentpool = Nil
    /\ mgr = "init"
    /\ bExit = FALSE
    /\ gos = [s \in Slots |-> NoGoroutine]
    /\ upd \in {[pc |-> "remove", cfgs |-> c, ztp |-> FALSE] : c \in Configs}
    /\ sw = NoSwitch
    /\ ops = 0

IDs == 0 .. MAX_POOL_NUMBER

ListOp ==
    \/ \E cfg \in Cfg : AddPool(cfg)
    \/ \E ID \in IDs : RemovePool(ID)
    \/ \E ID \in IDs : EnablePool(ID)
    \/ \E ID \in IDs : DisablePool(ID)
    \/ \E ID \in IDs : SwitchPool(ID)
Update ==
    \/ \E cfgs \in Configs, ztp \in BOOLEAN : UpdatePools(cfgs, ztp)
    \/ UpdateCompare
    \/ UpdateRemoveAll
    \/ UpdateAdd
    \/ UpdateEnd
Run(s) ==
    \/ GoBegin(s)
    \/ GoLoop(s)
    \/ GoEnd(s)
    \/ GoDial(s)
    \/ GoReturn(s)
    \/ \E bAccepted \in BOOLEAN : UpdateShares(s, bAccepted)
Next ==
    \/ ListOp
    \/ SwitchWait
    \/ Update
    \/ Fini
    \/ Tick
    \/ \E s \in Slots : Run(s)

ToldToStop(s) == gos[s].pc # "idle" /\ rt[gos[s].pool].bExit

(* What the code's scheduling guarantees: the loop of Run() keeps ticking, *)
(* a call under way goes on, a goroutine is scheduled, a dial succeeds or  *)
(* times out, and a session that was told to stop returns.  A connected    *)
(* session that was not told to may last for ever.                         *)
Fairness ==
    /\ WF_vars(Tick)
    /\ WF_vars(UpdateCompare \/ UpdateRemoveAll \/ UpdateAdd \/ UpdateEnd)
    /\ \A s \in Slots :
        /\ WF_vars(GoBegin(s))
        /\ WF_vars(GoLoop(s))
        /\ WF_vars(GoEnd(s))
        /\ WF_vars(GoDial(s))
        /\ WF_vars(ToldToStop(s) /\ GoReturn(s))

Spec     == Init /\ [][Next]_vars
FairSpec == Spec /\ Fairness

-----------------------------------------------------------------------------
HeapOK ==
    /\ rt \in Seq(PoolRuntime)
    /\ Pools \in Seq(Nat)
    /\ \A k \in 1 .. Len(Pools) : Pools[k] \in 1 .. Len(rt)
SchedulerOK ==
    /\ CurrentPoolIndex \in Nat
    /\ currentpool \in 0 .. Len(rt)
    /\ mgr \in {"init", "running", "exited"}
    /\ bExit \in BOOLEAN
GoroutinesOK ==
    /\ gos \in [Slots -> Goroutine]
    /\ \A s \in Slots : gos[s].pc # "idle" => gos[s].pool \in 1 .. Len(rt)
CallsOK ==
    /\ upd \in [pc : {"idle", "compare", "remove", "add"}, cfgs : Seq(Cfg), ztp : BOOLEAN]
    /\ sw \in [pc : {"idle", "wait", "reported"}, pool : Nat]
    /\ sw.pc # "idle" => sw.pool \in 1 .. Len(rt)
    /\ ops \in 0 .. MaxOps

(* Every variable has its type; list entries, the scheduler's pointer and  *)
(* the goroutines refer to objects of the heap.                            *)
TypeOK == HeapOK /\ SchedulerOK /\ GoroutinesOK /\ CallsOK

(* AddPool, RemovePool and SwitchPool renumber ID and Priority of the      *)
(* other pools incrementally.  Whatever the sequence of calls, the list    *)
(* holds each pool once, in at most MAX_POOL_NUMBER places, and the pool   *)
(* at index k has ID k and Priority k: the API's pool ids address the      *)
(* pool they show, and findPoolWithPriority finds every pool.              *)
ListLayout ==
    /\ Len(Pools) <= MAX_POOL_NUMBER
    /\ \A j, k \in DOMAIN Pools : Pools[j] = Pools[k] => j = k
    /\ \A k \in DOMAIN Pools :
          rt[Pools[k]].ID = k - 1 /\ rt[Pools[k]].Priority = k - 1

(* The miner works for one pool at a time: a goroutine that was not told   *)
(* to stop belongs to the scheduler's current pool, whatever was removed,  *)
(* reordered or restarted meanwhile and even if a pool was started twice.  *)
OnlyCurrentUnstopped ==
    \A s \in Slots :
        gos[s].pc # "idle" /\ ~rt[gos[s].pool].bExit => gos[s].pool = currentpool

(* Running is the only thing that keeps the scheduler from starting a      *)
(* pool; it is never left set after the last goroutine of the pool ended   *)
(* (the pool could not be started again).                                  *)
RunningHasGoroutine == \A p \in DOMAIN rt : rt[p].Running => Live(p)

(* With goroutines scheduled within a tick, no pool is ever run by two     *)
(* goroutines at once (they would share one S, Client and statistics).     *)
OneGoroutinePerPool ==
    PromptStart =>
        \A s, t \in Slots :
            gos[s].pc # "idle" /\ gos[t].pc # "idle" /\ gos[s].pool = gos[t].pool => s = t

(* A pool told to stop does stop, unless it is started again: its          *)
(* goroutine gets through reconnects, dial retries and errors to the end   *)
(* of PoolRuntime.Run.                                                     *)
StoppedPoolEnds ==
    \A p \in 1 .. MaxObjects :
        (p \in DOMAIN rt /\ Live(p) /\ rt[p].bExit) ~> (~Live(p) \/ ~rt[p].bExit)

(* As long as some pool is enabled, the miner keeps having a session or    *)
(* dialling for one: failed, rejecting and unreachable pools are retried.  *)
MiningResumes ==
    []<>(\/ mgr = "exited"
         \/ \A k \in DOMAIN Pools : ~rt[Pools[k]].Enabled
         \/ \E s \in Slots : gos[s].pc \in {"dial1", "conn1", "dial2", "conn2"})

(* What MSG_REMOVE_ACTIVE_POOL says: RemovePool does not remove the pool   *)
(* that is being mined on.  (UpdatePools may.)                             *)
ActiveNotRemoved ==
    [][InList(currentpool) /\ ~InList(currentpool)' => upd.pc = "remove"]_vars
=============================================================================
