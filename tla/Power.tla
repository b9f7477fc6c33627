-------------------------------- MODULE Power --------------------------------
(***************************************************************************)
(* Power of the miner: device/psu (the PSU's registers, the cached power   *)
(* state and its monitor, low-power mode), device/powerstate (hash power   *)
(* and reset of the boards), the start-up of device/manager.go, and what   *)
(* DVFS does to the power of the boards.                                   *)
(*                                                                         *)
(* Four goroutines: DeviceManager.Init and Run (main), dvfsMainloop        *)
(* (dvfs), the PSU monitor (mon) and LowPowerMode.Mon (lp).  at[g] is      *)
(* where g is, ii[g] the board or the attempt of its loop.  A register     *)
(* access is two steps, psuGet and the rest; poweredOnMu is held across    *)
(* the access of PsuOn, PsuOff and the poll.  The process may end at any   *)
(* time and be started again; the registers of the PSU and the pins of the *)
(* boards keep their values.                                               *)
(***************************************************************************)
EXTENDS Naturals

CONSTANTS
    NBoards,             \* GetTotalChainCount, GetHashBoardCount
    Kinds,               \* the PSUs there may be, "none" among them
    HbPowerSupport,      \* the chassis switches hash power by pins
    BusFails,            \* TRUE: an access may fail, with or without effect
    OpenFails            \* TRUE: smbus.Open may fail

ASSUME BoardAssumption == NBoards \in Nat \ {0}
ASSUME KindAssumption  == Kinds \subseteq {"boco", "bocoV2", "aa", "vendor", "none"}
ASSUME ModeAssumption  == {HbPowerSupport, BusFails, OpenFails} \subseteq BOOLEAN

VARIABLES
    kind,                \* the PSU there is
    on, asleep, vout,    \* its registers cmdOn, cmdSleep and cmdVout ("min" or "high")
    vdd,                 \* the boards whose power pin is set
    reset,               \* the boards whose reset is asserted
    proc,                \* "up", or what the process ended by
    psuAddr,             \* the PSU found; "none" is 0
    psuMutex,            \* locked or not
    bus,                 \* how far the register access of each goroutine is
    poweredOnMu,         \* the goroutine that holds it, or "nobody"
    poweredOn,           \* cached state of the PSU
    PreInitDone,         \* (and psuTrace made)
    hbPowerIsOn,         \* the boards HbPowerOn was called for
    at, ii,              \* the goroutines
    tripped,             \* the PSU switched itself off since the last PsuOn
    unsure               \* registers of which this process cannot know what they are

psu     == <<on, asleep, vout>>
pins    == <<vdd, reset>>
mutex   == <<psuMutex, bus>>
cache   == <<poweredOnMu, poweredOn>>
found   == <<psuAddr, PreInitDone>>
control == <<at, ii>>
process == <<proc, mutex, cache, found, hbPowerIsOn, control>>
vars    == <<kind, psu, pins, process, tripped, unsure>>

Boards    == 1 .. NBoards
G         == {"main", "dvfs", "mon", "lp"}
Registers == {"on", "sleep", "vout"}

At(g, step) == proc = "up" /\ at[g] = step
Goto(g, step) == at' = [at EXCEPT ![g] = step] /\ UNCHANGED ii
GotoLoop(g, step, i) == at' = [at EXCEPT ![g] = step] /\ ii' = [ii EXCEPT ![g] = i]

MutForEach(g, step, next) ==
    IF ii[g] <= NBoards THEN GotoLoop(g, step, ii[g] + 1) ELSE GotoLoop(g, next, 1)
\* the end of a loop's body: the step for the next board, or what follows
ForEach(g, step, next) ==
    IF ii[g] < NBoards THEN GotoLoop(g, step, ii[g] + 1) ELSE GotoLoop(g, next, 1)

-----------------------------------------------------------------------------
(* The process: its variables when it starts, and the ways it ends.        *)

NewBus == [g \in G |-> "out"]
NewAt  == [g \in G |-> IF g = "main" THEN "SetPsuType" ELSE "none"]
NewIi  == [g \in G |-> 0]

ProcessInit ==
    /\ psuAddr = "none" /\ PreInitDone = FALSE
    /\ psuMutex = FALSE /\ bus = NewBus
    /\ poweredOnMu = "nobody" /\ poweredOn = FALSE
    /\ hbPowerIsOn = {}
    /\ at = NewAt /\ ii = NewIi

Init ==
    /\ kind \in Kinds
    /\ on \in (IF kind = "none" THEN {FALSE} ELSE BOOLEAN)
    /\ asleep \in (IF kind \in {"none", "vendor"} THEN {FALSE} ELSE BOOLEAN)
    /\ vout = "min"
    /\ vdd = {}
    /\ reset \in {{}, Boards}
    /\ proc = "up"
    /\ ProcessInit
    /\ tripped = FALSE
    /\ unsure = Registers

Ends(why) ==
    /\ proc' = why
    /\ psuAddr' = "none" /\ PreInitDone' = FALSE
    /\ psuMutex' = FALSE /\ bus' = NewBus
    /\ poweredOnMu' = "nobody" /\ poweredOn' = FALSE
    /\ hbPowerIsOn' = {}
    /\ at' = NewAt /\ ii' = NewIi
    /\ unsure' = Registers
    /\ UNCHANGED <<kind, psu, pins, tripped>>

Killed == proc = "up" /\ Ends("killed")
Restart ==
    /\ proc # "up"
    /\ proc' = "up"
    /\ UNCHANGED <<kind, psu, pins, mutex, cache, found, hbPowerIsOn, control, tripped, unsure>>

-----------------------------------------------------------------------------
(* Register access.                                                        *)

AccessSteps == {"sleepRead", "sleepWrite", "getFixedData", "preInitVout", "ClearFaults",
                "watchdog", "onWrite", "offWrite", "setupVout", "tuneMin", "tuneHigh",
                "reread", "Mon"}
SleepSteps  == {"sleepRead", "sleepWrite", "Mon"}
NeedsBus(g) == /\ proc = "up" /\ at[g] \in AccessSteps /\ psuAddr # "none"
               /\ ~(psuAddr = "vendor" /\ at[g] \in SleepSteps)

\* when Open fails psuGet has unlocked psuMutex, and its caller will again
psuGet(g) ==
    /\ NeedsBus(g)
    /\ bus[g] = "out"
    /\ ~psuMutex
    /\ \/ bus' = [bus EXCEPT ![g] = "open"] /\ psuMutex' = TRUE
       \/ OpenFails /\ bus' = [bus EXCEPT ![g] = "failed"] /\ UNCHANGED psuMutex
    /\ UNCHANGED <<kind, psu, pins, proc, cache, found, hbPowerIsOn, control, tripped, unsure>>

\* unlocking a mutex that is not locked is fatal to the process
UnlockFatal(g) ==
    /\ bus[g] # "out"
    /\ ~psuMutex
    /\ Ends("fatal")

(* The end of an access by g: no PSU, no connection, or the device's       *)
(* answer after psuRetries attempts, and psuFree.                          *)
Access(g, ok) ==
    /\ \/ psuAddr = "none" /\ bus[g] = "out" /\ ~ok /\ UNCHANGED psuMutex
       \/ bus[g] = "failed" /\ psuMutex /\ ~ok /\ psuMutex' = FALSE
       \/ bus[g] = "open" /\ psuMutex /\ (ok \/ BusFails) /\ psuMutex' = FALSE
    /\ bus' = [bus EXCEPT ![g] = "out"]

Sure(r, ok) == unsure' = IF ok THEN unsure \ {r} ELSE unsure \cup {r}

\* a failed write of cmdOn leaves the cached state right if it had no effect
SureOn(ok) == unsure' = IF ok THEN unsure \ {"on"}
                        ELSE IF on' # on THEN unsure \cup {"on"} ELSE unsure

\* what a register is after a write; one that failed may have taken effect
Written(g, ok, old, new) == IF ok THEN {new} ELSE IF bus[g] = "open" THEN {old, new} ELSE {old}

-----------------------------------------------------------------------------
(* psu.go: the type of the PSU, and PreInit and Init around the rest.      *)

(* SetPsuType, without psuMutex: called by DeviceManager.Init (attempt 0), *)
(* and by PreInit, which Init repeats if it found no PSU (1 and 2).        *)
SetPsuType ==
    /\ At("main", "SetPsuType")
    /\ psuAddr' = "none"
    /\ Goto("main", "probe")
    /\ UNCHANGED <<kind, psu, pins, proc, mutex, cache, PreInitDone, hbPowerIsOn, tripped, unsure>>
Probe ==
    /\ At("main", "probe")
    /\ psuAddr' \in (IF BusFails \/ OpenFails THEN {kind, "none"} ELSE {kind})
    /\ IF ii["main"] = 0 THEN GotoLoop("main", "HbPowerOff", 1)
       ELSE IF psuAddr' # "none" THEN Goto("main", "getFixedData")
       ELSE IF ii["main"] = 1 THEN GotoLoop("main", "SetPsuType", 2)
       ELSE Goto("main", "ClearFaults")
    /\ UNCHANGED <<kind, psu, pins, proc, mutex, cache, PreInitDone, hbPowerIsOn, tripped, unsure>>

\* accesses nothing else depends on: the strings, and the fault registers
getFixedData ==
    /\ At("main", "getFixedData")
    /\ \E ok \in BOOLEAN : Access("main", ok)
    /\ Goto("main", "preInitVout")
    /\ UNCHANGED <<kind, psu, pins, proc, cache, found, hbPowerIsOn, tripped,
                   unsure>>
ClearFaults ==
    /\ At("main", "ClearFaults")
    /\ \E ok \in BOOLEAN : Access("main", ok)
    /\ Goto("main", "PsuOn")
    /\ UNCHANGED <<kind, psu, pins, proc, cache, found, hbPowerIsOn, tripped,
                   unsure>>

(* psu.SetVoltage; cmdVout is read first, and written if it differs or the *)
(* read failed.                                                            *)
PsuSetVoltage(g, v) ==
    /\ \E ok \in BOOLEAN :
         /\ Access(g, ok)
         /\ vout' \in Written(g, ok, vout, v)
         /\ Sure("vout", ok)
    /\ UNCHANGED <<kind, on, asleep, pins, proc, cache, psuAddr, hbPowerIsOn, tripped>>
PreInit ==
    /\ At("main", "preInitVout")
    /\ PsuSetVoltage("main", "min")
    /\ PreInitDone' = TRUE
    /\ Goto("main", "ClearFaults")

-----------------------------------------------------------------------------
(* psu.go: switching on and off, and the monitor.                          *)

MutLock(g) == poweredOnMu' = g
Lock(g)    == poweredOnMu = "nobody" /\ poweredOnMu' = g
Unlock     == poweredOnMu' = "nobody"

\* the monitor is started whatever became of PsuOn
AfterPsuOn == /\ at' = [at EXCEPT !["main"] = "HbUnreset", !["mon"] = "poll"]
              /\ ii' = [ii EXCEPT !["main"] = 1]

PsuOn ==
    /\ At("main", "PsuOn")
    /\ Lock("main")
    /\ Goto("main", IF psuAddr = "bocoV2" THEN "watchdog" ELSE "onWrite")
    /\ UNCHANGED <<kind, psu, pins, proc, mutex, poweredOn, found, hbPowerIsOn, tripped, unsure>>
MutWatchDog ==
    /\ At("main", "watchdog")
    /\ \E ok \in BOOLEAN :
         /\ Access("main", ok)
         /\ IF ok THEN Goto("main", "onWrite") ELSE AfterPsuOn
    /\ UNCHANGED <<kind, psu, pins, proc, cache, found, hbPowerIsOn, tripped,
                   unsure>>
WatchDog ==
    /\ At("main", "watchdog")
    /\ \E ok \in BOOLEAN :
         /\ Access("main", ok)
         /\ IF ok THEN Goto("main", "onWrite") /\ UNCHANGED poweredOnMu
                  ELSE AfterPsuOn /\ Unlock
    /\ UNCHANGED <<kind, psu, pins, proc, poweredOn, found, hbPowerIsOn, tripped,
                   unsure>>
PsuOnWrite ==
    /\ At("main", "onWrite")
    /\ \E ok \in BOOLEAN :
         /\ Access("main", ok)
         /\ on' \in Written("main", ok, on, TRUE)
         /\ poweredOn' = (poweredOn \/ ok)
         /\ tripped' = (tripped /\ ~ok)
         /\ SureOn(ok)
    /\ Unlock
    /\ AfterPsuOn
    /\ UNCHANGED <<kind, asleep, vout, pins, proc, found, hbPowerIsOn>>

PsuOff(g) ==
    /\ At(g, "PsuOff")
    /\ Lock(g)
    /\ Goto(g, "offWrite")
    /\ UNCHANGED <<kind, psu, pins, proc, mutex, poweredOn, found, hbPowerIsOn, tripped, unsure>>
MutOffUnchecked(g) ==
    /\ At(g, "offWrite")
    /\ \E ok \in BOOLEAN :
         /\ Access(g, ok)
         /\ on' \in Written(g, ok, on, FALSE)
         /\ SureOn(ok)
    /\ poweredOn' = FALSE
    /\ Unlock
    /\ Goto(g, IF g = "main" THEN "sleepRead" ELSE "idle")
    /\ UNCHANGED <<kind, asleep, vout, pins, proc, found, hbPowerIsOn, tripped>>
PsuOffWrite(g) ==
    /\ At(g, "offWrite")
    /\ \E ok \in BOOLEAN :
         /\ Access(g, ok)
         /\ on' \in Written(g, ok, on, FALSE)
         /\ poweredOn' = (poweredOn /\ ~ok)
         /\ SureOn(ok)
    /\ Unlock
    /\ Goto(g, IF g = "main" THEN "sleepRead" ELSE "idle")
    /\ UNCHANGED <<kind, asleep, vout, pins, proc, found, hbPowerIsOn, tripped>>

(* pollPsuData, every second.  GetPsuStatus reports no PSU as on, so a PSU *)
(* that should be on is always looked at again.  Without PreInit there is  *)
(* no psuTrace (a panic).  A PSU found off is taken for one that switched  *)
(* itself off ("tripped"); that, or one that cannot be read ("unread"),    *)
(* ends the process.                                                       *)
pollPsuData ==
    /\ At("mon", "poll")
    /\ poweredOnMu = "nobody"
    /\ \/ ~PreInitDone /\ Ends("panic")
       \/ /\ PreInitDone
          /\ poweredOn
          /\ Lock("mon")
          /\ Goto("mon", "reread")
          /\ UNCHANGED <<kind, psu, pins, proc, mutex, poweredOn, found, hbPowerIsOn,
                         tripped, unsure>>
Reread ==
    /\ At("mon", "reread")
    /\ \/ /\ on
          /\ Access("mon", TRUE)
          /\ Unlock
          /\ Goto("mon", "poll")
          /\ UNCHANGED <<kind, psu, pins, proc, poweredOn, found, hbPowerIsOn, tripped, unsure>>
       \/ ~on /\ bus["mon"] = "open" /\ psuMutex /\ Ends("tripped")
       \/ bus["mon"] = "open" /\ psuMutex /\ BusFails /\ Ends("unread")
       \/ bus["mon"] = "failed" /\ psuMutex /\ Ends("unread")

-----------------------------------------------------------------------------
(* low_power_mode.go.  SetSleep(false) is the only use; a register that    *)
(* cannot be read counts as normal power.  checkSystem looks at            *)
(* GetPsuStatus, which reports nothing wrong: Mon never restores normal    *)
(* power itself.                                                           *)

getSleepReg(g, low, sure) ==
    \/ psuAddr = "vendor" /\ ~low /\ sure /\ UNCHANGED mutex
    \/ psuAddr # "vendor" /\ Access(g, sure) /\ low = (sure /\ asleep)

GoMon == at' = [at EXCEPT !["main"] = "SetPsuType", !["lp"] = "Mon"]
            /\ ii' = [ii EXCEPT !["main"] = 1]

SetNormalPower ==
    /\ At("main", "sleepRead")
    /\ \E low, sure \in BOOLEAN :
         /\ getSleepReg("main", low, sure)
         /\ IF low THEN Goto("main", "sleepWrite") ELSE GoMon
         /\ Sure("sleep", sure)
    /\ UNCHANGED <<kind, psu, pins, proc, cache, found, hbPowerIsOn, tripped>>
MutSleepKept ==
    /\ At("main", "sleepWrite")
    /\ \E ok \in BOOLEAN : Access("main", ok) /\ Sure("sleep", ok)
    /\ GoMon
    /\ UNCHANGED <<kind, psu, pins, proc, cache, found, hbPowerIsOn, tripped>>
setSleepReg ==
    /\ At("main", "sleepWrite")
    /\ \E ok \in BOOLEAN :
         /\ Access("main", ok)
         /\ asleep' \in Written("main", ok, asleep, FALSE)
         /\ Sure("sleep", ok)
    /\ GoMon
    /\ UNCHANGED <<kind, on, vout, pins, proc, cache, found, hbPowerIsOn, tripped>>
Mon ==
    /\ At("lp", "Mon")
    /\ \E low, sure \in BOOLEAN :
         /\ getSleepReg("lp", low, sure)
         /\ Goto("lp", IF low THEN "Mon" ELSE "none")
    /\ UNCHANGED <<kind, psu, pins, proc, cache, found, hbPowerIsOn, tripped,
                   unsure>>

-----------------------------------------------------------------------------
(* power-state.go.  SystemPowerOff is HbPowerOff and HbReset of each board *)
(* and PsuOff; DVFS does the former two to a board that is dead.           *)

MutOffCached(g) ==
    /\ \/ At(g, "HbPowerOff") /\ Goto(g, "HbReset")
       \/ At(g, "deadOff") /\ Goto(g, "deadReset")
    /\ IF HbPowerSupport /\ ii[g] \in hbPowerIsOn
       THEN vdd' = vdd \ {ii[g]} /\ hbPowerIsOn' = hbPowerIsOn \ {ii[g]}
       ELSE UNCHANGED <<vdd, hbPowerIsOn>>
    /\ UNCHANGED <<kind, psu, reset, proc, mutex, cache, found, tripped, unsure>>
HbPowerOff(g) ==
    /\ \/ At(g, "HbPowerOff") /\ Goto(g, "HbReset")
       \/ At(g, "deadOff") /\ Goto(g, "deadReset")
    /\ IF HbPowerSupport
       THEN vdd' = vdd \ {ii[g]} /\ hbPowerIsOn' = hbPowerIsOn \ {ii[g]}
       ELSE UNCHANGED <<vdd, hbPowerIsOn>>
    /\ UNCHANGED <<kind, psu, reset, proc, mutex, cache, found, tripped, unsure>>
HbReset(g) ==
    /\ \/ At(g, "HbReset") /\ ForEach(g, "HbPowerOff", "PsuOff")
       \/ At(g, "deadReset") /\ Goto(g, "idle")
    /\ reset' = IF HbPowerSupport /\ ii[g] \in hbPowerIsOn THEN reset ELSE reset \cup {ii[g]}
    /\ UNCHANGED <<kind, psu, vdd, proc, mutex, cache, found, hbPowerIsOn, tripped, unsure>>
SystemUnreset ==
    /\ At("main", "HbUnreset")
    /\ reset' = reset \ {ii["main"]}
    /\ ForEach("main", "HbUnreset", "setupVout")
    /\ UNCHANGED <<kind, psu, vdd, proc, mutex, cache, found, hbPowerIsOn, tripped, unsure>>
\* the boards that are present; then DVFS is started
HbPowerOn ==
    /\ At("main", "HbPowerOn")
    /\ \/ vdd' = vdd \cup {ii["main"]} /\ hbPowerIsOn' = hbPowerIsOn \cup {ii["main"]}
       \/ UNCHANGED <<vdd, hbPowerIsOn>>
    /\ IF ii["main"] < NBoards THEN GotoLoop("main", "HbPowerOn", ii["main"] + 1)
       ELSE at' = [at EXCEPT !["main"] = "run", !["dvfs"] = "idle"] /\ UNCHANGED ii
    /\ UNCHANGED <<kind, psu, reset, proc, mutex, cache, found, tripped, unsure>>

-----------------------------------------------------------------------------
(* dvfs.go and dvfs2.go: InitialSetup's voltage, standby, dead boards, and *)
(* the voltages of the tuning.                                             *)

InitialSetup ==
    /\ At("main", "setupVout")
    /\ PsuSetVoltage("main", "min")
    /\ GotoLoop("main", "HbPowerOn", 1)
    /\ UNCHANGED PreInitDone
DvfsIdle(step, b) ==
    /\ At("dvfs", "idle")
    /\ GotoLoop("dvfs", step, b)
    /\ UNCHANGED <<kind, psu, pins, proc, mutex, cache, found, hbPowerIsOn, tripped, unsure>>
enterStandbyMode == DvfsIdle("HbPowerOff", 1)
DeadBoard        == \E b \in Boards : DvfsIdle("deadOff", b)
Retune           == \E step \in {"tuneMin", "tuneHigh"} : DvfsIdle(step, 1)
SetVoltage ==
    /\ \/ At("dvfs", "tuneMin") /\ PsuSetVoltage("dvfs", "min")
       \/ At("dvfs", "tuneHigh") /\ PsuSetVoltage("dvfs", "high")
    /\ Goto("dvfs", "idle")
    /\ UNCHANGED PreInitDone

-----------------------------------------------------------------------------
\* the PSU switches itself off
Trip ==
    /\ on
    /\ on' = FALSE
    /\ tripped' = TRUE
    /\ UNCHANGED <<kind, asleep, vout, pins, process, unsure>>

Step(g) ==
    \/ PsuOff(g) \/ PsuOffWrite(g) \/ HbPowerOff(g) \/ HbReset(g)
    \/ /\ g = "main"
       /\ \/ SetPsuType \/ Probe \/ getFixedData \/ PreInit \/ ClearFaults \/ PsuOn \/ WatchDog
          \/ PsuOnWrite \/ SetNormalPower \/ setSleepReg \/ SystemUnreset \/ InitialSetup
          \/ HbPowerOn
    \/ g = "dvfs" /\ SetVoltage
    \/ g = "mon" /\ (pollPsuData \/ Reread)
    \/ g = "lp" /\ Mon

Next ==
    \/ \E g \in G : psuGet(g) \/ UnlockFatal(g) \/ Step(g)
    \/ enterStandbyMode \/ DeadBoard \/ Retune
    \/ Killed \/ Restart \/ Trip

(* A goroutine goes on as long as its process runs, and gets a mutex that  *)
(* is unlocked again and again: sync.Mutex hands itself to a waiter that   *)
(* starves.  Nothing makes DVFS act, the process end or a PSU trip.        *)
Fairness == \A g \in G : SF_vars(psuGet(g) \/ UnlockFatal(g) \/ Step(g))

Spec     == Init /\ [][Next]_vars
FairSpec == Spec /\ Fairness

-----------------------------------------------------------------------------
(* Every variable has its type.                                            *)
TypeOK ==
    /\ kind \in Kinds
    /\ {on, asleep, psuMutex, poweredOn, PreInitDone, tripped} \subseteq BOOLEAN
    /\ vout \in {"min", "high"}
    /\ {vdd, reset, hbPowerIsOn} \subseteq SUBSET Boards
    /\ proc \in {"up", "killed", "fatal", "panic", "tripped", "unread"}
    /\ psuAddr \in Kinds \cup {"none"}
    /\ bus \in [G -> {"out", "open", "failed"}]
    /\ poweredOnMu \in G \cup {"nobody"}
    /\ ii \in [G -> 0 .. (NBoards + 2)]
    /\ unsure \subseteq Registers

(* "We should never assert reset if hash VDD is enabled": on a chassis     *)
(* that switches hash power by pins no board is ever in reset with its     *)
(* power pin set, neither during start-up, whatever the last process left  *)
(* behind, nor in standby, nor when a board is given up.                   *)
ResetInterlock == HbPowerSupport => reset \cap vdd = {}

(* "Cached value guaranteed to be in sync w/ actual PSU state": once this  *)
(* process has switched the PSU on or off, poweredOn is its state whenever *)
(* no switching is under way, unless the PSU tripped or did what a write   *)
(* that failed said.                                                       *)
CacheInSync ==
    poweredOnMu = "nobody" /\ "on" \notin unsure => on = poweredOn \/ (tripped /\ poweredOn)

(* A board is given hash power only at the lowest voltage and from a PSU   *)
(* in normal power mode, unless the access that should see to it failed,   *)
(* even if the last process ended at a high voltage.                       *)
PoweredUpRight ==
    [][~(vdd' \subseteq vdd) => /\ vout = "min" \/ "vout" \in unsure
                                /\ ~asleep \/ "sleep" \in unsure]_vars

(* The monitor does not mistake a PSU that the program is switching off    *)
(* for one that switched itself off, and does notice one that did: the     *)
(* process ends, to be started again, or was switching it off anyway.      *)
MonitorRight ==
    /\ [][proc' = "tripped" /\ proc = "up" => tripped \/ "on" \in unsure]_vars
    /\ poweredOn /\ ~on /\ at["mon"] # "none" ~> ~poweredOn

(* The locks stop nobody for ever: start-up comes to its end, and so does  *)
(* every standby, given-up board and change of voltage, or the process.    *)
Working    == proc = "up" /\ ~(at["main"] = "run" /\ at["dvfs"] = "idle")
WorkGoesOn == Working ~> ~Working
=============================================================================
