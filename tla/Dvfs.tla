-------------------------------- MODULE Dvfs --------------------------------
(***************************************************************************)
(* The loop that tunes the board's voltage and frequency:                  *)
(* device/asic/dvfs2.go, with SetVoltage of dvfs.go, psu.SetVoltage and    *)
(* powerstate.SystemPowerOff.  One goroutine runs it; what it does not     *)
(* control are the readings: temperature, input power and hit rate, which  *)
(* are chosen by class, and the PSU's bus, on which a write may fail.      *)
(*                                                                         *)
(* Voltages are counted in steps of voltage_step.  Target hash rates are   *)
(* levels: a reduction is one level, a raise any number of them.  The      *)
(* back-off percentage is kept exactly, in units of 1/60000.               *)
(***************************************************************************)
EXTENDS Naturals

CONSTANTS
    VoutMin,             \* psu.MinerVoutMin
    VSysMin,             \* systeminfo.min_voltage, higher than VoutMin for chips of type Zareen
    VMax,                \* systeminfo.max_voltage and psu.MinerVoutMax
    LowerBy,             \* the step down of TUNE_INIT, half a volt
    RaiseBy,             \* the steps up of TUNE_STEPPING_UP and TUNE_FINETUNE
    MinThsRate, OrgTHS,  \* levels of the least target and of the first
    MaxSleep,            \* bound: seconds between two looks at the hit rate
    Bogus,               \* whether ReadPower may return 20000 W and more
    BusFails             \* whether a write of the voltage may fail

ASSUME VoltageAssumption ==
    /\ VoutMin \in Nat /\ VSysMin \in Nat /\ VMax \in Nat /\ LowerBy \in Nat \ {0}
    /\ VoutMin <= VSysMin /\ VSysMin <= VMax
    /\ RaiseBy \subseteq Nat \ {0}
ASSUME LevelAssumption == MinThsRate \in Nat /\ OrgTHS \in Nat /\ MinThsRate < OrgTHS
ASSUME BoundAssumption == MaxSleep \in Nat \ {0}
ASSUME FaultAssumption == Bogus \in BOOLEAN /\ BusFails \in BOOLEAN

BigStep    == 6000       \* backOffPctBigStep, 0.10
SmallStep  == 3600       \* backOffPctSmallStep, 0.06
MinPctStep == 900        \* 0.015

VARIABLES
    dvfsState, tuneState,
    voltage,             \* dd.voltage
    vout,                \* what the PSU was told last
    written,             \* history: whether the last write of the voltage succeeded
    frequency,           \* the level setFreqAll was called with last, 0 for MinFreq
    targetTHS, curTargetTHS,
    hitrate,             \* class of the last hit rate
    curPower,            \* class of the last power reading that was not ignored
    nBouncingBack, backOffPct, targetReducing,
    systemOn,            \* FALSE after SystemPowerOff
    secs                 \* seconds left before the hit rate is looked at

voltVars   == <<voltage, vout, written>>
targetVars == <<targetTHS, curTargetTHS, nBouncingBack, backOffPct, targetReducing>>
vars == <<dvfsState, tuneState, voltVars, frequency, targetVars, hitrate, curPower, systemOn, secs>>

DvfsStates == {"TUNING", "NORMAL", "STANDBY"}
TuneStates == {"INIT", "SET_FREQ", "STEPPING_UP", "FINETUNE"}   \* OPTIMIZE is never entered
HitRates   == {"low", "between", "good"}   \* up to start_rate, between, from low_rate on
Powers     == {"low", "mid", "high"}       \* below powerLowWater, between, above powerHighWater
Volts      == VoutMin .. VMax
Levels     == 0 .. OrgTHS

Lesser(a, b)  == IF a < b THEN a ELSE b
Greater(a, b) == IF a > b THEN a ELSE b

-----------------------------------------------------------------------------
(* Voltage                                                                 *)

\* psu.SetVoltage, whose error is ignored
PsuSetVoltage(v) ==
    \/ vout' = Greater(VoutMin, Lesser(v, VMax)) /\ written' = TRUE
    \/ BusFails /\ UNCHANGED vout /\ written' = FALSE

MutNoClamp(v) == PsuSetVoltage(v) /\ voltage' = v

SetVoltage(v) ==
    LET clamped == Greater(v, VSysMin) IN
    /\ PsuSetVoltage(clamped)
    /\ voltage' = clamped

Lowered == IF voltage > LowerBy THEN voltage - LowerBy ELSE 0

StepUp == \E step \in RaiseBy : SetVoltage(Lesser(voltage + step, VMax))

-----------------------------------------------------------------------------
(* The state machine of tuneHashRate, called with the hit rate just read.  *)

tuneDone == dvfsState' = "NORMAL" /\ UNCHANGED voltVars

MutLowerOnce ==
    /\ tuneState = "INIT"
    /\ IF voltage > VoutMin THEN SetVoltage(Lowered) ELSE UNCHANGED voltVars
    /\ tuneState' = "SET_FREQ"
    /\ UNCHANGED <<dvfsState, frequency>>

TuneInit ==
    /\ tuneState = "INIT"
    /\ IF voltage > VoutMin THEN SetVoltage(Lowered) ELSE UNCHANGED voltVars
    /\ tuneState' = IF voltage' <= VoutMin THEN "SET_FREQ" ELSE "INIT"
    /\ UNCHANGED <<dvfsState, frequency>>

TuneSetFreq ==
    /\ tuneState = "SET_FREQ"
    /\ frequency' = curTargetTHS
    /\ tuneState' = "STEPPING_UP"
    /\ UNCHANGED <<dvfsState, voltVars>>

FineTune ==
    /\ \/ hitrate' = "low" /\ voltage >= VMax /\ tuneDone
       \/ hitrate' = "good" /\ tuneDone
       \/ /\ hitrate' = "between" \/ (hitrate' = "low" /\ voltage < VMax)
          /\ StepUp
          /\ UNCHANGED dvfsState
    /\ tuneState' = "FINETUNE"

TuneFineTune ==
    /\ tuneState = "FINETUNE"
    /\ FineTune
    /\ UNCHANGED frequency

MutPastMax ==
    /\ tuneState = "STEPPING_UP"
    /\ \/ voltage > VMax /\ tuneDone /\ UNCHANGED tuneState
       \/ \E enough \in BOOLEAN :
            /\ voltage <= VMax
            /\ \/ enough /\ FineTune
               \/ ~enough /\ StepUp /\ UNCHANGED <<dvfsState, tuneState>>
    /\ UNCHANGED frequency

\* enough: most chips have a hit rate over one half, and fine tuning goes on at once
TuneSteppingUp ==
    /\ tuneState = "STEPPING_UP"
    /\ \/ voltage >= VMax /\ tuneDone /\ UNCHANGED tuneState
       \/ \E enough \in BOOLEAN :
            /\ voltage < VMax
            /\ \/ enough /\ FineTune
               \/ ~enough /\ StepUp /\ UNCHANGED <<dvfsState, tuneState>>
    /\ UNCHANGED frequency

tuneHashRate == TuneInit \/ TuneSetFreq \/ TuneSteppingUp \/ TuneFineTune

-----------------------------------------------------------------------------
(* The checks made every second                                            *)

enterStandbyMode ==
    /\ dvfsState' = "STANDBY"
    /\ systemOn' = FALSE

\* what a powered-down system draws is below the low-water mark
ReadPower == IF systemOn THEN Powers ELSE {"low"}

MutTakeAll == ReadPower \cup (IF Bogus THEN {"high"} ELSE {})

\* curPower after checkPower, which ignores a reading of 20000 W and more
PowerAfter == ReadPower \cup (IF Bogus THEN {curPower} ELSE {})

\* the percentage after one more bounce, backing off less and less
Softened == (backOffPct * nBouncingBack) \div (nBouncingBack + 1)

reduceTargetTHS ==
    /\ \/ /\ nBouncingBack = 0
          /\ backOffPct' = IF hitrate = "low" THEN BigStep ELSE SmallStep
          /\ nBouncingBack' = 1
       \/ /\ nBouncingBack # 0
          /\ ~targetReducing /\ backOffPct > MinPctStep
          /\ backOffPct' = Softened
          /\ nBouncingBack' = nBouncingBack + 1
       \/ /\ nBouncingBack # 0
          /\ targetReducing \/ backOffPct <= MinPctStep
          /\ UNCHANGED <<backOffPct, nBouncingBack>>
    /\ targetReducing' = TRUE
    /\ targetTHS' = Greater(MinThsRate, curTargetTHS - 1)
    /\ UNCHANGED curTargetTHS

TooHot ==
    /\ secs > 0
    /\ enterStandbyMode
    /\ secs' = 0
    /\ UNCHANGED <<tuneState, voltVars, frequency, targetVars, hitrate, curPower>>

SlowDown ==
    /\ secs > 0
    /\ curPower' \in PowerAfter
    /\ curPower' = "high" /\ curTargetTHS > MinThsRate
    /\ reduceTargetTHS
    /\ dvfsState' = "TUNING" /\ tuneState' = "INIT"
    /\ secs' = 0
    /\ UNCHANGED <<voltVars, frequency, hitrate, systemOn>>

Second ==
    /\ secs > 0
    /\ curPower' \in PowerAfter
    /\ ~(curPower' = "high" /\ curTargetTHS > MinThsRate)
    /\ secs' = secs - 1
    /\ UNCHANGED <<dvfsState, tuneState, voltVars, frequency, targetVars, hitrate, systemOn>>

perSecondCheck == TooHot \/ SlowDown \/ Second

-----------------------------------------------------------------------------
(* DVFS_NORMAL                                                             *)

\* the target goes back up, when at all, by at least one level
RaiseTarget == targetTHS' \in targetTHS .. OrgTHS

ResetTarget ==
    /\ curPower = "low"
    /\ targetTHS' = OrgTHS
    /\ nBouncingBack' = 0
    /\ UNCHANGED <<backOffPct, targetReducing>>

SuggestedStep ==
    /\ curPower = "low"
    /\ backOffPct' \in {BigStep, SmallStep}
    /\ nBouncingBack' = 1
    /\ targetReducing' = FALSE
    /\ RaiseTarget

MutNotSoftened ==
    /\ nBouncingBack < 5 /\ backOffPct > MinPctStep
    /\ IF targetReducing
       THEN /\ backOffPct' = backOffPct
            /\ nBouncingBack' = nBouncingBack + 1
            /\ targetReducing' = FALSE
       ELSE UNCHANGED <<backOffPct, nBouncingBack, targetReducing>>
    /\ RaiseTarget

OrdinaryStep ==
    /\ nBouncingBack < 5 /\ backOffPct > MinPctStep
    /\ IF targetReducing
       THEN /\ backOffPct' = Softened
            /\ nBouncingBack' = nBouncingBack + 1
            /\ targetReducing' = FALSE
       ELSE UNCHANGED <<backOffPct, nBouncingBack, targetReducing>>
    /\ RaiseTarget

\* what depends on the temperature and on the time since tuning is left open
monitorPowerTarget ==
    /\ targetTHS < OrgTHS
    /\ curPower # "high"
    /\ voltage < VMax
    /\ ResetTarget \/ SuggestedStep \/ OrdinaryStep
    /\ UNCHANGED curTargetTHS

-----------------------------------------------------------------------------
(* dvfsMainloop                                                            *)

\* secs runs down before each of these; sleepFor starts the next round
sleepFor == secs' \in 1 .. MaxSleep

\* unpowered chips report no hits
ReadHitrate == hitrate' \in IF systemOn THEN HitRates ELSE {"low"}

Waiting ==
    /\ secs = 0 /\ dvfsState = "STANDBY"
    /\ sleepFor
    /\ UNCHANGED <<dvfsState, tuneState, voltVars, frequency, targetVars, hitrate, curPower,
                   systemOn>>

\* the temperatures are looked at once more before the hit rate is
TooHotInCycle ==
    /\ secs = 0 /\ dvfsState # "STANDBY"
    /\ enterStandbyMode
    /\ ReadHitrate
    /\ sleepFor
    /\ UNCHANGED <<tuneState, voltVars, frequency, targetVars, curPower>>

Tuning ==
    /\ secs = 0 /\ dvfsState = "TUNING"
    /\ ReadHitrate
    /\ tuneHashRate
    /\ sleepFor
    /\ UNCHANGED <<targetVars, curPower, systemOn>>

Normal ==
    /\ secs = 0 /\ dvfsState = "NORMAL"
    /\ ReadHitrate
    /\ monitorPowerTarget \/ UNCHANGED targetVars
    /\ sleepFor
    /\ UNCHANGED <<dvfsState, tuneState, voltVars, frequency, curPower, systemOn>>

\* after InitialSetup and the start of dvfsMainloop
Init ==
    /\ dvfsState = "TUNING" /\ tuneState = "INIT"
    /\ voltage = VSysMin /\ vout = VSysMin /\ written = TRUE
    /\ frequency = 0
    /\ targetTHS = OrgTHS /\ curTargetTHS = OrgTHS
    /\ hitrate = "low" /\ curPower = "low"
    /\ nBouncingBack = 0 /\ backOffPct = BigStep /\ targetReducing = FALSE
    /\ systemOn = TRUE
    /\ secs \in 1 .. MaxSleep

Next == perSecondCheck \/ Waiting \/ TooHotInCycle \/ Tuning \/ Normal

\* one goroutine that is never blocked: some step is always taken
Spec == Init /\ [][Next]_vars /\ WF_vars(Next)

-----------------------------------------------------------------------------
(* Properties                                                              *)

\* Variables have their types; dd.voltage stays within the limits of
\* SysInfoInit although tuneHashRate lowers it by whole half volts and
\* raises it by several steps at once.
TypeOK ==
    /\ dvfsState \in DvfsStates /\ tuneState \in TuneStates
    /\ voltage \in VSysMin .. VMax /\ vout \in Volts /\ written \in BOOLEAN
    /\ frequency \in Levels
    /\ targetTHS \in Levels /\ curTargetTHS \in Levels
    /\ hitrate \in HitRates /\ curPower \in Powers
    /\ nBouncingBack \in Nat /\ backOffPct \in Nat
    /\ targetReducing \in BOOLEAN /\ systemOn \in BOOLEAN
    /\ secs \in 0 .. MaxSleep

\* "lower down voltage slowly and then set frequency, to avoid unexpect high
\* chip voltage": when setFreqAll is about to be called the PSU has been
\* taken down to its lowest voltage, also when a power alarm cut an earlier
\* tuning short at a high one.  What can defeat it is a failed write, whose
\* error SetVoltage ignores: dd.voltage is the lowest even so.
LowVoltageFirst ==
    tuneState = "SET_FREQ" => voltage = VoutMin /\ (vout = VoutMin \/ ~written)

\* A system switched off because it was too hot stays in STANDBY.  Only a
\* reading that checkPower ignores takes it up again: curPower is then still
\* above the high-water mark from before, and tuning begins with the power off.
StandbyHolds ==
    [][dvfsState = "STANDBY" /\ dvfsState' # "STANDBY"
         => Bogus /\ curPower = "high" /\ curPower' = "high"]_vars

\* The comment in monitorPowerTarget, "backOffPct = original_value /
\* nBouncingBack", and the one that calls nBouncingBack = 0 with a reduced
\* target impossible; so the bounces come to an end after five or six.
BackOffLaw ==
    /\ targetTHS < OrgTHS => nBouncingBack > 0
    /\ nBouncingBack > 0 => backOffPct * nBouncingBack \in {BigStep, SmallStep}
    /\ nBouncingBack <= 6

\* Tuning comes to an end, unless the power limit is hit again and again or,
\* at the highest voltage, the hit rate stays between start_rate and
\* low_rate, where TUNE_FINETUNE neither gives up nor has a step left.
TuneEnds ==
    \/ []<>(dvfsState # "TUNING")
    \/ []<>(curPower = "high")
    \/ <>[](voltage = VMax /\ hitrate = "between")

\* "if curTargetTHS != targetTHS, it starts tuning", and perSecondCheck "will
\* apply the change": a target that was changed comes to be the one in force,
\* unless the system is switched off first.
TargetApplied == targetTHS # curTargetTHS ~> (targetTHS = curTargetTHS \/ ~systemOn)
=============================================================================
