----------------------------- MODULE DvfsProofs -----------------------------
(***************************************************************************)
(* Theorems about Dvfs, for every range of voltages, every set of steps,   *)
(* every range of targets and both kinds of faults.                        *)
(***************************************************************************)
EXTENDS Dvfs, TLAPS

USE VoltageAssumption, LevelAssumption, BoundAssumption, FaultAssumption

\* SetVoltage leaves dd.voltage and the PSU within their limits, whether or
\* not the write succeeds.
LEMMA SetVoltageType ==
    ASSUME TypeOK, NEW v \in Nat, v <= VMax, SetVoltage(v)
    PROVE  /\ voltage' \in VSysMin .. VMax
           /\ vout' \in Volts
           /\ written' \in BOOLEAN
           /\ voltage' = Greater(v, VSysMin)
           /\ written' => vout' = voltage'
<1> DEFINE clamped == Greater(v, VSysMin)
<1>1. voltage' = clamped /\ PsuSetVoltage(clamped)
  BY DEF SetVoltage
<1>2. clamped \in VSysMin .. VMax
  BY DEF Greater
<1>3. Greater(VoutMin, Lesser(clamped, VMax)) = clamped /\ clamped \in Volts
  BY <1>2 DEF Greater, Lesser, Volts
<1> HIDE DEF clamped
<1>4. CASE vout' = Greater(VoutMin, Lesser(clamped, VMax)) /\ written' = TRUE
  <2>1. vout' = voltage' BY <1>1, <1>3, <1>4
  <2>2. written' \in BOOLEAN BY <1>4, Zenon
  <2> QED BY <1>1, <1>2, <1>3, <2>1, <2>2 DEF clamped
<1>5. CASE UNCHANGED vout /\ written' = FALSE
  <2>1. vout' \in Volts BY <1>5 DEF TypeOK
  <2>2. written' \in BOOLEAN /\ ~written' BY <1>5, Zenon
  <2> QED BY <1>1, <1>2, <2>1, <2>2 DEF clamped
<1> QED BY <1>1, <1>4, <1>5 DEF PsuSetVoltage

\* A step up stays below the highest voltage.
LEMMA StepUpType ==
    ASSUME TypeOK, StepUp
    PROVE  voltage' \in VSysMin .. VMax /\ vout' \in Volts /\ written' \in BOOLEAN
<1>1. PICK step \in RaiseBy : SetVoltage(Lesser(voltage + step, VMax))
  BY DEF StepUp
<1>2. Lesser(voltage + step, VMax) \in Nat /\ Lesser(voltage + step, VMax) <= VMax
  BY DEF TypeOK, Lesser
<1> QED BY <1>1, <1>2, SetVoltageType

\* The percentage after one more bounce is a natural number.
LEMMA SoftenedNat ==
    ASSUME TypeOK PROVE Softened \in Nat
<1>1. backOffPct * nBouncingBack \in Nat BY DEF TypeOK
<1>2. nBouncingBack + 1 \in Nat \ {0} BY DEF TypeOK
<1> QED BY <1>1, <1>2 DEF Softened

-----------------------------------------------------------------------------
\* TUNE_INIT takes the voltage down or leaves it, within its limits.
LEMMA TuneInitType ==
    ASSUME TypeOK, TuneInit
    PROVE  /\ voltage' \in VSysMin .. VMax /\ vout' \in Volts /\ written' \in BOOLEAN
           /\ tuneState' \in TuneStates
           /\ dvfsState' = dvfsState /\ frequency' = frequency
<1>1. CASE voltage > VoutMin
  <2>1. SetVoltage(Lowered) BY <1>1 DEF TuneInit
  <2>2. Lowered \in Nat /\ Lowered <= VMax BY DEF TypeOK, Lowered
  <2> QED BY <2>1, <2>2, SetVoltageType DEF TuneInit, TuneStates
<1>2. CASE ~(voltage > VoutMin)
  BY <1>2 DEF TuneInit, TypeOK, TuneStates, voltVars
<1> QED BY <1>1, <1>2

\* TUNE_FINETUNE, also when TUNE_STEPPING_UP falls through to it.
LEMMA FineTuneType ==
    ASSUME TypeOK, FineTune
    PROVE  /\ voltage' \in VSysMin .. VMax /\ vout' \in Volts /\ written' \in BOOLEAN
           /\ tuneState' \in TuneStates /\ dvfsState' \in DvfsStates
           /\ tuneState' = "FINETUNE"
<1>1. CASE tuneDone
  BY <1>1 DEF FineTune, tuneDone, TypeOK, TuneStates, DvfsStates, voltVars
<1>2. CASE StepUp /\ UNCHANGED dvfsState
  BY <1>2, StepUpType DEF FineTune, TypeOK, TuneStates
<1> QED BY <1>1, <1>2 DEF FineTune

\* What one call of tuneHashRate does to the state of the tuning.
LEMMA TuneHashRateType ==
    ASSUME TypeOK, tuneHashRate
    PROVE  /\ voltage' \in VSysMin .. VMax /\ vout' \in Volts /\ written' \in BOOLEAN
           /\ tuneState' \in TuneStates /\ dvfsState' \in DvfsStates
           /\ frequency' \in Levels
           /\ tuneState' = "SET_FREQ" => TuneInit
<1>1. CASE TuneInit
  BY <1>1, TuneInitType DEF TypeOK
<1>2. CASE TuneSetFreq
  BY <1>2 DEF TuneSetFreq, TypeOK, TuneStates, Levels, voltVars
<1>3. CASE TuneSteppingUp
  <2>1. tuneState = "STEPPING_UP" /\ frequency' = frequency
    BY <1>3 DEF TuneSteppingUp
  <2>2. CASE tuneDone /\ UNCHANGED tuneState
    BY <2>1, <2>2 DEF tuneDone, TypeOK, DvfsStates, voltVars
  <2>3. CASE FineTune
    BY <2>1, <2>3, FineTuneType DEF TypeOK
  <2>4. CASE StepUp /\ UNCHANGED <<dvfsState, tuneState>>
    BY <2>1, <2>4, StepUpType DEF TypeOK
  <2> QED BY <1>3, <2>2, <2>3, <2>4 DEF TuneSteppingUp
<1>4. CASE TuneFineTune
  BY <1>4, FineTuneType DEF TuneFineTune, TypeOK
<1> QED BY <1>1, <1>2, <1>3, <1>4 DEF tuneHashRate

\* A reduction keeps the target between the least one and the first.
LEMMA ReduceType ==
    ASSUME TypeOK, reduceTargetTHS
    PROVE  /\ targetTHS' \in Levels /\ curTargetTHS' \in Levels
           /\ nBouncingBack' \in Nat /\ backOffPct' \in Nat /\ targetReducing' \in BOOLEAN
<1>1. nBouncingBack' \in Nat /\ backOffPct' \in Nat
  BY SoftenedNat DEF reduceTargetTHS, TypeOK, BigStep, SmallStep
<1>2. targetTHS' \in Levels /\ curTargetTHS' \in Levels /\ targetReducing' \in BOOLEAN
  BY DEF reduceTargetTHS, TypeOK, Greater, Levels
<1> QED BY <1>1, <1>2

\* Raising the target never takes it above the first one.
LEMMA MonitorType ==
    ASSUME TypeOK, monitorPowerTarget
    PROVE  /\ targetTHS' \in Levels /\ curTargetTHS' \in Levels
           /\ nBouncingBack' \in Nat /\ backOffPct' \in Nat /\ targetReducing' \in BOOLEAN
<1>1. curTargetTHS' \in Levels BY DEF monitorPowerTarget, TypeOK
<1>2. CASE ResetTarget
  BY <1>1, <1>2 DEF ResetTarget, TypeOK, Levels
<1>3. CASE SuggestedStep
  <2>1. targetReducing' \in BOOLEAN BY <1>3, Zenon DEF SuggestedStep
  <2>2. targetTHS' \in Levels BY <1>3 DEF SuggestedStep, RaiseTarget, TypeOK, Levels
  <2>3. nBouncingBack' \in Nat /\ backOffPct' \in Nat
    BY <1>3 DEF SuggestedStep, BigStep, SmallStep
  <2> QED BY <1>1, <2>1, <2>2, <2>3
<1>4. CASE OrdinaryStep
  <2>1. targetTHS' \in Levels BY <1>4 DEF OrdinaryStep, RaiseTarget, TypeOK, Levels
  <2>2. nBouncingBack' \in Nat /\ backOffPct' \in Nat
    BY <1>4, SoftenedNat DEF OrdinaryStep, TypeOK
  <2>3. targetReducing' = FALSE \/ targetReducing' = targetReducing
    BY <1>4, Zenon DEF OrdinaryStep
  <2>4. targetReducing' \in BOOLEAN
    BY <2>3, Zenon DEF TypeOK
  <2> QED BY <1>1, <2>1, <2>2, <2>4
<1> QED BY <1>2, <1>3, <1>4 DEF monitorPowerTarget

-----------------------------------------------------------------------------
\* The state dvfsMainloop starts in.
LEMMA InitType == Init => TypeOK
<1> SUFFICES ASSUME Init PROVE TypeOK
  OBVIOUS
<1>1. written \in BOOLEAN /\ targetReducing \in BOOLEAN /\ systemOn \in BOOLEAN
  BY Zenon DEF Init
<1>2. secs \in 0 .. MaxSleep BY DEF Init
<1>3. voltage \in VSysMin .. VMax /\ vout \in Volts BY DEF Init, Volts
<1>4. frequency \in Levels /\ targetTHS \in Levels /\ curTargetTHS \in Levels
  BY DEF Init, Levels
<1>5. nBouncingBack \in Nat /\ backOffPct \in Nat BY DEF Init, BigStep
<1>6. dvfsState \in DvfsStates /\ tuneState \in TuneStates /\ hitrate \in HitRates /\ curPower \in Powers
  BY DEF Init, DvfsStates, TuneStates, HitRates, Powers
<1> QED BY <1>1, <1>2, <1>3, <1>4, <1>5, <1>6 DEF TypeOK

\* Type correctness: in particular dd.voltage never leaves the range of
\* SysInfoInit.
THEOREM TypeCorrect == Spec => []TypeOK
<1>1. Init => TypeOK
  BY InitType
<1>2. TypeOK /\ [Next]_vars => TypeOK'
  <2> SUFFICES ASSUME TypeOK, [Next]_vars PROVE TypeOK'
    OBVIOUS
  <2>1. CASE TooHot
    <3>1. systemOn' \in BOOLEAN BY <2>1, Zenon DEF TooHot, enterStandbyMode
    <3>2. dvfsState' \in DvfsStates BY <2>1 DEF TooHot, enterStandbyMode, DvfsStates
    <3> QED BY <2>1, <3>1, <3>2 DEF TooHot, TypeOK, voltVars, targetVars
  <2>2. CASE SlowDown
    <3>1. curPower' \in Powers BY <2>2 DEF SlowDown, Powers
    <3>2. dvfsState' \in DvfsStates /\ tuneState' \in TuneStates
      BY <2>2 DEF SlowDown, DvfsStates, TuneStates
    <3>3. reduceTargetTHS BY <2>2 DEF SlowDown
    <3> QED BY <2>2, <3>1, <3>2, <3>3, ReduceType DEF SlowDown, TypeOK, voltVars
  <2>3. CASE Second
    <3>1. curPower' \in Powers BY <2>3 DEF Second, PowerAfter, ReadPower, Powers, TypeOK
    <3> QED BY <2>3, <3>1 DEF Second, TypeOK, voltVars, targetVars
  <2>4. CASE Waiting
    BY <2>4 DEF Waiting, sleepFor, TypeOK, voltVars, targetVars
  <2>5. CASE TooHotInCycle
    <3>1. systemOn' \in BOOLEAN BY <2>5, Zenon DEF TooHotInCycle, enterStandbyMode
    <3>2. dvfsState' \in DvfsStates BY <2>5 DEF TooHotInCycle, enterStandbyMode, DvfsStates
    <3>3. hitrate' \in HitRates BY <2>5 DEF TooHotInCycle, ReadHitrate, HitRates
    <3> QED BY <2>5, <3>1, <3>2, <3>3 DEF TooHotInCycle, sleepFor, TypeOK, voltVars, targetVars
  <2>6. CASE Tuning
    <3>1. tuneHashRate BY <2>6 DEF Tuning
    <3>2. hitrate' \in HitRates BY <2>6 DEF Tuning, ReadHitrate, HitRates
    <3> QED BY <2>6, <3>1, <3>2, TuneHashRateType DEF Tuning, sleepFor, TypeOK, targetVars
  <2>7. CASE Normal
    <3>1. hitrate' \in HitRates BY <2>7 DEF Normal, ReadHitrate, HitRates
    <3>2. CASE monitorPowerTarget
      BY <2>7, <3>1, <3>2, MonitorType DEF Normal, sleepFor, TypeOK, voltVars
    <3>3. CASE UNCHANGED targetVars
      BY <2>7, <3>1, <3>3 DEF Normal, sleepFor, TypeOK, voltVars, targetVars
    <3> QED BY <2>7, <3>2, <3>3 DEF Normal
  <2>8. CASE UNCHANGED vars
    BY <2>8 DEF vars, TypeOK, voltVars, targetVars
  <2> QED BY <2>1, <2>2, <2>3, <2>4, <2>5, <2>6, <2>7, <2>8 DEF Next, perSecondCheck
<1> QED BY <1>1, <1>2, PTL DEF Spec

-----------------------------------------------------------------------------
(* LowVoltageFirst is not inductive: that the PSU has dd.voltage unless    *)
(* the last write failed has to be known before TUNE_INIT looks at it.     *)

PsuFollows == written => vout = voltage

IInv == TypeOK /\ PsuFollows /\ LowVoltageFirst

\* The step of TUNE_INIT: the frequency comes next only from the lowest voltage.
LEMMA InitLowers ==
    ASSUME IInv, TuneInit
    PROVE  PsuFollows' /\ LowVoltageFirst'
<1> USE DEF IInv
<1>1. PsuFollows'
  <2>1. CASE voltage > VoutMin
    <3>1. SetVoltage(Lowered) BY <2>1 DEF TuneInit
    <3>2. Lowered \in Nat /\ Lowered <= VMax BY DEF TypeOK, Lowered
    <3> QED BY <3>1, <3>2, SetVoltageType DEF PsuFollows
  <2>2. CASE ~(voltage > VoutMin)
    BY <2>2 DEF TuneInit, PsuFollows, voltVars
  <2> QED BY <2>1, <2>2
<1>2. tuneState' = "SET_FREQ" => voltage' <= VoutMin
  BY DEF TuneInit
<1>3. voltage' \in VSysMin .. VMax /\ vout' \in Volts /\ written' \in BOOLEAN
  BY TuneInitType
<1>4. tuneState' = "SET_FREQ" => voltage' = VoutMin
  BY <1>2, <1>3
<1> QED BY <1>1, <1>4 DEF PsuFollows, LowVoltageFirst

\* A step up either reaches the PSU or is known to have failed.
LEMMA StepUpFollows ==
    ASSUME IInv, StepUp PROVE PsuFollows'
<1>1. PICK step \in RaiseBy : SetVoltage(Lesser(voltage + step, VMax))
  BY DEF StepUp
<1>2. Lesser(voltage + step, VMax) \in Nat /\ Lesser(voltage + step, VMax) <= VMax
  BY DEF IInv, TypeOK, Lesser
<1> QED BY <1>1, <1>2, SetVoltageType DEF IInv, PsuFollows

\* So does fine tuning, which steps up or is done.
LEMMA FineTuneFollows ==
    ASSUME IInv, FineTune PROVE PsuFollows'
<1>1. CASE tuneDone
  BY <1>1 DEF tuneDone, voltVars, IInv, PsuFollows
<1> QED BY <1>1, StepUpFollows DEF FineTune

\* Whenever setFreqAll is about to be called, dd.voltage is the lowest voltage
\* and so is the PSU's, unless the last write of it failed.
THEOREM FrequencyAtLowVoltage == Spec => []LowVoltageFirst
<1>1. Init => IInv
  BY InitType DEF Init, IInv, PsuFollows, LowVoltageFirst
<1>2. IInv /\ TypeOK' /\ [Next]_vars => IInv'
  <2> SUFFICES ASSUME IInv, TypeOK', [Next]_vars PROVE PsuFollows' /\ LowVoltageFirst'
    BY DEF IInv
  <2> USE DEF IInv, PsuFollows, LowVoltageFirst
  <2>1. CASE UNCHANGED voltVars /\ (UNCHANGED tuneState \/ tuneState' = "INIT")
    BY <2>1 DEF voltVars
  <2>2. CASE Tuning
    <3>1. tuneHashRate BY <2>2 DEF Tuning
    <3>2. CASE TuneInit
      BY <3>2, InitLowers
    <3>3. CASE TuneSetFreq
      BY <3>3 DEF TuneSetFreq, voltVars
    <3>4. CASE TuneSteppingUp
      <4>1. CASE FineTune
        BY <4>1, FineTuneFollows, FineTuneType
      <4>2. CASE StepUp /\ UNCHANGED <<dvfsState, tuneState>>
        BY <3>4, <4>2, StepUpFollows DEF TuneSteppingUp
      <4>3. CASE tuneDone /\ UNCHANGED tuneState
        BY <4>3, <2>1 DEF tuneDone
      <4> QED BY <3>4, <4>1, <4>2, <4>3 DEF TuneSteppingUp
    <3>5. CASE TuneFineTune
      BY <3>5, FineTuneFollows, FineTuneType DEF TuneFineTune
    <3> QED BY <3>1, <3>2, <3>3, <3>4, <3>5 DEF tuneHashRate
  <2> QED BY <2>1, <2>2 DEF Next, perSecondCheck, TooHot, SlowDown, Second, Waiting, TooHotInCycle,
                            Normal, vars
<1>3. IInv => LowVoltageFirst
  BY DEF IInv
<1> QED BY <1>1, <1>2, <1>3, TypeCorrect, PTL DEF Spec

-----------------------------------------------------------------------------
\* STANDBY is left only on a power reading that checkPower ignored, with the
\* old one above the limit; so with a PSU that never reports 20000 W and more
\* it is never left.  The system is off throughout: nothing switches it on.
StandbyIsOff == dvfsState = "STANDBY" => ~systemOn

THEOREM StandbyKept == Spec => StandbyHolds
<1>1. Init => StandbyIsOff
  BY DEF Init, StandbyIsOff
<1>2. TypeOK /\ StandbyIsOff /\ [Next]_vars => StandbyIsOff'
  <2> SUFFICES ASSUME TypeOK, StandbyIsOff, [Next]_vars PROVE StandbyIsOff'
    OBVIOUS
  <2>1. CASE Tuning
    <3>1. dvfsState = "TUNING" /\ tuneHashRate BY <2>1 DEF Tuning
    <3>2. dvfsState' # "STANDBY"
      BY <3>1 DEF tuneHashRate, TuneInit, TuneSetFreq, TuneSteppingUp, TuneFineTune, FineTune, tuneDone
    <3> QED BY <3>2 DEF StandbyIsOff
  <2> QED BY <2>1 DEF Next, perSecondCheck, TooHot, SlowDown, Second, Waiting, TooHotInCycle,
                      Normal, enterStandbyMode, StandbyIsOff, vars
<1>3. TypeOK /\ StandbyIsOff /\ [Next]_vars
        => [dvfsState = "STANDBY" /\ dvfsState' # "STANDBY"
              => Bogus /\ curPower = "high" /\ curPower' = "high"]_vars
  <2> SUFFICES ASSUME TypeOK, StandbyIsOff, Next, dvfsState = "STANDBY", dvfsState' # "STANDBY"
               PROVE  Bogus /\ curPower = "high" /\ curPower' = "high"
    OBVIOUS
  <2>1. SlowDown
    BY DEF Next, perSecondCheck, TooHot, Second, Waiting, TooHotInCycle, Tuning, Normal,
           enterStandbyMode
  <2>2. ~systemOn BY DEF StandbyIsOff
  <2> QED BY <2>1, <2>2 DEF SlowDown, PowerAfter, ReadPower
<1> QED BY <1>1, <1>2, <1>3, TypeCorrect, PTL DEF Spec, StandbyHolds

-----------------------------------------------------------------------------
(* BackOffLaw is not inductive either: why there is no seventh bounce is   *)
(* that a reduction and a raise take turns, and that a raise needs fewer   *)
(* than five.  Up to the sixth the division leaves no remainder.           *)

BackOffInv ==
    /\ BackOffLaw
    /\ nBouncingBack = 6 => targetReducing

\* The percentage times the bounces is kept by one more bounce.
LEMMA SoftenedLaw ==
    ASSUME TypeOK, nBouncingBack \in 1 .. 5,
           backOffPct * nBouncingBack \in {BigStep, SmallStep}
    PROVE  Softened * (nBouncingBack + 1) \in {BigStep, SmallStep}
<1>1. ASSUME NEW total \in {6000, 3600}, NEW n \in 1 .. 5
      PROVE  (total \div (n + 1)) * (n + 1) = total
  <2>1. n \in {1, 2, 3, 4, 5}
    OBVIOUS
  <2> QED BY <2>1
<1> QED BY <1>1 DEF Softened, BigStep, SmallStep

\* A reduction is a first bounce, or one more of at most six, or none.
LEMMA ReduceBackOff ==
    ASSUME TypeOK, BackOffInv, reduceTargetTHS PROVE BackOffInv'
<1> USE DEF BackOffInv, BackOffLaw
<1>1. targetReducing' /\ nBouncingBack \in 0 .. 6
  BY DEF reduceTargetTHS, TypeOK
<1>2. CASE nBouncingBack = 0
  BY <1>1, <1>2 DEF reduceTargetTHS, BigStep, SmallStep
<1>3. CASE nBouncingBack # 0 /\ ~targetReducing /\ backOffPct > MinPctStep
  <2>1. nBouncingBack \in 1 .. 5
    BY <1>1, <1>3
  <2>2. backOffPct' = Softened /\ nBouncingBack' = nBouncingBack + 1
    BY <1>3 DEF reduceTargetTHS, TypeOK, MinPctStep
  <2>3. backOffPct' * nBouncingBack' \in {BigStep, SmallStep}
    BY <2>1, <2>2, SoftenedLaw
  <2> QED BY <1>1, <2>1, <2>2, <2>3
<1>4. CASE nBouncingBack # 0 /\ (targetReducing \/ backOffPct <= MinPctStep)
  BY <1>1, <1>4 DEF reduceTargetTHS, TypeOK, MinPctStep
<1> QED BY <1>2, <1>3, <1>4 DEF reduceTargetTHS

\* A raise forgets the bounces, counts them anew, or makes one more of five.
LEMMA RaiseBackOff ==
    ASSUME TypeOK, BackOffInv, monitorPowerTarget PROVE BackOffInv'
<1> USE DEF BackOffInv, BackOffLaw
<1>1. nBouncingBack \in 1 .. 6
  BY DEF monitorPowerTarget, TypeOK
<1>2. CASE ResetTarget
  BY <1>2 DEF ResetTarget, TypeOK
<1>3. CASE SuggestedStep
  <2>1. backOffPct' \in {BigStep, SmallStep} /\ nBouncingBack' = 1
    BY <1>3 DEF SuggestedStep
  <2>2. backOffPct' * nBouncingBack' \in {BigStep, SmallStep}
    <3>1. \A pct \in {BigStep, SmallStep} : pct * 1 = pct
      BY DEF BigStep, SmallStep
    <3> QED BY <2>1, <3>1
  <2> QED BY <2>1, <2>2
<1>4. CASE OrdinaryStep /\ targetReducing
  <2>1. backOffPct' = Softened /\ nBouncingBack' = nBouncingBack + 1 /\ nBouncingBack < 5
    BY <1>4 DEF OrdinaryStep
  <2>2. backOffPct' * nBouncingBack' \in {BigStep, SmallStep}
    BY <1>1, <2>1, SoftenedLaw
  <2> QED BY <1>1, <2>1, <2>2
<1>5. CASE OrdinaryStep /\ ~targetReducing
  <2>1. UNCHANGED <<backOffPct, nBouncingBack>> /\ nBouncingBack < 5
    BY <1>5 DEF OrdinaryStep
  <2> QED BY <1>1, <2>1
<1> QED BY <1>2, <1>3, <1>4, <1>5 DEF monitorPowerTarget

\* The percentage is the first one over the number of bounces, exactly; a
\* reduced target has bounced; and it bounces six times at most.
THEOREM BouncesEnd == Spec => []BackOffLaw
<1>1. Init => BackOffInv
  BY DEF Init, BackOffInv, BackOffLaw
<1>2. TypeOK /\ BackOffInv /\ [Next]_vars => BackOffInv'
  <2> SUFFICES ASSUME TypeOK, BackOffInv, [Next]_vars PROVE BackOffInv'
    OBVIOUS
  <2>1. CASE UNCHANGED targetVars
    BY <2>1 DEF targetVars, BackOffInv, BackOffLaw
  <2>2. CASE SlowDown
    BY <2>2, ReduceBackOff DEF SlowDown
  <2>3. CASE Normal /\ monitorPowerTarget
    BY <2>3, RaiseBackOff
  <2> QED BY <2>1, <2>2, <2>3 DEF Next, perSecondCheck, TooHot, Second, Waiting, TooHotInCycle,
                                  Tuning, Normal, vars
<1>3. BackOffInv => BackOffLaw
  BY DEF BackOffInv
<1> QED BY <1>1, <1>2, <1>3, TypeCorrect, PTL DEF Spec
=============================================================================
