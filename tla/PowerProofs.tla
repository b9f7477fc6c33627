------------------------------ MODULE PowerProofs ------------------------------
(***************************************************************************)
(* That no board is in reset while it has hash power (ResetInterlock), for *)
(* any number of boards and PSUs, crashes and failing accesses; that the   *)
(* cached power state is right (CacheInSync); what a board finds when it   *)
(* is given power (PoweredUpRight); that the monitor of the PSU is not     *)
(* mistaken (the safety part of MonitorRight); and types.                  *)
(*                                                                         *)
(* A board is reset by the goroutine that has just taken its power, and no *)
(* other gives it power meanwhile: before main is at "run" there is no     *)
(* other that could, and from then on main does nothing.  During start-up  *)
(* the boards get power only after each of them was taken out of reset.    *)
(***************************************************************************)
EXTENDS Power, TLAPS

BoardSteps == {"HbPowerOff", "HbReset", "deadOff", "deadReset"}
ResetSteps == {"HbReset", "deadReset"}
\* the steps of main that say something of the boards
StartSteps == {"HbUnreset", "setupVout", "HbPowerOn", "run"}

Steps == {"SetPsuType", "probe", "getFixedData", "preInitVout", "ClearFaults", "PsuOn", "watchdog",
          "onWrite", "PsuOff", "offWrite", "sleepRead", "sleepWrite", "poll", "reread", "Mon",
          "tuneMin", "tuneHigh", "idle", "none"} \cup BoardSteps \cup StartSteps

Control ==
    /\ at \in [G -> Steps]
    /\ ii \in [G -> Nat]

\* only main and dvfs act on boards, and dvfs only after main
WhoActs ==
    /\ at["mon"] \notin BoardSteps /\ at["lp"] \notin BoardSteps
    /\ at["main"] # "run" => at["dvfs"] = "none"
    /\ \A g \in G : at[g] \in BoardSteps => ii[g] \in Boards

PowerTaken == HbPowerSupport => \A g \in G : at[g] \in ResetSteps => ii[g] \notin vdd

Unresetting ==
    /\ reset \subseteq Boards
    /\ at["main"] = "HbUnreset" => /\ ii["main"] \in Boards
                                   /\ \A b \in reset : b >= ii["main"]
    /\ at["main"] \in {"setupVout", "HbPowerOn"} => reset = {}

IInv == Control /\ WhoActs /\ PowerTaken /\ Unresetting /\ ResetInterlock

-----------------------------------------------------------------------------

\* the invariant holds when the program starts, whatever the pins are
LEMMA InitIInv == Init => IInv
<1> SUFFICES ASSUME Init
             PROVE  IInv
  OBVIOUS
<1>1. at = NewAt /\ ii = NewIi /\ vdd = {} /\ reset \subseteq Boards
  BY DEF Init, ProcessInit
<1>2. Control
  BY <1>1 DEF Control, NewAt, NewIi, Steps, G
<1>3. WhoActs
  BY <1>1 DEF WhoActs, NewAt, BoardSteps, G
<1>4. PowerTaken
  BY <1>1 DEF PowerTaken
<1>5. Unresetting
  BY <1>1 DEF Unresetting, NewAt, G
<1>6. ResetInterlock
  BY <1>1 DEF ResetInterlock
<1> QED
  BY <1>2, <1>3, <1>4, <1>5, <1>6 DEF IInv

\* a step of g that neither is about a board nor leads to one
LEMMA PlainStep ==
    ASSUME IInv, NEW g \in G, NEW step \in Steps, NEW i \in Nat,
           step \notin BoardSteps \cup StartSteps \cup {"none"} \/ g \in {"mon", "lp"},
           step \notin BoardSteps,
           at[g] # "none", at["main"] # "run" \/ g # "main",
           at' = [at EXCEPT ![g] = step],
           ii' = ii \/ ii' = [ii EXCEPT ![g] = i],
           UNCHANGED pins
    PROVE  IInv'
<1>1. Control'
  BY DEF IInv, Control
<1>2. WhoActs'
  BY DEF IInv, Control, WhoActs, BoardSteps, StartSteps, G
<1>3. PowerTaken'
  BY DEF IInv, Control, PowerTaken, BoardSteps, ResetSteps, G, pins
<1>4. Unresetting'
  BY DEF IInv, Control, Unresetting, StartSteps, G, pins
<1>5. ResetInterlock'
  BY DEF IInv, ResetInterlock, pins
<1> QED
  BY <1>1, <1>2, <1>3, <1>4, <1>5 DEF IInv

\* the process ends: its goroutines are forgotten, the pins stay
LEMMA EndsStep ==
    ASSUME IInv, NEW why, Ends(why)
    PROVE  IInv'
<1>1. at' = NewAt /\ ii' = NewIi /\ UNCHANGED <<vdd, reset>>
  BY DEF Ends, pins
<1>2. Control'
  BY <1>1 DEF Control, NewAt, NewIi, Steps, G
<1>3. WhoActs'
  BY <1>1 DEF WhoActs, NewAt, BoardSteps, G
<1>4. PowerTaken'
  BY <1>1 DEF PowerTaken, NewAt, ResetSteps, G
<1>5. Unresetting'
  BY <1>1 DEF IInv, Unresetting, NewAt, G
<1>6. ResetInterlock'
  BY <1>1 DEF IInv, ResetInterlock
<1> QED
  BY <1>2, <1>3, <1>4, <1>5, <1>6 DEF IInv

\* a step that changes neither what the goroutines do nor the pins
LEMMA SameControl ==
    ASSUME IInv, UNCHANGED <<control, pins>>
    PROVE  IInv'
BY DEF IInv, Control, WhoActs, PowerTaken, Unresetting, ResetInterlock, control, pins

\* PsuOn returns: the boards are taken out of reset, from the first
LEMMA AfterPsuOnStep ==
    ASSUME IInv, at["main"] # "run", AfterPsuOn, UNCHANGED pins
    PROVE  IInv'
<1>1. Control'
  BY DEF IInv, Control, AfterPsuOn, Steps, StartSteps, G
<1>2. WhoActs'
  BY DEF IInv, Control, WhoActs, AfterPsuOn, BoardSteps, G
<1>3. PowerTaken'
  BY DEF IInv, Control, PowerTaken, AfterPsuOn, ResetSteps, G, pins
<1>4. Unresetting'
  BY BoardAssumption DEF IInv, Control, Unresetting, AfterPsuOn, Boards, G, pins
<1>5. ResetInterlock'
  BY DEF IInv, ResetInterlock, pins
<1> QED
  BY <1>1, <1>2, <1>3, <1>4, <1>5 DEF IInv

\* SetNormalPower returns: main goes on, and the low-power monitor is started
LEMMA GoMonStep ==
    ASSUME IInv, at["main"] # "run", GoMon, UNCHANGED pins
    PROVE  IInv'
<1>1. Control'
  BY DEF IInv, Control, GoMon, Steps, G
<1>2. WhoActs'
  BY DEF IInv, Control, WhoActs, GoMon, BoardSteps, G
<1>3. PowerTaken'
  BY DEF IInv, Control, PowerTaken, GoMon, ResetSteps, G, pins
<1>4. Unresetting'
  BY DEF IInv, Control, Unresetting, GoMon, G, pins
<1>5. ResetInterlock'
  BY DEF IInv, ResetInterlock, pins
<1> QED
  BY <1>1, <1>2, <1>3, <1>4, <1>5 DEF IInv

-----------------------------------------------------------------------------
(* The steps that are about a board.                                       *)

\* the hash power of board ii[g] is taken before its reset
LEMMA PowerOffStep ==
    ASSUME IInv, NEW g \in G, HbPowerOff(g)
    PROVE  IInv'
<1>1. PICK step \in ResetSteps : at[g] \in BoardSteps /\ Goto(g, step)
  BY DEF HbPowerOff, At, BoardSteps, ResetSteps
<1>2. reset' = reset /\ vdd' \subseteq vdd /\ (HbPowerSupport => vdd' = vdd \ {ii[g]})
  BY DEF HbPowerOff
<1>3. g \in {"main", "dvfs"} /\ at["main"] # "run" => g = "main"
  BY <1>1 DEF IInv, WhoActs, BoardSteps, G
<1>4. Control'
  BY <1>1 DEF IInv, Control, Goto, Steps, BoardSteps, ResetSteps, G
<1>5. WhoActs'
  BY <1>1, <1>3 DEF IInv, Control, WhoActs, Goto, BoardSteps, ResetSteps, G
<1>6. PowerTaken'
  BY <1>1, <1>2 DEF IInv, Control, PowerTaken, Goto, ResetSteps, G
<1>7. Unresetting'
  BY <1>1, <1>2 DEF IInv, Control, Unresetting, Goto, ResetSteps, BoardSteps, G
<1>8. ResetInterlock'
  BY <1>2 DEF IInv, ResetInterlock
<1> QED
  BY <1>4, <1>5, <1>6, <1>7, <1>8 DEF IInv

\* board ii[g] is reset, which has no power, and the loop goes on
LEMMA ResetStep ==
    ASSUME IInv, NEW g \in G, HbReset(g)
    PROVE  IInv'
<1>1. PICK step \in {"HbPowerOff", "PsuOff", "idle"}, i \in Nat :
         /\ at' = [at EXCEPT ![g] = step]
         /\ ii' = ii \/ ii' = [ii EXCEPT ![g] = i]
         /\ step = "HbPowerOff" => i \in Boards /\ ii' = [ii EXCEPT ![g] = i]
  BY BoardAssumption DEF HbReset, ForEach, Goto, GotoLoop, IInv, Control, WhoActs,
                         BoardSteps, Boards, At
<1>2. at[g] \in ResetSteps /\ at[g] \in BoardSteps
  BY DEF HbReset, At, BoardSteps, ResetSteps
<1>3. vdd' = vdd /\ reset' \subseteq reset \cup {ii[g]}
  BY DEF HbReset
<1>4. g \in {"main", "dvfs"} /\ at["main"] # "run" => g = "main"
  BY <1>2 DEF IInv, WhoActs, BoardSteps, G
<1>5. Control'
  BY <1>1 DEF IInv, Control, Steps, BoardSteps, G
<1>6. WhoActs'
  BY <1>1, <1>2, <1>4 DEF IInv, Control, WhoActs, BoardSteps, ResetSteps, G
<1>7. PowerTaken'
  BY <1>1, <1>3 DEF IInv, Control, PowerTaken, ResetSteps, G
<1>8. Unresetting'
  <2>1. reset' \subseteq Boards
    BY <1>2, <1>3 DEF IInv, Unresetting, WhoActs
  <2>2. at'["main"] \notin {"HbUnreset", "setupVout", "HbPowerOn"}
    BY <1>1, <1>2, <1>4 DEF IInv, Control, WhoActs, ResetSteps, G
  <2> QED
    BY <2>1, <2>2 DEF Unresetting
<1>9. ResetInterlock'
  BY <1>2, <1>3 DEF IInv, ResetInterlock, PowerTaken
<1> QED
  BY <1>5, <1>6, <1>7, <1>8, <1>9 DEF IInv

\* one board more is out of reset, and after the last all are
LEMMA UnresetStep ==
    ASSUME IInv, SystemUnreset
    PROVE  IInv'
<1>1. at["main"] = "HbUnreset" /\ vdd' = vdd /\ reset' = reset \ {ii["main"]}
  BY DEF SystemUnreset, At
<1>2. ii["main"] \in Boards /\ \A b \in reset : b \in Boards /\ b >= ii["main"]
  BY <1>1 DEF IInv, Unresetting
<1>3. PICK step \in {"HbUnreset", "setupVout"}, i \in Nat :
         /\ at' = [at EXCEPT !["main"] = step]
         /\ ii' = [ii EXCEPT !["main"] = i]
         /\ step = "HbUnreset" => ii["main"] < NBoards /\ i = ii["main"] + 1
         /\ step = "setupVout" => ii["main"] >= NBoards
  BY <1>2, BoardAssumption DEF SystemUnreset, ForEach, GotoLoop, Boards
<1>4. Control'
  BY <1>3 DEF IInv, Control, Steps, StartSteps, G
<1>5. WhoActs'
  BY <1>1, <1>3 DEF IInv, Control, WhoActs, BoardSteps, G
<1>6. PowerTaken'
  BY <1>1, <1>3 DEF IInv, Control, PowerTaken, ResetSteps, G
<1>7. Unresetting'
  <2>1. at'["main"] = "HbUnreset" => ii'["main"] \in Boards /\ \A b \in reset' : b >= ii'["main"]
    BY <1>1, <1>2, <1>3, BoardAssumption DEF IInv, Control, Boards, G
  <2>2. at'["main"] = "setupVout" => reset' = {}
    BY <1>1, <1>2, <1>3, BoardAssumption DEF IInv, Control, Boards, G
  <2>3. at'["main"] # "HbPowerOn"
    BY <1>3 DEF IInv, Control, G
  <2> QED
    BY <1>1, <2>1, <2>2, <2>3 DEF IInv, Unresetting
<1>8. ResetInterlock'
  BY <1>1 DEF IInv, ResetInterlock
<1> QED
  BY <1>4, <1>5, <1>6, <1>7, <1>8 DEF IInv

\* a board gets power when none is in reset; after the last dvfs may act
LEMMA PowerOnStep ==
    ASSUME IInv, HbPowerOn
    PROVE  IInv'
<1>1. at["main"] = "HbPowerOn" /\ reset' = reset /\ reset = {}
  BY DEF HbPowerOn, At, IInv, Unresetting
<1>2. at["dvfs"] = "none"
  BY <1>1 DEF IInv, WhoActs
<1>3. \/ \E i \in Nat : /\ at' = [at EXCEPT !["main"] = "HbPowerOn"]
                        /\ ii' = [ii EXCEPT !["main"] = i]
      \/ at' = [at EXCEPT !["main"] = "run", !["dvfs"] = "idle"] /\ ii' = ii
  BY BoardAssumption DEF HbPowerOn, GotoLoop, IInv, Control, G
<1>4. Control'
  BY <1>3 DEF IInv, Control, Steps, StartSteps, G
<1>5. WhoActs'
  BY <1>2, <1>3 DEF IInv, Control, WhoActs, BoardSteps, G
<1>6. PowerTaken'
  BY <1>1, <1>2, <1>3 DEF IInv, Control, WhoActs, PowerTaken, BoardSteps, ResetSteps, G
<1>7. Unresetting'
  BY <1>1, <1>3 DEF IInv, Control, Unresetting, G
<1>8. ResetInterlock'
  BY <1>1 DEF ResetInterlock
<1> QED
  BY <1>4, <1>5, <1>6, <1>7, <1>8 DEF IInv

\* the lowest voltage is set, and the boards get power, from the first
LEMMA InitialSetupStep ==
    ASSUME IInv, InitialSetup
    PROVE  IInv'
<1>1. /\ at["main"] = "setupVout" /\ UNCHANGED <<vdd, reset>>
      /\ at' = [at EXCEPT !["main"] = "HbPowerOn"] /\ ii' = [ii EXCEPT !["main"] = 1]
  BY DEF InitialSetup, At, GotoLoop, PsuSetVoltage, pins
<1>2. Control'
  BY <1>1 DEF IInv, Control, Steps, StartSteps, G
<1>3. WhoActs'
  BY <1>1 DEF IInv, Control, WhoActs, BoardSteps, G
<1>4. PowerTaken'
  BY <1>1 DEF IInv, Control, PowerTaken, ResetSteps, G
<1>5. Unresetting'
  BY <1>1 DEF IInv, Control, Unresetting, G
<1>6. ResetInterlock'
  BY <1>1 DEF IInv, ResetInterlock
<1> QED
  BY <1>2, <1>3, <1>4, <1>5, <1>6 DEF IInv

\* a loop over the boards begins, or a dead board is switched off
LEMMA BoardsStep ==
    ASSUME IInv, NEW g \in {"main", "dvfs"}, NEW step \in {"HbPowerOff", "deadOff"},
           NEW b \in Boards,
           at[g] # "none", at["main"] # "run" \/ g # "main",
           GotoLoop(g, step, b), UNCHANGED pins
    PROVE  IInv'
<1>1. Control'
  BY DEF IInv, Control, GotoLoop, Steps, BoardSteps, Boards, G
<1>2. WhoActs'
  BY DEF IInv, Control, WhoActs, GotoLoop, BoardSteps, G
<1>3. PowerTaken'
  BY DEF IInv, Control, PowerTaken, GotoLoop, ResetSteps, G, pins
<1>4. Unresetting'
  BY DEF IInv, Control, Unresetting, GotoLoop, G, pins
<1>5. ResetInterlock'
  BY DEF IInv, ResetInterlock, pins
<1> QED
  BY <1>1, <1>2, <1>3, <1>4, <1>5 DEF IInv

-----------------------------------------------------------------------------
(* Every step.                                                             *)

\* the steps of main alone keep the invariant
LEMMA MainStep ==
    ASSUME IInv,
           \/ SetPsuType \/ Probe \/ getFixedData \/ PreInit \/ ClearFaults \/ PsuOn \/ WatchDog
           \/ PsuOnWrite \/ SetNormalPower \/ setSleepReg
    PROVE  IInv'
<1> DEFINE Plain(step) == \/ Goto("main", step)
                          \/ \E i \in Nat : GotoLoop("main", step, i)
<1>1. "main" \in G
  BY DEF G
<1>2. ASSUME NEW step \in Steps \ (BoardSteps \cup StartSteps \cup {"none"}), Plain(step),
             at["main"] \notin {"none", "run"}, UNCHANGED pins
      PROVE  IInv'
  <2>1. CASE Goto("main", step)
    BY <1>1, <1>2, <2>1, PlainStep, 0 \in Nat DEF Goto
  <2>2. ASSUME NEW i \in Nat, GotoLoop("main", step, i)
        PROVE  IInv'
    BY <1>1, <1>2, <2>2, PlainStep DEF GotoLoop
  <2> QED
    BY <1>2, <2>1, <2>2
<1> HIDE DEF Plain
<1>3. CASE SetPsuType
  <2>1. Plain("probe") /\ at["main"] = "SetPsuType" /\ UNCHANGED pins
    BY <1>3 DEF SetPsuType, At, Plain
  <2> QED
    BY <1>2, <2>1 DEF Steps, BoardSteps, StartSteps
<1>4. CASE Probe
  <2>1. at["main"] = "probe" /\ UNCHANGED pins
    BY <1>4 DEF Probe, At
  <2>2. \/ GotoLoop("main", "HbPowerOff", 1)
        \/ Plain("getFixedData") \/ Plain("SetPsuType") \/ Plain("ClearFaults")
    BY <1>4 DEF Probe, Plain
  <2>3. 1 \in Boards
    BY BoardAssumption DEF Boards
  <2>4. CASE GotoLoop("main", "HbPowerOff", 1)
    BY <2>1, <2>3, <2>4, BoardsStep
  <2> QED
    BY <1>2, <2>1, <2>2, <2>4 DEF Steps, BoardSteps, StartSteps
<1>5. CASE getFixedData
  <2>1. Plain("preInitVout") /\ at["main"] = "getFixedData" /\ UNCHANGED pins
    BY <1>5 DEF getFixedData, At, Plain
  <2> QED
    BY <1>2, <2>1 DEF Steps, BoardSteps, StartSteps
<1>6. CASE PreInit
  <2>1. Plain("ClearFaults") /\ at["main"] = "preInitVout" /\ UNCHANGED pins
    BY <1>6 DEF PreInit, PsuSetVoltage, At, Plain
  <2> QED
    BY <1>2, <2>1 DEF Steps, BoardSteps, StartSteps
<1>7. CASE ClearFaults
  <2>1. Plain("PsuOn") /\ at["main"] = "ClearFaults" /\ UNCHANGED pins
    BY <1>7 DEF ClearFaults, At, Plain
  <2> QED
    BY <1>2, <2>1 DEF Steps, BoardSteps, StartSteps
<1>8. CASE PsuOn
  <2>1. (Plain("watchdog") \/ Plain("onWrite")) /\ at["main"] = "PsuOn" /\ UNCHANGED pins
    BY <1>8 DEF PsuOn, At, Plain
  <2> QED
    BY <1>2, <2>1 DEF Steps, BoardSteps, StartSteps
<1>9. CASE WatchDog
  <2>1. (Plain("onWrite") \/ AfterPsuOn) /\ at["main"] = "watchdog" /\ UNCHANGED pins
    BY <1>9 DEF WatchDog, At, Plain
  <2> QED
    BY <1>2, <2>1, AfterPsuOnStep DEF Steps, BoardSteps, StartSteps
<1>10. CASE PsuOnWrite
  <2>1. AfterPsuOn /\ at["main"] = "onWrite" /\ UNCHANGED pins
    BY <1>10 DEF PsuOnWrite, At
  <2> QED
    BY <2>1, AfterPsuOnStep
<1>11. CASE SetNormalPower
  <2>1. (Plain("sleepWrite") \/ GoMon) /\ at["main"] = "sleepRead" /\ UNCHANGED pins
    BY <1>11 DEF SetNormalPower, At, Plain
  <2> QED
    BY <1>2, <2>1, GoMonStep DEF Steps, BoardSteps, StartSteps
<1>12. CASE setSleepReg
  <2>1. GoMon /\ at["main"] = "sleepWrite" /\ UNCHANGED pins
    BY <1>12 DEF setSleepReg, At
  <2> QED
    BY <2>1, GoMonStep
<1> QED
  BY <1>3, <1>4, <1>5, <1>6, <1>7, <1>8, <1>9, <1>10, <1>11, <1>12

\* switching the PSU off, by main or by dvfs, keeps the invariant
LEMMA PsuOffStep ==
    ASSUME IInv, NEW g \in G, PsuOff(g) \/ PsuOffWrite(g)
    PROVE  IInv'
<1>1. PICK step \in {"offWrite", "sleepRead", "idle"} : Goto(g, step)
  BY DEF PsuOff, PsuOffWrite
<1>2. at[g] \in {"PsuOff", "offWrite"} /\ UNCHANGED pins
  BY DEF PsuOff, PsuOffWrite, At
<1>3. step \in Steps /\ step \notin BoardSteps \cup StartSteps \cup {"none"}
  BY DEF Steps, BoardSteps, StartSteps
<1> QED
  BY <1>1, <1>2, <1>3, PlainStep, 0 \in Nat DEF Goto

\* what dvfs decides to do, and its writes of the voltage, keep the invariant
LEMMA DvfsStep ==
    ASSUME IInv, enterStandbyMode \/ DeadBoard \/ Retune \/ SetVoltage
    PROVE  IInv'
<1>1. CASE enterStandbyMode \/ DeadBoard
  <2>1. PICK step \in {"HbPowerOff", "deadOff"}, b \in Boards : DvfsIdle(step, b)
    BY <1>1, BoardAssumption DEF enterStandbyMode, DeadBoard, Boards
  <2>2. at["dvfs"] = "idle" /\ GotoLoop("dvfs", step, b) /\ UNCHANGED pins
    BY <2>1 DEF DvfsIdle, At
  <2> QED
    BY <2>2, BoardsStep
<1>2. CASE Retune \/ SetVoltage
  <2>1. PICK step \in {"tuneMin", "tuneHigh", "idle"}, i \in Nat :
           /\ at' = [at EXCEPT !["dvfs"] = step]
           /\ ii' = ii \/ ii' = [ii EXCEPT !["dvfs"] = i]
    BY <1>2 DEF Retune, SetVoltage, DvfsIdle, Goto, GotoLoop
  <2>2. at["dvfs"] \in {"idle", "tuneMin", "tuneHigh"} /\ UNCHANGED pins
    BY <1>2 DEF Retune, SetVoltage, DvfsIdle, PsuSetVoltage, At
  <2>3. step \in Steps /\ step \notin BoardSteps \cup StartSteps \cup {"none"}
    BY DEF Steps, BoardSteps, StartSteps
  <2>4. "dvfs" \in G /\ "dvfs" # "main"
    BY DEF G
  <2> QED
    BY <2>1, <2>2, <2>3, <2>4, PlainStep
<1> QED
  BY <1>1, <1>2

\* the monitor of the PSU and that of low-power mode keep the invariant
LEMMA MonitorStep ==
    ASSUME IInv, pollPsuData \/ Reread \/ Mon
    PROVE  IInv'
<1>1. CASE \E why : Ends(why)
  BY <1>1, EndsStep
<1>2. CASE ~\E why : Ends(why)
  <2>1. PICK g \in {"mon", "lp"}, step \in {"poll", "reread", "Mon", "none"} :
           Goto(g, step) /\ at[g] # "none"
    BY <1>2 DEF pollPsuData, Reread, Mon, At
  <2>2. UNCHANGED pins
    BY <1>2 DEF pollPsuData, Reread, Mon
  <2>3. step \in Steps /\ step \notin BoardSteps /\ g \in G /\ g # "main"
    BY DEF Steps, BoardSteps, G
  <2> QED
    BY <2>1, <2>2, <2>3, PlainStep, 0 \in Nat DEF Goto
<1> QED
  BY <1>1, <1>2

\* the invariant is inductive
LEMMA NextIInv == IInv /\ [Next]_vars => IInv'
<1> SUFFICES ASSUME IInv, [Next]_vars
             PROVE  IInv'
  OBVIOUS
<1>1. ASSUME NEW g \in G, psuGet(g)
      PROVE  IInv'
  <2>1. UNCHANGED <<control, pins>>
    BY <1>1 DEF psuGet
  <2> QED
    BY <2>1, SameControl
<1>2. ASSUME NEW g \in G, UnlockFatal(g)
      PROVE  IInv'
  BY <1>2, EndsStep DEF UnlockFatal
<1>3. ASSUME NEW g \in G, Step(g)
      PROVE  IInv'
  <2>1. CASE PsuOff(g) \/ PsuOffWrite(g)
    BY <2>1, PsuOffStep
  <2>2. CASE HbPowerOff(g)
    BY <2>2, PowerOffStep
  <2>3. CASE HbReset(g)
    BY <2>3, ResetStep
  <2>4. CASE SystemUnreset \/ InitialSetup \/ HbPowerOn
    BY <2>4, UnresetStep, InitialSetupStep, PowerOnStep
  <2> QED
    BY <1>3, <2>1, <2>2, <2>3, <2>4, MainStep, DvfsStep, MonitorStep DEF Step
<1>4. CASE enterStandbyMode \/ DeadBoard \/ Retune
  BY <1>4, DvfsStep
<1>5. CASE Killed
  BY <1>5, EndsStep DEF Killed
<1>6. CASE Restart \/ Trip \/ UNCHANGED vars
  <2>1. UNCHANGED <<control, pins>>
    BY <1>6 DEF Restart, Trip, vars, process
  <2> QED
    BY <2>1, SameControl
<1> QED
  BY <1>1, <1>2, <1>3, <1>4, <1>5, <1>6 DEF Next

\* On a chassis that switches hash power by pins no board, of however many, is
\* ever in reset with its power pin set: not in start-up, in standby or when a
\* board is given up, whatever accesses fail and whenever the process ends.
THEOREM ResetNeverUnderPower == Spec => []ResetInterlock
<1>1. IInv => ResetInterlock
  BY DEF IInv
<1> QED
  BY <1>1, InitIInv, NextIInv, PTL DEF Spec

-----------------------------------------------------------------------------
(* The cached state of the PSU.                                            *)

\* what CacheInSync says, whoever holds poweredOnMu: on and poweredOn change
\* in the same step
CacheRight == "on" \notin unsure => on = poweredOn \/ (tripped /\ poweredOn)
CacheInv   == on \in BOOLEAN /\ poweredOn \in BOOLEAN /\ CacheRight

\* a step after which on, poweredOn and what is known of them are the same
\* keeps CacheInv, and so does the end of the process
LEMMA CacheSame ==
    ASSUME CacheInv, on' = on,
           \/ /\ poweredOn' = poweredOn /\ tripped' = tripped
              /\ "on" \in unsure' <=> "on" \in unsure
           \/ \E why : Ends(why)
    PROVE  CacheInv'
BY DEF CacheInv, CacheRight, Ends, Registers

\* every step keeps CacheInv
LEMMA NextCache == CacheInv /\ [Next]_vars => CacheInv'
<1> SUFFICES ASSUME CacheInv, [Next]_vars
             PROVE  CacheInv'
  OBVIOUS
<1>1. ASSUME NEW g \in G, psuGet(g) \/ UnlockFatal(g)
      PROVE  CacheInv'
  BY <1>1, CacheSame DEF psuGet, UnlockFatal, Ends, psu, cache
<1>2. ASSUME NEW g \in G, PsuOff(g) \/ HbPowerOff(g) \/ HbReset(g)
      PROVE  CacheInv'
  BY <1>2, CacheSame DEF PsuOff, HbPowerOff, HbReset, psu, cache
<1>3. ASSUME NEW g \in G, PsuOffWrite(g)
      PROVE  CacheInv'
  <2>1. PICK ok \in BOOLEAN : /\ on' \in Written(g, ok, on, FALSE)
                              /\ poweredOn' = (poweredOn /\ ~ok)
                              /\ SureOn(ok) /\ tripped' = tripped
    BY <1>3 DEF PsuOffWrite
  <2>2. CASE ok
    BY <2>1, <2>2 DEF Written, CacheInv, CacheRight
  <2>3. CASE ~ok
    BY <2>1, <2>3 DEF Written, SureOn, CacheInv, CacheRight
  <2> QED
    BY <2>2, <2>3
<1>4. CASE PsuOnWrite
  <2>1. PICK ok \in BOOLEAN : /\ on' \in Written("main", ok, on, TRUE)
                              /\ poweredOn' = (poweredOn \/ ok)
                              /\ tripped' = (tripped /\ ~ok) /\ SureOn(ok)
    BY <1>4 DEF PsuOnWrite
  <2>2. CASE ok
    BY <2>1, <2>2 DEF Written, CacheInv, CacheRight
  <2>3. CASE ~ok
    BY <2>1, <2>3 DEF Written, SureOn, CacheInv, CacheRight
  <2> QED
    BY <2>2, <2>3
<1>5. CASE \/ SetPsuType \/ Probe \/ getFixedData \/ ClearFaults \/ PsuOn \/ WatchDog
           \/ SystemUnreset \/ HbPowerOn
  BY <1>5, CacheSame
     DEF SetPsuType, Probe, getFixedData, ClearFaults, PsuOn, WatchDog, SystemUnreset, HbPowerOn,
         psu, cache
<1>6. CASE SetNormalPower \/ setSleepReg \/ Mon
  BY <1>6, CacheSame DEF SetNormalPower, setSleepReg, Mon, Sure, psu, cache
<1>7. CASE PreInit \/ InitialSetup \/ SetVoltage
  BY <1>7, CacheSame DEF PreInit, InitialSetup, SetVoltage, PsuSetVoltage, Sure, cache
<1>8. CASE pollPsuData \/ Reread
  BY <1>8, CacheSame DEF pollPsuData, Reread, Ends, psu, cache
<1>9. CASE enterStandbyMode \/ DeadBoard \/ Retune
  BY <1>9, CacheSame DEF enterStandbyMode, DeadBoard, Retune, DvfsIdle, psu, cache
<1>10. CASE Killed \/ Restart \/ UNCHANGED vars
  BY <1>10, CacheSame DEF Killed, Ends, Restart, psu, process, cache, vars
<1>11. CASE Trip
  BY <1>11 DEF Trip, process, cache, CacheInv, CacheRight
<1> QED
  BY <1>1, <1>2, <1>3, <1>4, <1>5, <1>6, <1>7, <1>8, <1>9, <1>10, <1>11 DEF Next, Step

\* Whenever no switching is under way poweredOn is the state of the PSU, unless
\* the PSU tripped, did what a write that failed said, or was never switched
\* by this process; whatever fails and whenever the process ends.
THEOREM CacheIsRight == Spec => []CacheInSync
<1>1. Init => CacheInv
  BY DEF Init, ProcessInit, CacheInv, CacheRight, Registers
<1>2. CacheInv => CacheInSync
  BY DEF CacheInv, CacheRight, CacheInSync
<1> QED
  BY <1>1, <1>2, NextCache, PTL DEF Spec

-----------------------------------------------------------------------------
(* What a board finds when it gets power.                                  *)

\* the PSU that was found is the one there is, and a vendor's cannot sleep
RightPsu == /\ psuAddr \in {kind, "none"}
            /\ kind = "vendor" => ~asleep

\* SetNormalPower looked and found no sleep, or is about to end it
Awake == asleep \in BOOLEAN /\ ("sleep" \notin unsure => ~asleep \/ at["main"] = "sleepWrite")

\* InitialSetup lowered the voltage, and DVFS cannot have raised it yet
Lowered == at["main"] = "HbPowerOn" => vout = "min" \/ "vout" \in unsure

PowerInv == IInv /\ RightPsu /\ Awake /\ Lowered

\* the parts of PowerInv but IInv after a step of another goroutine than main,
\* or of main to another step than HbPowerOn and from another than sleepWrite
LEMMA PowerKept ==
    ASSUME PowerInv, UNCHANGED <<kind, asleep, vout, unsure>>, psuAddr' \in {psuAddr, kind, "none"},
           \/ at'["main"] = at["main"]
           \/ at'["main"] # "HbPowerOn" /\ at["main"] # "sleepWrite"
           \/ at["main"] = "HbPowerOn"
    PROVE  RightPsu' /\ Awake' /\ Lowered'
BY DEF PowerInv, RightPsu, Awake, Lowered

\* nothing is known to a new process
LEMMA PowerForgotten ==
    ASSUME PowerInv, NEW why, Ends(why)
    PROVE  RightPsu' /\ Awake' /\ Lowered'
BY DEF PowerInv, RightPsu, Awake, Lowered, Ends, NewAt, Registers, psu, G

\* every step keeps PowerInv
LEMMA NextPower == PowerInv /\ [Next]_vars => PowerInv'
<1> SUFFICES ASSUME PowerInv, [Next]_vars
             PROVE  RightPsu' /\ Awake' /\ Lowered'
  BY NextIInv DEF PowerInv
<1>c. Control /\ WhoActs
  BY DEF PowerInv, IInv
<1>1. ASSUME NEW g \in G, psuGet(g)
      PROVE  RightPsu' /\ Awake' /\ Lowered'
  BY <1>1, PowerKept DEF psuGet, psu, found, control
<1>2. ASSUME \E why : Ends(why)
      PROVE  RightPsu' /\ Awake' /\ Lowered'
  BY <1>2, PowerForgotten
<1>3. ASSUME NEW g \in G, PsuOff(g) \/ HbPowerOff(g) \/ HbReset(g)
      PROVE  RightPsu' /\ Awake' /\ Lowered'
  <2>1. at' = at \/ \E step \in Steps \ {"HbPowerOn"} : at' = [at EXCEPT ![g] = step]
    BY <1>3 DEF PsuOff, HbPowerOff, HbReset, ForEach, Goto, GotoLoop, Steps, BoardSteps, StartSteps
  <2>2. at'["main"] = at["main"] \/ (g = "main" /\ at'["main"] # "HbPowerOn")
    BY <1>c, <2>1 DEF Control, G
  <2>3. at[g] # "sleepWrite" /\ UNCHANGED <<kind, asleep, vout, unsure, psuAddr>>
    BY <1>3 DEF PsuOff, HbPowerOff, HbReset, At, psu, found
  <2> QED
    BY <2>2, <2>3, PowerKept
<1>4. ASSUME NEW g \in G, PsuOffWrite(g)
      PROVE  RightPsu' /\ Awake' /\ Lowered'
  <2>1. PICK step \in {"sleepRead", "idle"} : at' = [at EXCEPT ![g] = step]
    BY <1>4 DEF PsuOffWrite, Goto
  <2>2. at'["main"] = at["main"] \/ (g = "main" /\ at'["main"] \in {"sleepRead", "idle"})
    BY <1>c, <2>1 DEF Control, G
  <2>3. at[g] = "offWrite" /\ UNCHANGED <<kind, asleep, vout, psuAddr>>
    BY <1>4 DEF PsuOffWrite, At, found
  <2>4. unsure \ {"on"} = unsure' \ {"on"}
    BY <1>4 DEF PsuOffWrite, SureOn
  <2> QED
    BY <2>2, <2>3, <2>4 DEF PowerInv, RightPsu, Awake, Lowered
<1>5. CASE \/ SetPsuType \/ Probe \/ getFixedData \/ ClearFaults \/ PsuOn \/ WatchDog
           \/ SystemUnreset
  <2>1. at["main"] # "sleepWrite" /\ UNCHANGED <<kind, asleep, vout, unsure>>
    BY <1>5
       DEF SetPsuType, Probe, getFixedData, ClearFaults, PsuOn, WatchDog, SystemUnreset, At, psu
  <2>2. psuAddr' \in {psuAddr, kind, "none"}
    BY <1>5 DEF SetPsuType, Probe, getFixedData, ClearFaults, PsuOn, WatchDog, SystemUnreset, found
  <2>3. at'["main"] # "HbPowerOn"
    BY <1>5, <1>c DEF Control, SetPsuType, Probe, getFixedData, ClearFaults, PsuOn, WatchDog,
       AfterPsuOn, SystemUnreset, ForEach, Goto, GotoLoop, G
  <2> QED
    BY <2>1, <2>2, <2>3, PowerKept
<1>6. CASE HbPowerOn
  BY <1>6, PowerKept DEF HbPowerOn, At, psu, found
<1>7. CASE PsuOnWrite
  <2>1. at["main"] = "onWrite" /\ at'["main"] = "HbUnreset"
    BY <1>7, <1>c DEF PsuOnWrite, At, AfterPsuOn, Control, G
  <2>2. unsure \ {"on"} = unsure' \ {"on"} /\ UNCHANGED <<kind, asleep, vout, psuAddr>>
    BY <1>7 DEF PsuOnWrite, SureOn, found
  <2> QED
    BY <2>1, <2>2 DEF PowerInv, RightPsu, Awake, Lowered
<1>8. CASE SetNormalPower
  <2>1. PICK low \in BOOLEAN, sure \in BOOLEAN :
           /\ getSleepReg("main", low, sure)
           /\ IF low THEN Goto("main", "sleepWrite") ELSE GoMon
           /\ Sure("sleep", sure)
    BY <1>8 DEF SetNormalPower
  <2>2. at'["main"] = (IF low THEN "sleepWrite" ELSE "SetPsuType")
    BY <2>1, <1>c DEF Goto, GoMon, Control, G
  <2>3. sure /\ ~low => ~asleep
    BY <2>1 DEF getSleepReg, PowerInv, RightPsu
  <2>4. UNCHANGED <<kind, asleep, vout, psuAddr>>
    BY <1>8 DEF SetNormalPower, psu, found
  <2>5. "sleep" \notin unsure' => sure
    BY <2>1 DEF Sure
  <2> QED
    BY <2>2, <2>3, <2>4, <2>5 DEF PowerInv, RightPsu, Awake, Lowered
<1>9. CASE setSleepReg
  <2>1. PICK ok \in BOOLEAN : asleep' \in Written("main", ok, asleep, FALSE) /\ Sure("sleep", ok)
    BY <1>9 DEF setSleepReg
  <2>2. at'["main"] = "SetPsuType" /\ UNCHANGED <<kind, vout, psuAddr>>
    BY <1>9, <1>c DEF setSleepReg, GoMon, found, Control, G
  <2>3. asleep' \in BOOLEAN /\ (~asleep => ~asleep') /\ (ok => ~asleep')
    BY <2>1 DEF Written, PowerInv, Awake
  <2>4. "sleep" \notin unsure' => ok
    BY <2>1 DEF Sure
  <2> QED
    BY <2>2, <2>3, <2>4 DEF PowerInv, RightPsu, Awake, Lowered
<1>10. ASSUME NEW g \in {"main", "dvfs"}, NEW v \in {"min", "high"}, PsuSetVoltage(g, v),
              at[g] # "sleepWrite", at["main"] # "HbPowerOn",
              at'["main"] = at["main"] \/ (g = "main" /\ (at'["main"] = "HbPowerOn" => v = "min"))
       PROVE  RightPsu' /\ Awake' /\ Lowered'
  <2>1. PICK ok \in BOOLEAN : vout' \in Written(g, ok, vout, v) /\ Sure("vout", ok)
    BY <1>10 DEF PsuSetVoltage
  <2>2. UNCHANGED <<kind, asleep, psuAddr>> /\ ("sleep" \in unsure' <=> "sleep" \in unsure)
    BY <1>10, <2>1 DEF PsuSetVoltage, Sure
  <2>3. vout' = v \/ "vout" \in unsure'
    BY <2>1 DEF Written, Sure
  <2> QED
    BY <1>10, <2>2, <2>3 DEF PowerInv, RightPsu, Awake, Lowered
<1>11. CASE PreInit \/ InitialSetup
  <2>1. PsuSetVoltage("main", "min") /\ at["main"] \in {"preInitVout", "setupVout"}
    BY <1>11 DEF PreInit, InitialSetup, At
  <2> QED
    BY <1>10, <2>1
<1>12. CASE SetVoltage
  <2>1. PICK v \in {"min", "high"} : PsuSetVoltage("dvfs", v)
    BY <1>12 DEF SetVoltage
  <2>2. at["dvfs"] \in {"tuneMin", "tuneHigh"} /\ at'["main"] = at["main"]
    BY <1>12, <1>c DEF SetVoltage, At, Goto, Control, G
  <2>3. at["main"] = "run"
    BY <2>2, <1>c DEF WhoActs
  <2> QED
    BY <1>10, <2>1, <2>2, <2>3
<1>13. CASE (pollPsuData \/ Reread \/ Mon) /\ ~\E why : Ends(why)
  <2>1. UNCHANGED <<kind, asleep, vout, unsure, psuAddr>>
    BY <1>13 DEF pollPsuData, Reread, Mon, psu, found
  <2>2. at'["main"] = at["main"]
    BY <1>13, <1>c DEF pollPsuData, Reread, Mon, Goto, Control, G
  <2> QED
    BY <2>1, <2>2, PowerKept
<1>14. CASE enterStandbyMode \/ DeadBoard \/ Retune
  <2>1. UNCHANGED <<kind, asleep, vout, unsure, psuAddr>>
    BY <1>14 DEF enterStandbyMode, DeadBoard, Retune, DvfsIdle, psu, found
  <2>2. at'["main"] = at["main"]
    BY <1>14, <1>c DEF enterStandbyMode, DeadBoard, Retune, DvfsIdle, GotoLoop, Control, G
  <2> QED
    BY <2>1, <2>2, PowerKept
<1>15. CASE Restart \/ Trip \/ UNCHANGED vars
  BY <1>15, PowerKept DEF Restart, Trip, vars, psu, process, found, control
<1> QED
  BY <1>1, <1>2, <1>3, <1>4, <1>5, <1>6, <1>7, <1>8, <1>9, <1>11, <1>12, <1>13, <1>14, <1>15
     DEF Next, Step, UnlockFatal, Killed

\* A board is given hash power only at the lowest voltage and from a PSU in
\* normal power mode, unless the access that should see to it failed.
THEOREM BoardsPoweredRight == Spec => PoweredUpRight
<1>1. Init => PowerInv
  BY InitIInv DEF Init, ProcessInit, PowerInv, RightPsu, Awake, Lowered, NewAt, Registers, G
<1>2. PowerInv /\ [Next]_vars
        => [~(vdd' \subseteq vdd) => /\ vout = "min" \/ "vout" \in unsure
                                     /\ ~asleep \/ "sleep" \in unsure]_vars
  <2> SUFFICES ASSUME PowerInv, Next, ~(vdd' \subseteq vdd)
               PROVE  /\ vout = "min" \/ "vout" \in unsure
                      /\ ~asleep \/ "sleep" \in unsure
    OBVIOUS
  <2>1. HbPowerOn
    <3>1. ASSUME NEW g \in G, psuGet(g) \/ UnlockFatal(g) \/ PsuOff(g) \/ PsuOffWrite(g)
                                \/ HbPowerOff(g) \/ HbReset(g)
          PROVE  FALSE
      BY <3>1 DEF psuGet, UnlockFatal, Ends, PsuOff, PsuOffWrite, HbPowerOff, HbReset, pins
    <3>2. ~(\/ SetPsuType \/ Probe \/ getFixedData \/ PreInit \/ ClearFaults \/ PsuOn \/ WatchDog
            \/ PsuOnWrite \/ SetNormalPower \/ setSleepReg \/ SystemUnreset \/ InitialSetup)
      BY DEF SetPsuType, Probe, getFixedData, PreInit, ClearFaults, PsuOn, WatchDog, PsuOnWrite,
             SetNormalPower, setSleepReg, SystemUnreset, InitialSetup, PsuSetVoltage, pins
    <3>3. ~(SetVoltage \/ pollPsuData \/ Reread \/ Mon)
      BY DEF SetVoltage, PsuSetVoltage, pollPsuData, Reread, Mon, Ends, pins
    <3>4. ~(enterStandbyMode \/ DeadBoard \/ Retune \/ Killed \/ Restart \/ Trip)
      BY DEF enterStandbyMode, DeadBoard, Retune, DvfsIdle, Killed, Ends, Restart, Trip, pins
    <3> QED
      BY <3>1, <3>2, <3>3, <3>4 DEF Next, Step
  <2>2. at["main"] = "HbPowerOn"
    BY <2>1 DEF HbPowerOn, At
  <2> QED
    BY <2>2 DEF PowerInv, Awake, Lowered
<1> QED
  BY <1>1, <1>2, NextPower, PTL DEF Spec, PoweredUpRight

-----------------------------------------------------------------------------
(* The monitor of the PSU.                                                 *)

\* the steps at which poweredOnMu is held, and what it protects: while the
\* monitor looks at the PSU again nobody switches it
LockSteps == {"watchdog", "onWrite", "offWrite", "reread"}
Holders   == \A g \in G : at[g] \in LockSteps => poweredOnMu = g
Watching  == at["mon"] = "reread" => poweredOn

MonitorInv == IInv /\ CacheInv /\ Holders /\ Watching

\* a step that brings no goroutine to where the lock is held
LEMMA LockKept ==
    ASSUME Holders, Watching, UNCHANGED <<poweredOnMu, poweredOn>>,
           \A g \in G : at'[g] = at[g] \/ at'[g] \notin LockSteps
    PROVE  Holders' /\ Watching'
BY DEF Holders, Watching, LockSteps, G

\* a goroutine takes the lock when nobody has it
LEMMA LockTaken ==
    ASSUME Control, Holders, NEW g \in G, NEW step \in LockSteps, Lock(g), Goto(g, step),
           step = "reread" => poweredOn'
    PROVE  Holders' /\ Watching'
<1>1. \A h \in G : at[h] \notin LockSteps
  BY DEF Lock, Holders, G
<1>2. \A h \in G : at'[h] = IF h = g THEN step ELSE at[h]
  BY DEF Control, Goto
<1>3. poweredOnMu' = g
  BY DEF Lock
<1> QED
  BY <1>1, <1>2, <1>3 DEF Holders, Watching, LockSteps, G

\* the goroutine that holds the lock gives it back and goes on
LEMMA LockReturned ==
    ASSUME Control, Holders, NEW g \in G, at[g] \in LockSteps,
           \A h \in G : at'[h] \notin LockSteps \/ (h # g /\ at'[h] = at[h])
    PROVE  Holders' /\ Watching'
<1>1. \A h \in G : at'[h] \notin LockSteps
  BY DEF Holders
<1> QED
  BY <1>1 DEF Holders, Watching, LockSteps, G

\* every step keeps MonitorInv
LEMMA NextMonitor == MonitorInv /\ [Next]_vars => MonitorInv'
<1> SUFFICES ASSUME Control, Holders, Watching, [Next]_vars
             PROVE  Holders' /\ Watching'
  BY NextIInv, NextCache DEF MonitorInv, IInv
<1>1. ASSUME NEW g \in G, psuGet(g)
      PROVE  Holders' /\ Watching'
  BY <1>1, LockKept DEF psuGet, control, cache
<1>2. ASSUME \E why : Ends(why)
      PROVE  Holders' /\ Watching'
  BY <1>2 DEF Ends, NewAt, Holders, Watching, LockSteps, G
<1>3. ASSUME NEW g \in G, HbPowerOff(g) \/ HbReset(g)
      PROVE  Holders' /\ Watching'
  <2>1. PICK step \in {"HbReset", "deadReset", "HbPowerOff", "PsuOff", "idle"} :
           at' = [at EXCEPT ![g] = step]
    BY <1>3 DEF HbPowerOff, HbReset, ForEach, Goto, GotoLoop
  <2> QED
    BY <1>3, <2>1, LockKept DEF HbPowerOff, HbReset, Control, LockSteps, cache
<1>4. ASSUME NEW g \in G, PsuOff(g)
      PROVE  Holders' /\ Watching'
  BY <1>4, LockTaken DEF PsuOff, LockSteps
<1>5. ASSUME NEW g \in G, PsuOffWrite(g)
      PROVE  Holders' /\ Watching'
  <2>1. PICK step \in {"sleepRead", "idle"} : at' = [at EXCEPT ![g] = step]
    BY <1>5 DEF PsuOffWrite, Goto
  <2>2. at[g] \in LockSteps
    BY <1>5 DEF PsuOffWrite, At, LockSteps
  <2> QED
    BY <2>1, <2>2, LockReturned DEF Control, LockSteps
<1>6. CASE \/ SetPsuType \/ Probe \/ getFixedData \/ PreInit \/ ClearFaults \/ SystemUnreset
           \/ InitialSetup \/ SetVoltage \/ enterStandbyMode \/ DeadBoard \/ Retune
  <2>1. PICK g \in G, step \in Steps \ LockSteps : at' = [at EXCEPT ![g] = step]
    <3>1. "main" \in G /\ "dvfs" \in G
      BY DEF G
    <3>2. CASE SetPsuType \/ Probe \/ getFixedData
      BY <3>1, <3>2 DEF SetPsuType, Probe, getFixedData, Goto, GotoLoop, Steps, LockSteps,
                        BoardSteps
    <3>3. CASE PreInit \/ ClearFaults \/ InitialSetup
      BY <3>1, <3>3 DEF PreInit, ClearFaults, InitialSetup, Goto, GotoLoop, Steps, LockSteps,
                        StartSteps
    <3>4. CASE SystemUnreset
      BY <3>1, <3>4 DEF SystemUnreset, ForEach, GotoLoop, Steps, LockSteps, StartSteps
    <3>5. CASE SetVoltage \/ enterStandbyMode \/ DeadBoard \/ Retune
      BY <3>1, <3>5 DEF SetVoltage, enterStandbyMode, DeadBoard, Retune, DvfsIdle, Goto,
                        GotoLoop, Steps, LockSteps, BoardSteps
    <3> QED
      BY <1>6, <3>2, <3>3, <3>4, <3>5
  <2>2. UNCHANGED <<poweredOnMu, poweredOn>>
    BY <1>6
       DEF SetPsuType, Probe, getFixedData, PreInit, ClearFaults, SystemUnreset, InitialSetup,
           SetVoltage, PsuSetVoltage, enterStandbyMode, DeadBoard, Retune, DvfsIdle, cache
  <2> QED
    BY <2>1, <2>2, LockKept DEF Control
<1>7. CASE PsuOn
  BY <1>7, LockTaken DEF PsuOn, LockSteps, G
<1>8. ASSUME at["main"] \in LockSteps, AfterPsuOn
      PROVE  Holders' /\ Watching'
  BY <1>8, LockReturned DEF AfterPsuOn, Control, LockSteps, G
<1>9. CASE WatchDog
  <2>1. at["main"] = "watchdog"
    BY <1>9 DEF WatchDog, At
  <2>2. CASE AfterPsuOn
    BY <1>8, <2>1, <2>2 DEF LockSteps
  <2>3. CASE Goto("main", "onWrite") /\ UNCHANGED <<poweredOnMu, poweredOn>>
    BY <2>1, <2>3 DEF Goto, Control, Holders, Watching, LockSteps, G
  <2> QED
    BY <1>9, <2>2, <2>3 DEF WatchDog
<1>10. CASE PsuOnWrite
  BY <1>8, <1>10 DEF PsuOnWrite, At, LockSteps
<1>11. CASE SetNormalPower \/ setSleepReg \/ Mon \/ HbPowerOn
  <2>1. \A g \in G : at'[g] = at[g] \/ at'[g] \notin LockSteps
    BY <1>11 DEF SetNormalPower, setSleepReg, Mon, HbPowerOn, Goto, GotoLoop, GoMon, Control,
                 LockSteps, G
  <2> QED
    BY <1>11, <2>1, LockKept DEF SetNormalPower, setSleepReg, Mon, HbPowerOn, cache
<1>12. CASE pollPsuData /\ ~\E why : Ends(why)
  BY <1>12, LockTaken DEF pollPsuData, LockSteps, G
<1>13. CASE Reread /\ ~\E why : Ends(why)
  <2>1. at["mon"] = "reread" /\ Goto("mon", "poll")
    BY <1>13 DEF Reread, At
  <2> QED
    BY <2>1, LockReturned DEF Goto, Control, LockSteps, G
<1>14. CASE Restart \/ Trip \/ UNCHANGED vars
  BY <1>14, LockKept DEF Restart, Trip, vars, process, cache, control
<1> QED
  BY <1>1, <1>2, <1>3, <1>4, <1>5, <1>6, <1>7, <1>9, <1>10, <1>11, <1>12, <1>13, <1>14
     DEF Next, Step, UnlockFatal, Killed

\* The monitor ends the process only for a PSU that did switch itself off, or
\* whose state this process cannot know: it never takes the switching off by
\* the program for that, wherever main and dvfs are (MonitorRight's safety part).
THEOREM MonitorNotMistaken ==
    Spec => [][proc' = "tripped" /\ proc = "up" => tripped \/ "on" \in unsure]_vars
<1>1. Init => MonitorInv
  <2>1. Init => CacheInv /\ Holders /\ Watching
    BY DEF Init, ProcessInit, CacheInv, CacheRight, Registers, NewAt, Holders, Watching,
           LockSteps, G
  <2> QED
    BY <2>1, InitIInv DEF MonitorInv
<1>2. MonitorInv /\ [Next]_vars
        => [proc' = "tripped" /\ proc = "up" => tripped \/ "on" \in unsure]_vars
  <2> SUFFICES ASSUME MonitorInv, Next, proc' = "tripped", proc = "up"
               PROVE  tripped \/ "on" \in unsure
    OBVIOUS
  <2>1. Reread /\ ~on
    <3>1. ASSUME NEW g \in G, psuGet(g) \/ UnlockFatal(g) \/ PsuOff(g) \/ PsuOffWrite(g)
                                \/ HbPowerOff(g) \/ HbReset(g)
          PROVE  FALSE
      BY <3>1 DEF psuGet, UnlockFatal, Ends, PsuOff, PsuOffWrite, HbPowerOff, HbReset
    <3>2. ~(\/ SetPsuType \/ Probe \/ getFixedData \/ PreInit \/ ClearFaults \/ PsuOn \/ WatchDog
            \/ PsuOnWrite \/ SetNormalPower \/ setSleepReg \/ SystemUnreset \/ InitialSetup
            \/ HbPowerOn)
      BY DEF SetPsuType, Probe, getFixedData, PreInit, ClearFaults, PsuOn, WatchDog, PsuOnWrite,
             SetNormalPower, setSleepReg, SystemUnreset, InitialSetup, PsuSetVoltage, HbPowerOn
    <3>3. ~(SetVoltage \/ pollPsuData \/ Mon)
      BY DEF SetVoltage, PsuSetVoltage, pollPsuData, Mon, Ends
    <3>4. ~(enterStandbyMode \/ DeadBoard \/ Retune \/ Killed \/ Restart \/ Trip)
      BY DEF enterStandbyMode, DeadBoard, Retune, DvfsIdle, Killed, Ends, Restart, Trip, process
    <3>5. Reread
      BY <3>1, <3>2, <3>3, <3>4 DEF Next, Step
    <3> QED
      BY <3>5 DEF Reread, Ends
  <2>2. poweredOn
    BY <2>1 DEF Reread, At, MonitorInv, Watching
  <2> QED
    BY <2>1, <2>2 DEF MonitorInv, CacheInv, CacheRight
<1> QED
  BY <1>1, <1>2, NextMonitor, PTL DEF Spec

-----------------------------------------------------------------------------
(* Types.                                                                  *)

\* the end of an access keeps the types of the bus
LEMMA AccessType ==
    ASSUME TypeOK, NEW g \in G, NEW ok \in BOOLEAN, Access(g, ok)
    PROVE  psuMutex' \in BOOLEAN /\ bus' \in [G -> {"out", "open", "failed"}]
BY DEF TypeOK, Access

\* a goroutine goes on, in a loop or not
LEMMA LoopType ==
    ASSUME TypeOK, NEW g \in G,
           \/ \E step : Goto(g, step)
           \/ \E step : \E i \in 0 .. (NBoards + 2) : GotoLoop(g, step, i)
           \/ \E step, next : ForEach(g, step, next)
    PROVE  ii' \in [G -> 0 .. (NBoards + 2)]
<1>1. ii \in [G -> 0 .. (NBoards + 2)] /\ NBoards \in Nat
  BY BoardAssumption DEF TypeOK
<1>2. ii' = ii \/ \E i \in 0 .. (NBoards + 2) : ii' = [ii EXCEPT ![g] = i]
  <2>1. ASSUME NEW step, NEW next, ForEach(g, step, next)
        PROVE  \E i \in 0 .. (NBoards + 2) : ii' = [ii EXCEPT ![g] = i]
    <3>1. ii[g] \in Nat
      BY <1>1
    <3>2. CASE ii[g] < NBoards
      <4>1. ii[g] + 1 \in 0 .. (NBoards + 2)
        BY <1>1, <3>1, <3>2
      <4> QED
        BY <2>1, <3>2, <4>1 DEF ForEach, GotoLoop
    <3>3. CASE ~(ii[g] < NBoards)
      BY <1>1, <2>1, <3>3, 1 \in 0 .. (NBoards + 2) DEF ForEach, GotoLoop
    <3> QED
      BY <3>2, <3>3
  <2> QED
    BY <2>1 DEF Goto, GotoLoop
<1> QED
  BY <1>1, <1>2

\* the program ends with one of the ends there are
LEMMA EndsType ==
    ASSUME TypeOK, NEW why, Ends(why),
           why \in {"killed", "fatal", "panic", "tripped", "unread"}
    PROVE  TypeOK'
<1>1. ii' \in [G -> 0 .. (NBoards + 2)]
  <2>1. 0 \in 0 .. (NBoards + 2)
    BY BoardAssumption DEF Boards
  <2> QED
    BY <2>1 DEF Ends, NewIi
<1>2. bus' \in [G -> {"out", "open", "failed"}]
  BY DEF Ends, NewBus
<1>3. /\ {on', asleep', psuMutex', poweredOn', PreInitDone', tripped'} \subseteq BOOLEAN
      /\ vout' \in {"min", "high"} /\ {vdd', reset', hbPowerIsOn'} \subseteq SUBSET Boards
  BY DEF Ends, TypeOK, psu, pins
<1>4. /\ kind' \in Kinds /\ proc' = why /\ psuAddr' = "none" /\ poweredOnMu' = "nobody"
      /\ unsure' = Registers
  BY DEF Ends, TypeOK
<1> QED
  BY <1>1, <1>2, <1>3, <1>4 DEF TypeOK

\* a write of the voltage keeps the types of all but the goroutine's place
LEMMA VoltageType ==
    ASSUME TypeOK, NEW g \in G, NEW v \in {"min", "high"}, PsuSetVoltage(g, v),
           PreInitDone' \in BOOLEAN, ii' \in [G -> 0 .. (NBoards + 2)]
    PROVE  TypeOK'
<1>1. PICK ok \in BOOLEAN : Access(g, ok) /\ vout' \in Written(g, ok, vout, v) /\ Sure("vout", ok)
  BY DEF PsuSetVoltage
<1>2. vout' \in {"min", "high"} /\ unsure' \subseteq Registers
  BY <1>1 DEF Written, Sure, TypeOK, Registers
<1> QED
  BY <1>1, <1>2, AccessType DEF PsuSetVoltage, TypeOK, pins, cache

\* the loop of HbPowerOn is at a board
Placed  == at["main"] = "HbPowerOn" => ii["main"] \in Boards
TypeInv == TypeOK /\ IInv /\ Placed

\* every step keeps the types
LEMMA NextType == TypeInv /\ [Next]_vars => TypeOK'
<1> SUFFICES ASSUME TypeOK, IInv, Placed, [Next]_vars
             PROVE  TypeOK'
  BY DEF TypeInv
<1> "main" \in G /\ "dvfs" \in G /\ "mon" \in G /\ "lp" \in G
  BY DEF G
<1>i. {0, 1, 2} \cup Boards \subseteq 0 .. (NBoards + 2)
  BY BoardAssumption DEF Boards
<1>1. ASSUME NEW g \in G, psuGet(g)
      PROVE  TypeOK'
  BY <1>1 DEF psuGet, TypeOK, psu, pins, cache, found, control
<1>2. CASE (\E g \in G : UnlockFatal(g)) \/ Killed
  BY <1>2, EndsType DEF UnlockFatal, Killed
<1>3. ASSUME NEW g \in G, PsuOff(g) \/ PsuOffWrite(g)
      PROVE  TypeOK'
  <2>1. ii' \in [G -> 0 .. (NBoards + 2)]
    BY <1>3, LoopType DEF PsuOff, PsuOffWrite
  <2>2. CASE PsuOff(g)
    BY <2>1, <2>2 DEF PsuOff, Lock, TypeOK, psu, pins, mutex, found
  <2>3. ASSUME NEW ok \in BOOLEAN, Access(g, ok), on' \in Written(g, ok, on, FALSE),
               poweredOn' = (poweredOn /\ ~ok), SureOn(ok), PsuOffWrite(g)
        PROVE  TypeOK'
    <3>1. on' \in BOOLEAN /\ poweredOn' \in BOOLEAN /\ unsure' \subseteq Registers
      BY <2>3 DEF Written, SureOn, TypeOK, Registers
    <3> QED
      BY <2>1, <2>3, <3>1, AccessType DEF PsuOffWrite, Unlock, TypeOK, pins, found
  <2> QED
    BY <1>3, <2>2, <2>3 DEF PsuOffWrite
<1>4. ASSUME NEW g \in G, HbPowerOff(g) \/ HbReset(g)
      PROVE  TypeOK'
  <2>1. ii' \in [G -> 0 .. (NBoards + 2)]
    BY <1>4, LoopType DEF HbPowerOff, HbReset
  <2>2. CASE HbPowerOff(g)
    BY <2>1, <2>2 DEF HbPowerOff, TypeOK, psu, mutex, cache, found
  <2>3. CASE HbReset(g)
    <3>1. ii[g] \in Boards
      BY <2>3 DEF HbReset, At, IInv, WhoActs, BoardSteps
    <3> QED
      BY <2>1, <2>3, <3>1 DEF HbReset, TypeOK, psu, mutex, cache, found
  <2> QED
    BY <1>4, <2>2, <2>3
<1>5. CASE SetPsuType \/ Probe
  <2>1. ii' \in [G -> 0 .. (NBoards + 2)]
    BY <1>5, <1>i, LoopType DEF SetPsuType, Probe
  <2>2. psuAddr' \in Kinds \cup {"none"}
    BY <1>5 DEF SetPsuType, Probe, TypeOK
  <2>3. UNCHANGED <<kind, psu, pins, proc, mutex, cache, PreInitDone, hbPowerIsOn, tripped, unsure>>
    BY <1>5 DEF SetPsuType, Probe
  <2> QED
    BY <2>1, <2>2, <2>3 DEF TypeOK, psu, pins, mutex, cache
<1>6. CASE getFixedData \/ ClearFaults
  <2>1. ii' \in [G -> 0 .. (NBoards + 2)]
    BY <1>6, LoopType DEF getFixedData, ClearFaults
  <2>2. PICK ok \in BOOLEAN : Access("main", ok)
    BY <1>6 DEF getFixedData, ClearFaults
  <2>3. UNCHANGED <<kind, psu, pins, proc, cache, found, hbPowerIsOn, tripped, unsure>>
    BY <1>6 DEF getFixedData, ClearFaults
  <2> QED
    BY <2>1, <2>2, <2>3, AccessType DEF TypeOK, psu, pins, cache, found
<1>7. CASE PreInit \/ InitialSetup
  <2>1. ii' \in [G -> 0 .. (NBoards + 2)]
    BY <1>7, <1>i, LoopType DEF PreInit, InitialSetup
  <2> QED
    BY <1>7, <2>1, VoltageType DEF PreInit, InitialSetup, TypeOK
<1>8. CASE SetVoltage
  <2>1. ii' \in [G -> 0 .. (NBoards + 2)]
    BY <1>8, LoopType DEF SetVoltage
  <2> QED
    BY <1>8, <2>1, VoltageType DEF SetVoltage, TypeOK
<1>9. CASE PsuOn
  <2>1. ii' \in [G -> 0 .. (NBoards + 2)]
    BY <1>9, LoopType DEF PsuOn
  <2> QED
    BY <1>9, <2>1 DEF PsuOn, Lock, TypeOK, psu, pins, mutex, found
<1>10. CASE WatchDog \/ PsuOnWrite
  <2>1. ii' \in [G -> 0 .. (NBoards + 2)]
    <3>1. CASE AfterPsuOn
      BY <1>i, <3>1 DEF AfterPsuOn, TypeOK
    <3> QED
      BY <1>10, <3>1, LoopType DEF WatchDog, PsuOnWrite
  <2>2. PICK ok \in BOOLEAN : /\ Access("main", ok)
                              /\ \/ UNCHANGED <<on, poweredOn, tripped, unsure>>
                                 \/ /\ on' \in Written("main", ok, on, TRUE)
                                    /\ poweredOn' = (poweredOn \/ ok)
                                    /\ tripped' = (tripped /\ ~ok)
                                    /\ SureOn(ok)
    BY <1>10 DEF WatchDog, PsuOnWrite, psu
  <2>3. {on', poweredOn', tripped'} \subseteq BOOLEAN /\ unsure' \subseteq Registers
    BY <2>2 DEF Written, SureOn, TypeOK, Registers
  <2>4. UNCHANGED <<kind, asleep, vout, pins, proc, found, hbPowerIsOn>>
    BY <1>10 DEF WatchDog, PsuOnWrite, psu
  <2>5. poweredOnMu' \in {poweredOnMu, "nobody"}
    BY <1>10 DEF WatchDog, PsuOnWrite, Unlock
  <2> QED
    BY <2>1, <2>2, <2>3, <2>4, <2>5, AccessType DEF TypeOK, pins, found
<1>11. CASE SetNormalPower \/ setSleepReg \/ Mon
  <2>1. ii' \in [G -> 0 .. (NBoards + 2)]
    <3>1. CASE GoMon
      BY <1>i, <3>1 DEF GoMon, TypeOK
    <3> QED
      BY <1>11, <3>1, LoopType DEF SetNormalPower, setSleepReg, Mon
  <2>2. psuMutex' \in BOOLEAN /\ bus' \in [G -> {"out", "open", "failed"}]
    BY <1>11, AccessType DEF SetNormalPower, setSleepReg, Mon, getSleepReg, TypeOK, mutex
  <2>3. asleep' \in BOOLEAN /\ unsure' \subseteq Registers
    BY <1>11 DEF SetNormalPower, setSleepReg, Mon, Written, Sure, TypeOK, Registers, psu
  <2>4. UNCHANGED <<kind, on, vout, pins, proc, cache, found, hbPowerIsOn, tripped>>
    BY <1>11 DEF SetNormalPower, setSleepReg, Mon, psu
  <2> QED
    BY <2>1, <2>2, <2>3, <2>4 DEF TypeOK, pins, cache, found
<1>12. CASE SystemUnreset
  <2>1. ii' \in [G -> 0 .. (NBoards + 2)]
    BY <1>12, LoopType DEF SystemUnreset
  <2> QED
    BY <1>12, <2>1 DEF SystemUnreset, TypeOK, psu, mutex, cache, found
<1>13. CASE HbPowerOn
  <2>1. ii["main"] \in Boards
    BY <1>13 DEF HbPowerOn, At, Placed
  <2>2. ii' \in [G -> 0 .. (NBoards + 2)]
    <3>1. ii["main"] < NBoards => ii["main"] + 1 \in 0 .. (NBoards + 2)
      BY <2>1, BoardAssumption DEF Boards
    <3>2. ii' = ii \/ \E i \in 0 .. (NBoards + 2) : ii' = [ii EXCEPT !["main"] = i]
      BY <1>13, <3>1 DEF HbPowerOn, GotoLoop
    <3> QED
      BY <3>2 DEF TypeOK
  <2> QED
    BY <1>13, <2>1, <2>2 DEF HbPowerOn, TypeOK, psu, mutex, cache, found
<1>14. CASE pollPsuData \/ Reread
  <2>1. CASE \E why \in {"panic", "tripped", "unread"} : Ends(why)
    BY <2>1, EndsType
  <2>2. CASE /\ Goto("mon", "reread") /\ Lock("mon")
             /\ UNCHANGED <<kind, psu, pins, proc, mutex, poweredOn, found, hbPowerIsOn, tripped,
                            unsure>>
    BY <2>2, LoopType DEF Lock, TypeOK, psu, pins, mutex, found
  <2>3. CASE /\ Goto("mon", "poll") /\ Unlock /\ Access("mon", TRUE)
             /\ UNCHANGED <<kind, psu, pins, proc, poweredOn, found, hbPowerIsOn, tripped, unsure>>
    BY <2>3, LoopType, AccessType DEF Unlock, TypeOK, psu, pins, found
  <2> QED
    BY <1>14, <2>1, <2>2, <2>3 DEF pollPsuData, Reread
<1>15. CASE enterStandbyMode \/ DeadBoard \/ Retune
  <2>1. ii' \in [G -> 0 .. (NBoards + 2)]
    BY <1>15, <1>i, LoopType DEF enterStandbyMode, DeadBoard, Retune, DvfsIdle
  <2>2. UNCHANGED <<kind, psu, pins, proc, mutex, cache, found, hbPowerIsOn, tripped, unsure>>
    BY <1>15 DEF enterStandbyMode, DeadBoard, Retune, DvfsIdle
  <2> QED
    BY <2>1, <2>2 DEF TypeOK, psu, pins, mutex, cache, found
<1>16. CASE Restart
  BY <1>16 DEF Restart, TypeOK, psu, pins, mutex, cache, found, control
<1>17. CASE Trip
  BY <1>17 DEF Trip, TypeOK, pins, process, mutex, cache, found, control
<1>18. CASE UNCHANGED vars
  BY <1>18 DEF TypeOK, vars, psu, pins, process, mutex, cache, found, control
<1> QED
  BY <1>1, <1>2, <1>3, <1>4, <1>5, <1>6, <1>7, <1>8, <1>9, <1>10, <1>11, <1>12, <1>13, <1>14,
     <1>15, <1>16, <1>17, <1>18 DEF Next, Step

\* every step keeps HbPowerOn's loop at a board
LEMMA NextPlaced == TypeInv /\ [Next]_vars => Placed'
<1> SUFFICES ASSUME Control, WhoActs, Placed, [Next]_vars, at'["main"] = "HbPowerOn"
             PROVE  ii'["main"] \in Boards
  BY DEF TypeInv, IInv, Placed
<1>1. ASSUME NEW g \in G, NEW step, g # "main" \/ step # "HbPowerOn",
             at' = [at EXCEPT ![g] = step],
             ii' = ii \/ \E i : ii' = [ii EXCEPT ![g] = i]
      PROVE  ii'["main"] \in Boards
  BY <1>1 DEF Control, Placed, G
<1>2. ASSUME UNCHANGED control
      PROVE  ii'["main"] \in Boards
  BY <1>2 DEF Placed, control
<1>3. ASSUME NEW why, Ends(why)
      PROVE  FALSE
  BY <1>3 DEF Ends, NewAt, G
<1>4. ASSUME NEW g \in G, psuGet(g) \/ UnlockFatal(g) \/ PsuOff(g) \/ PsuOffWrite(g)
                            \/ HbPowerOff(g) \/ HbReset(g)
      PROVE  ii'["main"] \in Boards
  <2>1. CASE psuGet(g) \/ UnlockFatal(g)
    BY <1>2, <1>3, <2>1 DEF psuGet, UnlockFatal
  <2>2. CASE PsuOff(g) \/ PsuOffWrite(g)
    BY <1>1, <2>2 DEF PsuOff, PsuOffWrite, Goto
  <2>3. CASE HbPowerOff(g) \/ HbReset(g)
    BY <1>1, <2>3 DEF HbPowerOff, HbReset, ForEach, Goto, GotoLoop
  <2> QED
    BY <1>4, <2>1, <2>2, <2>3
<1>5. CASE \/ SetPsuType \/ Probe \/ getFixedData \/ PreInit \/ ClearFaults \/ PsuOn
           \/ SystemUnreset
  <2>1. at'["main"] # "HbPowerOn"
    BY <1>5 DEF SetPsuType, Probe, getFixedData, PreInit, ClearFaults, PsuOn, SystemUnreset,
                ForEach, Goto, GotoLoop, Control, G
  <2> QED
    BY <2>1
<1>6. CASE WatchDog \/ PsuOnWrite \/ SetNormalPower \/ setSleepReg
  <2>1. at'["main"] # "HbPowerOn"
    BY <1>6 DEF WatchDog, PsuOnWrite, SetNormalPower, setSleepReg, AfterPsuOn, GoMon,
                Goto, Control, G
  <2> QED
    BY <2>1
<1>7. CASE InitialSetup
  BY <1>7, BoardAssumption DEF InitialSetup, GotoLoop, Control, Boards, G
<1>8. CASE HbPowerOn
  <2>1. at["main"] = "HbPowerOn" /\ ii["main"] \in Boards
    BY <1>8 DEF HbPowerOn, At, Placed
  <2> QED
    BY <1>8, <2>1, BoardAssumption DEF HbPowerOn, GotoLoop, Control, Boards, G
<1>9. CASE SetVoltage \/ enterStandbyMode \/ DeadBoard \/ Retune
  <2>1. PICK step : /\ at' = [at EXCEPT !["dvfs"] = step]
                    /\ ii' = ii \/ \E i : ii' = [ii EXCEPT !["dvfs"] = i]
    BY <1>9 DEF SetVoltage, enterStandbyMode, DeadBoard, Retune, DvfsIdle, Goto, GotoLoop
  <2> QED
    BY <1>1, <2>1 DEF G
<1>10. CASE pollPsuData \/ Reread \/ Mon
  <2>1. PICK g \in {"mon", "lp"} : \E step : Goto(g, step)
    BY <1>3, <1>10 DEF pollPsuData, Reread, Mon
  <2> QED
    BY <1>1, <2>1 DEF Goto, G
<1>11. CASE Killed \/ Restart \/ Trip \/ UNCHANGED vars
  BY <1>2, <1>3, <1>11 DEF Killed, Restart, Trip, vars, process
<1> QED
  BY <1>4, <1>5, <1>6, <1>7, <1>8, <1>9, <1>10, <1>11 DEF Next, Step

\* Every variable has its type, the loops over the boards their bounds.
THEOREM TypeCorrect == Spec => []TypeOK
<1>1. Init => TypeInv
  <2> SUFFICES ASSUME Init
               PROVE  TypeOK /\ Placed
    BY InitIInv DEF TypeInv
  <2>1. bus \in [G -> {"out", "open", "failed"}] /\ ii \in [G -> 0 .. (NBoards + 2)]
    BY BoardAssumption DEF Init, ProcessInit, NewBus, NewIi
  <2>2. {on, asleep, psuMutex, poweredOn, PreInitDone, tripped} \subseteq BOOLEAN
    BY DEF Init, ProcessInit
  <2>3. {vdd, reset, hbPowerIsOn} \subseteq SUBSET Boards /\ unsure \subseteq Registers
    BY DEF Init, ProcessInit
  <2>4. Placed
    BY DEF Init, ProcessInit, NewAt, Placed, G
  <2> QED
    BY <2>1, <2>2, <2>3, <2>4 DEF Init, ProcessInit, TypeOK
<1>2. TypeInv /\ [Next]_vars => TypeInv'
  BY NextType, NextPlaced, NextIInv DEF TypeInv
<1> QED
  BY <1>1, <1>2, PTL DEF Spec, TypeInv
=============================================================================
