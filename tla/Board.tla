--------------------------------- MODULE Board ---------------------------------
(***************************************************************************)
(* One hash board: device/asic/aura-asic.go and adapter.go, and the        *)
(* counters that DVFS reads in dvfs2.go.  AsicDetect finds the chips, at   *)
(* the baud rate of a reset chip or at the one the last process left them  *)
(* at.  Then two goroutines use the board: the device's Run polls chips    *)
(* for hits and counts them (CheckResults, at), and DVFS reads registers   *)
(* and gives a board up when too many chips are silent.                    *)
(*                                                                         *)
(* A read through asicio ends in one of three ways: every register came;   *)
(* some are missing and the result says so; or some are missing and        *)
(* another came twice and was counted in their place.  The second way ends *)
(* the process: updateAsicFaultyTracker writes to a map that is never      *)
(* made.  So does the third if all chips were asked for.  The map being    *)
(* nil, no chip is ever marked faulty and ReadRegsPipelined leaves none    *)
(* out; it returns no error either, and what handles one is left out.      *)
(***************************************************************************)
EXTENDS Integers, FiniteSets, Sequences, FiniteSetsExt, SequencesExt

CONSTANTS
    LowHigh,             \* chips have the IDs 0 .. LowHigh (65)
    HiLow, HiHigh,       \* and HiLow .. HiHigh (128 .. 193)
    hitMax,              \* more hits than this in a reading are not believed (2000)
    statsRingSize,       \* readings kept (12)
    PollBatch,           \* chips asked for hits at once (44)
    noResponseLimit,     \* rounds a chip may be silent (3)
    MaxAsicsInChain,     \* of the chassis configuration; 0 if it has none for this model
    Readings,            \* bound: what each chip may have counted between two readings
    MinFound,            \* bound: AsicDetect finds at least so many chips, or none
    MaxHits,             \* bound: hits that are held or waiting to be taken
    Faulty,              \* bound: the chips that DVFS may find silent
    MaxLost              \* bound: what is lost of polls and of hits

ChipIds  == (0 .. LowHigh) \cup (HiLow .. HiHigh)
NumChips == Cardinality(ChipIds)
Indices  == 0 .. (NumChips - 1)

ASSUME ChipAssumption ==
    LowHigh \in Nat /\ HiLow \in Nat /\ HiHigh \in Nat /\ LowHigh < HiLow /\ HiLow <= HiHigh
ASSUME SizeAssumption ==
    /\ hitMax \in Nat /\ statsRingSize \in Nat \ {0} /\ noResponseLimit \in Nat
    /\ PollBatch \in Nat \ {0} /\ MaxAsicsInChain \in Nat
ASSUME BoundAssumption ==
    Readings \subseteq [Indices -> 0 .. (hitMax + 1)] /\ MinFound \in Nat
    /\ MaxHits \in Nat /\ Faulty \subseteq ChipIds /\ MaxLost \in Nat

\* so many chips of a board may be silent, however many it has
maxDeadAsics == MaxAsicsInChain \div 2

VARIABLES
    pc,                  \* of the process: ended, at either attempt of AsicDetect, or up
    aa,                  \* AuraAsic of this board
    at,                  \* where CheckResults is
    queue,               \* hits that came and were not yet taken
    asked,               \* chips asked for a hit that have not answered
    waiting,             \* chips that hold a hit
    baud,                \* the rate the chips listen at
    powered,             \* the board has hash power
    lost,                \* what was lost so far
    owed,                \* history: hits recorded and not reported, for each chip
    lapped,              \* history: the ring ran over since the last report
    rounds               \* history: the silent chips of DVFS' last rounds, latest first

vars == <<pc, aa, at, queue, asked, waiting, baud, powered, lost, owed, lapped, rounds>>

ChipIdToIndex(id)  == IF id >= HiLow THEN id - HiLow + LowHigh + 1 ELSE id
ChipIndexToId(idx) == IF idx > LowHigh THEN idx - (LowHigh + 1) + HiLow ELSE idx

NoHits == [i \in Indices |-> 0]
Nobody == [id \in ChipIds |-> 0]

\* the chips in found, each once and in the order of their IDs
Ascending(found) ==
    CHOOSE ids \in [1 .. Cardinality(found) -> found] :
        \A j, k \in DOMAIN ids : j < k => ids[j] < ids[k]

\* AuraAsic as AuraAsicInit leaves it when the chips in found have answered
NewBoard(found, rate) ==
    [actualChipIds  |-> Ascending(found),
     baudRate       |-> rate,
     Asic           |-> TRUE,          \* Device.Asic is set
     jobCount       |-> FALSE,         \* a job was sent
     hitStats       |-> [k \in 0 .. (statsRingSize - 1) |-> NoHits],
     hitStatsCursor |-> 0,
     reportCursor   |-> 0,
     pollingStart   |-> 0,
     NoResponseCtr  |-> [i \in Indices |-> 0],
     deadBoard      |-> FALSE]

NoBoard == NewBoard({}, "init")
Found   == ToSet(aa.actualChipIds)

Init ==
    /\ pc = "first"
    /\ aa = NoBoard
    /\ at = "top"
    /\ queue = 0
    /\ asked = {}
    /\ waiting = {}
    /\ baud \in {"init", "work"}
    /\ powered = TRUE
    /\ lost = 0
    /\ owed = Nobody
    /\ lapped = FALSE
    /\ rounds = <<>>

ChipsUnchanged   == UNCHANGED <<waiting, baud, powered, lost>>
HistoryUnchanged == UNCHANGED <<owed, lapped, rounds>>

-----------------------------------------------------------------------------
(* The process ends, and a supervisor starts it again.                     *)

Forget ==
    /\ aa' = NoBoard
    /\ at' = "top"
    /\ queue' = 0
    /\ asked' = {}
    /\ owed' = Nobody
    /\ lapped' = FALSE
    /\ rounds' = <<>>

Panic == pc' = "ended" /\ Forget /\ ChipsUnchanged

(* The new process powers the boards off and on and resets them, unless    *)
(* its accesses to them fail.                                              *)
Restart ==
    /\ pc = "ended"
    /\ pc' = "first"
    /\ powered' = TRUE
    /\ \/ baud' = "init" /\ waiting' = {}
       \/ powered /\ UNCHANGED <<baud, waiting>>
    /\ UNCHANGED <<aa, at, queue, asked, lost>>
    /\ HistoryUnchanged

-----------------------------------------------------------------------------
(* AsicDetect                                                              *)

Listens(rate) == powered /\ baud = rate

\* the chips that answer to ADDR_CHIP_UNIQUE, each counted once
Answers(rate) ==
    IF Listens(rate)
    THEN {found \in SUBSET ChipIds : found = {} \/ Cardinality(found) >= MinFound}
    ELSE {{}}

\* AuraAsic.close, which returns the chips to the first rate (if they hear it)
Close(rate) == \/ Listens(rate) /\ baud' = "init"
               \/ UNCHANGED baud

(* AuraAsicInit at the first rate, then setBaudRate: if that fails the     *)
(* board is not used for mining, but DVFS has it.  AuraAsicInit looks at   *)
(* the chip's version only if it could not read it, and then fails.        *)
FirstAttempt ==
    /\ pc = "first"
    /\ \E found \in Answers("init"), version \in BOOLEAN :
         \/ /\ found = {} \/ ~version
            /\ pc' = "second"
            /\ UNCHANGED <<aa, baud>>
         \/ /\ found # {} /\ version
            /\ pc' = "up"
            /\ \/ baud' = "work" /\ aa' = NewBoard(found, "work")
               \/ /\ baud' \in {"init", "work"}
                  /\ aa' = [NewBoard(found, "init") EXCEPT !.Asic = FALSE]
    /\ UNCHANGED <<at, queue, asked, waiting, powered, lost>>
    /\ HistoryUnchanged

(* The retry.  If it fails too its error is logged, and the first call     *)
(* on the board, which is nil, ends the process.                           *)
SecondAttempt ==
    /\ pc = "second"
    /\ \E found \in Answers("work"), version \in BOOLEAN :
         \/ /\ found = {} \/ ~version
            /\ pc' = "ended"
            /\ Close("work")
            /\ UNCHANGED aa
         \/ /\ found # {} /\ version
            /\ pc' = "up"
            /\ aa' = NewBoard(found, "work")
            /\ UNCHANGED baud
    /\ UNCHANGED <<at, queue, asked, waiting, powered, lost>>
    /\ HistoryUnchanged

-----------------------------------------------------------------------------
(* ReadRegsPipelined of one register of each target: which targets are     *)
(* missing, and whether it notices, which ends the process.                *)

Silent(targets) == IF Listens(aa.baudRate) THEN SUBSET targets ELSE {targets}

ReadRegsPipelined(targets) ==
    {read \in [silent : Silent(targets), noticed : BOOLEAN] :
        IF read.noticed THEN read.silent # {} ELSE read.silent = {} \/ read.silent # targets}

ReadAllPipelined(Then) ==
    \/ \E silent \in Silent(Found) : silent # {} /\ Panic
    \/ Listens(aa.baudRate) /\ Then

-----------------------------------------------------------------------------
(* CheckResults, which the device's Run calls over and over.               *)

SendJob ==
    /\ pc = "up" /\ aa.Asic
    /\ at = "top"
    /\ ~aa.jobCount
    /\ aa' = [aa EXCEPT !.jobCount = TRUE]
    /\ waiting' \in IF Listens(aa.baudRate) THEN {{}, waiting} ELSE {waiting}  \* clearResults
    /\ UNCHANGED <<pc, at, queue, asked, baud, powered, lost>>
    /\ HistoryUnchanged

\* the hits of each chip since the last reading, as far as they are believed
MutDelta(reading) ==
    [i \in Indices |-> IF ChipIndexToId(i) \in Found THEN reading[i] ELSE 0]
Delta(reading) ==
    LET d[i \in Indices] ==
            IF ChipIndexToId(i) \notin Found THEN 0
            ELSE IF reading[i] <= hitMax THEN reading[i]
            ELSE IF i = 0 THEN 0
            ELSE d[i - 1]
    IN  d

NextSlot(k) == (k + 1) % statsRingSize

\* (GenHit is counted the same way as TrueHit, from a second read.)
MutCountAhead(reading) ==
    LET cursor == NextSlot(aa.hitStatsCursor) IN
    /\ aa' = [aa EXCEPT !.hitStats[cursor] = Delta(reading), !.hitStatsCursor = cursor]
    /\ lapped' = (lapped \/ cursor = aa.reportCursor)
    /\ owed' = IF lapped' THEN Nobody
               ELSE [id \in ChipIds |-> owed[id] + Delta(reading)[ChipIdToIndex(id)]]
Record(reading) ==
    LET cursor == NextSlot(aa.hitStatsCursor) IN
    /\ aa' = [aa EXCEPT !.hitStats[aa.hitStatsCursor] = Delta(reading),
                        !.hitStatsCursor = cursor]
    /\ lapped' = (lapped \/ cursor = aa.reportCursor)
    /\ owed' = IF lapped' THEN Nobody
               ELSE [id \in ChipIds |-> owed[id] + Delta(reading)[ChipIdToIndex(id)]]

Counted ==
    /\ \E reading \in Readings : Record(reading)
    /\ at' = "hit"
    /\ UNCHANGED <<pc, queue, asked, rounds>>
    /\ ChipsUnchanged

checkHitCounters ==
    /\ pc = "up" /\ aa.Asic
    /\ at = "top"
    /\ aa.jobCount
    /\ ReadAllPipelined(Counted)

\* the counters are not due: they were read less than 5 s ago, or the last job is old
CountersNotDue ==
    /\ pc = "up" /\ aa.Asic
    /\ at = "top"
    /\ aa.jobCount
    /\ at' = "hit"
    /\ UNCHANGED <<pc, aa, queue, asked>>
    /\ ChipsUnchanged
    /\ HistoryUnchanged

\* CheckHitResult has one, which CheckResults returns
TakeHit ==
    /\ pc = "up"
    /\ at \in {"hit", "wait"}
    /\ queue > 0
    /\ queue' = queue - 1
    /\ at' = "top"
    /\ UNCHANGED <<pc, aa, asked>>
    /\ ChipsUnchanged
    /\ HistoryUnchanged

\* the slots of the ring from one cursor to the other
Between(from, to) ==
    IF from <= to THEN from .. (to - 1)
    ELSE (from .. (statsRingSize - 1)) \cup (0 .. (to - 1))

Unreported(id) ==
    MapThenSumSet(LAMBDA k : aa.hitStats[k][ChipIdToIndex(id)],
                  Between(aa.reportCursor, aa.hitStatsCursor))

\* there was no hit; the hash rates that were not yet reported are
Report ==
    /\ at' = "top"
    /\ IF aa.reportCursor = aa.hitStatsCursor
       THEN UNCHANGED <<aa, owed, lapped>>
       ELSE /\ aa' = [aa EXCEPT !.reportCursor = aa.hitStatsCursor]
            /\ owed' = IF lapped THEN Nobody ELSE [id \in ChipIds |-> owed[id] - Unreported(id)]
            /\ lapped' = FALSE
    /\ UNCHANGED <<pc, queue, rounds>>
    /\ ChipsUnchanged

\* no hit, and chips were polled less than 10 ms ago
PollNotDue ==
    /\ pc = "up"
    /\ at = "hit"
    /\ queue = 0
    /\ Report
    /\ UNCHANGED asked

MutPollStart == aa.pollingStart
PollStart == IF aa.pollingStart >= Len(aa.actualChipIds) THEN 0 ELSE aa.pollingStart

Ask(batch, silent, end) ==
    LET hits == waiting \cap (batch \ silent) IN
    /\ asked' = asked \cup hits
    /\ at' = IF hits = {} THEN "report" ELSE "wait"
    /\ aa' = [aa EXCEPT !.pollingStart = end]
    /\ silent # {} => lost < MaxLost
    /\ lost' = IF silent = {} THEN lost ELSE lost + 1
    /\ UNCHANGED <<pc, queue, waiting, baud, powered>>
    /\ HistoryUnchanged

(* The next chips in turn are asked how many hits they hold, and for them. *)
(* A chip holds one or none here, and two requests to a chip at the same   *)
(* time are as one: what the second one yields is empty and ignored.       *)
pollHitResults ==
    LET end   == Min({PollStart + PollBatch, Len(aa.actualChipIds)})
        batch == ToSet(SubSeq(aa.actualChipIds, PollStart + 1, end)) IN
    /\ pc = "up"
    /\ at = "hit"
    /\ queue = 0
    /\ \E read \in ReadRegsPipelined(batch) :
         IF read.noticed THEN Panic ELSE Ask(batch, read.silent, end)

\* nothing was there to wait for, or nothing came in 20 ms
GiveUpWaiting ==
    /\ pc = "up"
    /\ at = "report" \/ (at = "wait" /\ queue = 0)
    /\ Report
    /\ UNCHANGED asked

-----------------------------------------------------------------------------
(* The chips, and the requests for their hits.                             *)

Hit ==
    /\ pc = "up" /\ aa.jobCount
    /\ powered
    /\ Cardinality(waiting) + queue < MaxHits
    /\ \E id \in Found : waiting' = waiting \cup {id}
    /\ UNCHANGED <<pc, aa, at, queue, asked, baud, powered, lost>>
    /\ HistoryUnchanged

Answer(id) ==
    /\ pc = "up"
    /\ Listens(aa.baudRate)
    /\ id \in asked
    /\ asked' = asked \ {id}
    /\ waiting' = waiting \ {id}
    /\ queue' = IF id \in waiting THEN queue + 1 ELSE queue
    /\ UNCHANGED <<pc, aa, at, baud, powered, lost>>
    /\ HistoryUnchanged

\* the request is lost, or the answer and the hit with it
Lose ==
    /\ pc = "up"
    /\ lost < MaxLost
    /\ lost' = lost + 1
    /\ \E id \in asked :
         /\ asked' = asked \ {id}
         /\ waiting' \in {waiting, waiting \ {id}}
    /\ UNCHANGED <<pc, aa, at, queue, baud, powered>>
    /\ HistoryUnchanged

-----------------------------------------------------------------------------
(* DVFS                                                                    *)

\* temperatures and voltages, of the boards given up too
monitorTempVolt ==
    /\ pc = "up"
    /\ ReadAllPipelined(UNCHANGED vars)

\* the counter is only compared with the limit, and stays just above it here
OneMore(n) == Min({n + 1, noResponseLimit + 1})

(* One round of reading the counters: the chips in toRetry missed one of   *)
(* their two in the first pass (each batch of it was answered in part),    *)
(* those in silent both in the second.                                     *)
MutNotReset(toRetry, silent) ==
    [i \in Indices |->
        IF ChipIndexToId(i) \in silent THEN OneMore(aa.NoResponseCtr[i])
        ELSE IF ChipIndexToId(i) \in toRetry THEN 0
        ELSE aa.NoResponseCtr[i]]
NoResponse(toRetry, silent) ==
    [i \in Indices |-> IF ChipIndexToId(i) \in silent THEN OneMore(aa.NoResponseCtr[i]) ELSE 0]

(* The board is given up: no more power, and reset, if that works.         *)
MarkDead ==
    \/ powered' = FALSE /\ baud' = "init" /\ waiting' = {}
    \/ UNCHANGED <<powered, baud, waiting>>

getHitCountersBoard ==
    /\ pc = "up"
    /\ ~aa.deadBoard
    /\ \/ \E toRetry \in SUBSET Found :
            /\ Listens(aa.baudRate)
            /\ \E silent \in SUBSET (toRetry \cap Faulty) :
                 LET ctr  == NoResponse(toRetry, silent)
                     gone == {id \in silent : ctr[ChipIdToIndex(id)] > noResponseLimit}
                     dead == Cardinality(gone) > maxDeadAsics IN
                 /\ silent # toRetry \/ toRetry = {}
                 /\ aa' = [aa EXCEPT !.NoResponseCtr = ctr, !.deadBoard = dead]
                 /\ IF dead THEN MarkDead ELSE UNCHANGED <<powered, baud, waiting>>
                 /\ rounds' = SubSeq(<<silent>> \o rounds, 1,
                                      Min({noResponseLimit + 1, Len(rounds) + 1}))
            /\ UNCHANGED <<pc, at, queue, asked, lost, owed, lapped>>
       \/ \E silent \in Silent(Found) : silent # {} /\ Panic

-----------------------------------------------------------------------------
Next ==
    \/ Restart \/ FirstAttempt \/ SecondAttempt
    \/ SendJob \/ checkHitCounters \/ CountersNotDue \/ TakeHit
    \/ pollHitResults \/ PollNotDue \/ GiveUpWaiting
    \/ Hit \/ (\E id \in ChipIds : Answer(id)) \/ Lose
    \/ monitorTempVolt \/ getHitCountersBoard

(* The device's Run calls CheckResults again and again; as it does so it   *)
(* finds the 10 ms over at some call (SF).  A chip that listens answers,   *)
(* unless the answer is lost.                                              *)
Spec ==
    /\ Init
    /\ [][Next]_vars
    /\ WF_vars(CountersNotDue \/ checkHitCounters) /\ WF_vars(TakeHit)
    /\ WF_vars(PollNotDue \/ GiveUpWaiting) /\ SF_vars(pollHitResults)
    /\ \A id \in ChipIds : WF_vars(Answer(id))

-----------------------------------------------------------------------------

\* The tables of a board speak of its chips only, the counters are within
\* what DVFS tolerates, and what is asked for is of chips that were found.
TypeOK ==
    /\ pc \in {"ended", "first", "second", "up"}
    /\ at \in {"top", "hit", "wait", "report"}
    /\ ToSet(aa.actualChipIds) \subseteq ChipIds
    /\ aa.baudRate \in {"init", "work"} /\ baud \in {"init", "work"}
    /\ aa.Asic \in BOOLEAN /\ aa.jobCount \in BOOLEAN /\ aa.deadBoard \in BOOLEAN
    /\ aa.hitStats \in [0 .. (statsRingSize - 1) -> [Indices -> 0 .. hitMax]]
    /\ aa.hitStatsCursor \in 0 .. (statsRingSize - 1)
    /\ aa.reportCursor \in 0 .. (statsRingSize - 1)
    /\ aa.pollingStart \in 0 .. NumChips
    /\ aa.NoResponseCtr \in [Indices -> 0 .. (noResponseLimit + 1)]
    /\ asked \subseteq Found /\ waiting \subseteq ChipIds
    /\ queue \in 0 .. MaxHits
    /\ powered \in BOOLEAN /\ lost \in 0 .. MaxLost /\ lapped \in BOOLEAN

\* Every hit that was recorded is reported once, unless the ring was full
\* before a report: then a whole ring of readings is lost.
HitsAccounted == lapped \/ \A id \in ChipIds : owed[id] = Unreported(id)

\* A board is given up only if more chips of it than the configuration allows
\* (half of MaxAsicsInChain) have been silent in each of the last rounds,
\* noResponseLimit and one more; the same chips in all of them.
GivenUpRightly ==
    [][aa'.deadBoard /\ ~aa.deadBoard =>
        /\ Len(rounds') = noResponseLimit + 1
        /\ Cardinality({id \in ChipIds : \A k \in DOMAIN rounds' : id \in rounds'[k]})
             > maxDeadAsics]_vars

\* A hit that a chip of a board in use holds is fetched, whatever the others
\* find meanwhile, unless the process ends.
HitsCollected ==
    \A id \in ChipIds :
        (pc = "up" /\ aa.Asic /\ aa.jobCount /\ id \in waiting)
            ~> (pc = "ended" \/ id \notin waiting)
=============================================================================
