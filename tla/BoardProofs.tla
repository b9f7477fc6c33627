------------------------------ MODULE BoardProofs ------------------------------
(***************************************************************************)
(* Boards of any number of chips and any limits.  A board is given up for  *)
(* a reason: the counter of a chip never says more than what the last      *)
(* rounds have seen of it.  And hits that were counted are reported once:  *)
(* the ring holds what is owed, between its two cursors.  What the second  *)
(* needs of sums and of recursion is proved from well-founded orderings.   *)
(***************************************************************************)
EXTENDS Board, FiniteSetTheorems, TLAPS

Fields == {"actualChipIds", "baudRate", "Asic", "jobCount", "hitStats", "hitStatsCursor",
           "reportCursor", "pollingStart", "NoResponseCtr", "deadBoard"}

Counters == aa.NoResponseCtr

\* a chip's counter is justified by the rounds that are remembered
Justified(i) ==
    /\ Counters[i] <= Len(rounds)
    /\ \A k \in 1 .. Counters[i] : ChipIndexToId(i) \in rounds[k]

CounterInv ==
    /\ DOMAIN aa = Fields
    /\ Counters \in [Indices -> 0 .. (noResponseLimit + 1)]
    /\ rounds \in Seq(SUBSET ChipIds)
    /\ Len(rounds) <= noResponseLimit + 1
    /\ \A i \in Indices : Justified(i)

-----------------------------------------------------------------------------
(* Numbers and chips.                                                      *)

\* Min of two integers is the smaller one
LEMMA MinOfTwo ==
    ASSUME NEW a \in Int, NEW b \in Int
    PROVE  Min({a, b}) = IF a <= b THEN a ELSE b
<1> DEFINE m == IF a <= b THEN a ELSE b
<1>1. m \in {a, b} /\ \A y \in {a, b} : m <= y
  OBVIOUS
<1>2. \A x \in {a, b} : (\A y \in {a, b} : x <= y) => x = m
  OBVIOUS
<1> QED
  BY <1>1, <1>2 DEF Min

\* the board has as many chips as its two ranges
LEMMA ChipCount ==
    /\ IsFiniteSet(ChipIds)
    /\ NumChips = LowHigh + 1 + HiHigh - HiLow + 1
    /\ maxDeadAsics \in Nat
<1> DEFINE Low == 0 .. LowHigh
           High == HiLow .. HiHigh
<1>1. IsFiniteSet(Low) /\ Cardinality(Low) = LowHigh + 1
  BY FS_Interval, ChipAssumption
<1>2. IsFiniteSet(High) /\ Cardinality(High) = HiHigh - HiLow + 1
  BY FS_Interval, ChipAssumption
<1>3. Low \cap High = {}
  BY ChipAssumption
<1> HIDE DEF Low, High
<1>4. IsFiniteSet(Low \cup High)
      /\ Cardinality(Low \cup High) = Cardinality(Low) + Cardinality(High) - Cardinality({})
  BY <1>1, <1>2, <1>3, FS_Union
<1>5. Cardinality({}) = 0
  BY FS_EmptySet
<1>6. IsFiniteSet(ChipIds) /\ NumChips = LowHigh + 1 + HiHigh - HiLow + 1
  BY <1>1, <1>2, <1>4, <1>5, ChipAssumption DEF ChipIds, NumChips, Low, High
<1>7. maxDeadAsics \in Nat
  BY SizeAssumption DEF maxDeadAsics
<1> QED
  BY <1>6, <1>7

\* each chip has an index of its own, from which its ID is found again
LEMMA IndexOfChip ==
    ASSUME NEW id \in ChipIds
    PROVE  ChipIdToIndex(id) \in Indices /\ ChipIndexToId(ChipIdToIndex(id)) = id
BY ChipCount, ChipAssumption DEF ChipIds, Indices, ChipIdToIndex, ChipIndexToId

\* a counter that goes up stays in its range, and goes up by one at most
LEMMA OneMoreBound ==
    ASSUME NEW n \in 0 .. (noResponseLimit + 1)
    PROVE  OneMore(n) \in 1 .. (noResponseLimit + 1) /\ OneMore(n) <= n + 1
BY MinOfTwo, SizeAssumption DEF OneMore

-----------------------------------------------------------------------------
(* One round of reading the counters.                                      *)

\* the rounds that are remembered after one in which the silent did not answer
Remembered(silent) ==
    SubSeq(<<silent>> \o rounds, 1, Min({noResponseLimit + 1, Len(rounds) + 1}))

\* the new round comes first, and the others move by one
LEMMA RoundsShift ==
    ASSUME CounterInv, NEW silent \in SUBSET ChipIds
    PROVE  /\ Remembered(silent) \in Seq(SUBSET ChipIds)
           /\ Len(Remembered(silent)) <= noResponseLimit + 1
           /\ Len(Remembered(silent)) <= Len(rounds) + 1
           /\ \/ Len(Remembered(silent)) = Len(rounds) + 1
              \/ Len(Remembered(silent)) = noResponseLimit + 1
           /\ Remembered(silent)[1] = silent
           /\ \A k \in 2 .. Len(Remembered(silent)) : Remembered(silent)[k] = rounds[k - 1]
<1> DEFINE m == Min({noResponseLimit + 1, Len(rounds) + 1})
           long == <<silent>> \o rounds
<1>1. Len(rounds) \in Nat /\ noResponseLimit \in Nat /\ rounds \in Seq(SUBSET ChipIds)
  BY SizeAssumption DEF CounterInv
<1>2. /\ m \in 1 .. (Len(rounds) + 1) /\ m <= noResponseLimit + 1
      /\ m = Len(rounds) + 1 \/ m = noResponseLimit + 1
  BY <1>1, MinOfTwo
<1>3. /\ long \in Seq(SUBSET ChipIds) /\ Len(long) = Len(rounds) + 1
      /\ long[1] = silent
      /\ \A k \in 2 .. Len(long) : long[k] = rounds[k - 1]
  BY <1>1
<1> HIDE DEF m, long
<1>4. /\ SubSeq(long, 1, m) \in Seq(SUBSET ChipIds) /\ Len(SubSeq(long, 1, m)) = m
      /\ \A k \in 1 .. m : SubSeq(long, 1, m)[k] = long[k]
  BY <1>1, <1>2, <1>3
<1>5. Remembered(silent) = SubSeq(long, 1, m)
  BY DEF Remembered, long, m
<1> QED
  BY <1>1, <1>2, <1>3, <1>4, <1>5

\* what a round does that ends well
Round(silent) ==
    LET ctr == NoResponse({}, silent)
        gone == {id \in silent : ctr[ChipIdToIndex(id)] > noResponseLimit} IN
    /\ aa' = [aa EXCEPT !.NoResponseCtr = ctr,
                        !.deadBoard = Cardinality(gone) > maxDeadAsics]
    /\ rounds' = Remembered(silent)

\* reading the counters does nothing else to them, or ends the process
LEMMA ReadingIsARound ==
    ASSUME getHitCountersBoard
    PROVE  (\E silent \in SUBSET ChipIds : Round(silent)) \/ Panic
<1>1. ASSUME NEW toRetry \in SUBSET Found, NEW silent \in SUBSET (toRetry \cap Faulty),
             LET ctr == NoResponse(toRetry, silent)
                 gone == {id \in silent : ctr[ChipIdToIndex(id)] > noResponseLimit} IN
             /\ aa' = [aa EXCEPT !.NoResponseCtr = ctr,
                                 !.deadBoard = Cardinality(gone) > maxDeadAsics]
             /\ rounds' = Remembered(silent)
      PROVE  silent \in SUBSET ChipIds /\ Round(silent)
  <2>1. silent \in SUBSET ChipIds
    BY BoundAssumption
  <2>2. NoResponse(toRetry, silent) = NoResponse({}, silent)
    BY DEF NoResponse
  <2> QED
    BY <1>1, <2>1, <2>2 DEF Round
<1> QED
  BY <1>1 DEF getHitCountersBoard, Remembered

\* a round keeps every counter justified
LEMMA RoundKeeps ==
    ASSUME CounterInv, NEW silent \in SUBSET ChipIds, Round(silent)
    PROVE  CounterInv'
<1>1. DOMAIN aa' = Fields /\ Counters' = NoResponse({}, silent)
  BY DEF Round, CounterInv, Fields, Counters
<1>2. \A i \in Indices : Counters'[i] = IF ChipIndexToId(i) \in silent
                                        THEN OneMore(Counters[i]) ELSE 0
  BY <1>1 DEF NoResponse, Counters
<1>3. Counters' \in [Indices -> 0 .. (noResponseLimit + 1)]
  <2>1. \A i \in Indices : OneMore(Counters[i]) \in 0 .. (noResponseLimit + 1)
    <3> SUFFICES ASSUME NEW i \in Indices
                 PROVE  OneMore(Counters[i]) \in 0 .. (noResponseLimit + 1)
      OBVIOUS
    <3> DEFINE n == Counters[i]
    <3>1. n \in 0 .. (noResponseLimit + 1)
      BY DEF CounterInv
    <3> HIDE DEF n
    <3>2. OneMore(n) \in 1 .. (noResponseLimit + 1)
      BY <3>1, OneMoreBound
    <3> QED
      BY <3>2, SizeAssumption DEF n
  <2> QED
    BY <1>1, <2>1, SizeAssumption DEF NoResponse, Counters
<1>4. rounds' \in Seq(SUBSET ChipIds) /\ Len(rounds') <= noResponseLimit + 1
  BY RoundsShift DEF Round
<1>5. ASSUME NEW i \in Indices
      PROVE  Justified(i)'
  <2>1. CASE ChipIndexToId(i) \notin silent
    BY <1>2, <1>4, <2>1 DEF Justified, Counters
  <2>2. CASE ChipIndexToId(i) \in silent
    <3> DEFINE c == Counters[i]
    <3>1. c \in 0 .. (noResponseLimit + 1) /\ c <= Len(rounds)
      BY DEF CounterInv, Justified
    <3>2. Counters'[i] \in 1 .. (noResponseLimit + 1) /\ Counters'[i] <= c + 1
      BY <1>2, <2>2, <3>1, OneMoreBound
    <3>3. Counters'[i] <= Len(rounds')
      BY <3>1, <3>2, RoundsShift, SizeAssumption DEF Round, CounterInv
    <3>4. ASSUME NEW k \in 1 .. Counters'[i]
          PROVE  ChipIndexToId(i) \in rounds'[k]
      <4>1. CASE k = 1
        BY <2>2, <4>1, RoundsShift DEF Round
      <4>2. CASE k # 1
        <5>1. k \in 2 .. Len(rounds') /\ k - 1 \in 1 .. c
          BY <1>4, <3>1, <3>2, <3>3, <4>2
        <5>2. rounds'[k] = rounds[k - 1]
          BY <5>1, RoundsShift DEF Round
        <5> QED
          BY <5>1, <5>2 DEF CounterInv, Justified
      <4> QED
        BY <4>1, <4>2
    <3> QED
      BY <3>3, <3>4 DEF Justified, Counters
  <2> QED
    BY <2>1, <2>2
<1> QED
  BY <1>1, <1>3, <1>4, <1>5 DEF CounterInv

\* a round that gives the board up follows enough others
LEMMA RoundGivesUp ==
    ASSUME CounterInv, CounterInv', NEW silent \in SUBSET ChipIds, Round(silent),
           aa'.deadBoard
    PROVE  /\ Len(rounds') = noResponseLimit + 1
           /\ Cardinality({id \in ChipIds : \A k \in DOMAIN rounds' : id \in rounds'[k]})
                > maxDeadAsics
<1> DEFINE ctr == NoResponse({}, silent)
           gone == {id \in silent : ctr[ChipIdToIndex(id)] > noResponseLimit}
           mute == {id \in ChipIds : \A k \in DOMAIN rounds' : id \in rounds'[k]}
<1>1. Counters' = ctr /\ Cardinality(gone) > maxDeadAsics
  BY DEF Round, CounterInv, Fields, Counters
<1>2. ASSUME NEW id \in gone
      PROVE  Len(rounds') = noResponseLimit + 1 /\ id \in mute
  <2>1. id \in ChipIds /\ ChipIdToIndex(id) \in Indices /\ ChipIndexToId(ChipIdToIndex(id)) = id
    BY IndexOfChip
  <2>2. Counters'[ChipIdToIndex(id)] = noResponseLimit + 1
    BY <1>1, <2>1, SizeAssumption DEF CounterInv
  <2>3. Justified(ChipIdToIndex(id))' /\ Len(rounds') <= noResponseLimit + 1
        /\ rounds' \in Seq(SUBSET ChipIds)
    BY <2>1 DEF CounterInv
  <2>4. /\ noResponseLimit + 1 <= Len(rounds')
        /\ \A k \in 1 .. (noResponseLimit + 1) : id \in rounds'[k]
    BY <2>1, <2>2, <2>3 DEF Justified
  <2>5. Len(rounds') = noResponseLimit + 1 /\ DOMAIN rounds' = 1 .. (noResponseLimit + 1)
    BY <2>3, <2>4, SizeAssumption
  <2> QED
    BY <2>1, <2>4, <2>5
<1>3. IsFiniteSet(mute) /\ gone \subseteq mute
  BY <1>2, ChipCount, FS_Subset
<1>4. Cardinality(gone) <= Cardinality(mute) /\ IsFiniteSet(gone)
  BY <1>3, FS_Subset
<1>5. Cardinality(mute) > maxDeadAsics
  <2>1. Cardinality(gone) \in Nat /\ Cardinality(mute) \in Nat
    BY <1>3, <1>4, FS_CardinalityType
  <2> QED
    BY <1>1, <1>4, <2>1, ChipCount
<1>6. gone # {}
  BY <1>1, FS_EmptySet, ChipCount
<1> QED
  BY <1>2, <1>5, <1>6

-----------------------------------------------------------------------------
(* The other steps.                                                        *)

\* a step that leaves the counters and the rounds alone
CountersKept == DOMAIN aa' = DOMAIN aa /\ UNCHANGED <<Counters, rounds>>

\* the board as a process begins with it, or finds it, has no counts
LEMMA FreshBoard ==
    ASSUME NEW found, NEW rate
    PROVE  /\ DOMAIN NewBoard(found, rate) = Fields
           /\ NewBoard(found, rate).NoResponseCtr = [i \in Indices |-> 0]
           /\ NewBoard(found, rate).deadBoard = FALSE
BY DEF NewBoard, Fields

\* a board without counts is as the invariant has it, whatever the rounds
LEMMA NoCounts ==
    ASSUME DOMAIN aa = Fields, Counters = [i \in Indices |-> 0],
           rounds \in Seq(SUBSET ChipIds), Len(rounds) <= noResponseLimit + 1
    PROVE  CounterInv
BY SizeAssumption DEF CounterInv, Justified

\* detection and the end of a process leave a board without counts
LEMMA BoardRenewed ==
    ASSUME CounterInv, Panic \/ FirstAttempt \/ SecondAttempt
    PROVE  CounterInv' /\ ~(aa'.deadBoard /\ ~aa.deadBoard)
<1>1. CASE Panic
  <2>1. DOMAIN aa' = Fields /\ Counters' = [i \in Indices |-> 0] /\ ~aa'.deadBoard
    BY <1>1, FreshBoard DEF Panic, Forget, NoBoard, Counters
  <2>2. rounds' = <<>>
    BY <1>1 DEF Panic, Forget
  <2> QED
    BY <2>1, <2>2, SizeAssumption DEF CounterInv, Justified
<1>2. CASE FirstAttempt \/ SecondAttempt
  <2>1. rounds' = rounds
    BY <1>2 DEF FirstAttempt, SecondAttempt, HistoryUnchanged
  <2>2. \/ aa' = aa
        \/ \E found, rate : aa' = NewBoard(found, rate)
        \/ \E found, rate : aa' = [NewBoard(found, rate) EXCEPT !.Asic = FALSE]
    BY <1>2 DEF FirstAttempt, SecondAttempt
  <2>3. CASE aa' = aa
    BY <2>1, <2>3 DEF CounterInv, Justified, Counters
  <2>4. CASE aa' # aa
    <3>1. DOMAIN aa' = Fields /\ Counters' = [i \in Indices |-> 0] /\ aa'.deadBoard = FALSE
      <4>1. CASE \E found, rate : aa' = NewBoard(found, rate)
        <5>1. PICK found, rate : aa' = NewBoard(found, rate)
          BY <4>1
        <5>2. /\ DOMAIN NewBoard(found, rate) = Fields
              /\ NewBoard(found, rate).NoResponseCtr = [i \in Indices |-> 0]
              /\ NewBoard(found, rate).deadBoard = FALSE
          BY FreshBoard
        <5> QED
          BY <5>1, <5>2 DEF Counters
      <4>2. CASE \E found, rate : aa' = [NewBoard(found, rate) EXCEPT !.Asic = FALSE]
        <5>1. PICK found, rate : aa' = [NewBoard(found, rate) EXCEPT !.Asic = FALSE]
          BY <4>2
        <5>2. /\ DOMAIN NewBoard(found, rate) = Fields
              /\ NewBoard(found, rate).NoResponseCtr = [i \in Indices |-> 0]
              /\ NewBoard(found, rate).deadBoard = FALSE
          BY FreshBoard
        <5> QED
          BY <5>1, <5>2 DEF Counters, Fields
      <4> QED
        BY <2>2, <2>4, <4>1, <4>2
    <3> QED
      BY <2>1, <3>1, SizeAssumption DEF CounterInv, Justified
  <2> QED
    BY <2>3, <2>4
<1> QED
  BY <1>1, <1>2

\* steps of the device's Run and of the chips, which the counters do not see
Others ==
    \/ Restart \/ SendJob \/ checkHitCounters \/ CountersNotDue \/ TakeHit
    \/ pollHitResults \/ PollNotDue \/ GiveUpWaiting
    \/ Hit \/ (\E id \in ChipIds : Answer(id)) \/ Lose
    \/ monitorTempVolt

\* they leave the counters alone, or end the process
LEMMA OthersKeep ==
    ASSUME CounterInv, Others
    PROVE  Panic \/ (CountersKept /\ aa'.deadBoard = aa.deadBoard)
<1> USE DEF CountersKept, Counters, HistoryUnchanged
<1>1. CASE Restart
  BY <1>1 DEF Restart
<1>2. CASE SendJob
  BY <1>2 DEF SendJob, CounterInv, Fields
<1>3. CASE checkHitCounters
  <2>1. ASSUME Counted PROVE CountersKept /\ aa'.deadBoard = aa.deadBoard
    <3>1. PICK reading \in Readings : Record(reading)
      BY <2>1 DEF Counted
    <3>2. rounds' = rounds
      BY <2>1 DEF Counted
    <3> QED
      BY <3>1, <3>2 DEF Record, CounterInv, Fields
  <2> QED
    BY <1>3, <2>1 DEF checkHitCounters, ReadAllPipelined
<1>4. CASE CountersNotDue
  BY <1>4 DEF CountersNotDue
<1>5. CASE TakeHit
  BY <1>5 DEF TakeHit
<1>6. CASE pollHitResults
  <2>1. ASSUME NEW batch, NEW silent, NEW end, Ask(batch, silent, end)
        PROVE  CountersKept /\ aa'.deadBoard = aa.deadBoard
    BY <2>1 DEF Ask, CounterInv, Fields
  <2> QED
    BY <1>6, <2>1 DEF pollHitResults
<1>7. CASE PollNotDue \/ GiveUpWaiting
  BY <1>7 DEF PollNotDue, GiveUpWaiting, Report, CounterInv, Fields
<1>8. CASE Hit \/ (\E id \in ChipIds : Answer(id)) \/ Lose
  BY <1>8 DEF Hit, Answer, Lose
<1>9. CASE monitorTempVolt
  BY <1>9 DEF monitorTempVolt, ReadAllPipelined, vars
<1> QED
  BY <1>1, <1>2, <1>3, <1>4, <1>5, <1>6, <1>7, <1>8, <1>9 DEF Others

-----------------------------------------------------------------------------

\* what GivenUpRightly says of one step
GivesUpRightly ==
    aa'.deadBoard /\ ~aa.deadBoard =>
        /\ Len(rounds') = noResponseLimit + 1
        /\ Cardinality({id \in ChipIds : \A k \in DOMAIN rounds' : id \in rounds'[k]})
             > maxDeadAsics

\* a board starts without counts
LEMMA InitCounters == Init => CounterInv
<1> SUFFICES ASSUME Init PROVE CounterInv
  OBVIOUS
<1>1. DOMAIN aa = Fields /\ Counters = [i \in Indices |-> 0]
  BY FreshBoard DEF Init, NoBoard, Counters
<1>2. rounds = <<>>
  BY DEF Init
<1> QED
  BY <1>1, <1>2, NoCounts, SizeAssumption

\* every step keeps the invariant, and gives a board up only for a reason
LEMMA StepCounters ==
    ASSUME CounterInv, [Next]_vars
    PROVE  CounterInv' /\ GivesUpRightly
<1>1. CASE Panic \/ FirstAttempt \/ SecondAttempt
  BY <1>1, BoardRenewed DEF GivesUpRightly
<1>2. ASSUME CountersKept, aa'.deadBoard = aa.deadBoard
      PROVE  CounterInv' /\ GivesUpRightly
  BY <1>2 DEF CountersKept, CounterInv, Justified, Counters, GivesUpRightly
<1>3. CASE getHitCountersBoard
  <2>1. CASE Panic
    BY <1>1, <2>1
  <2>2. ASSUME NEW silent \in SUBSET ChipIds, Round(silent)
        PROVE  CounterInv' /\ GivesUpRightly
    BY <2>2, RoundKeeps, RoundGivesUp DEF GivesUpRightly
  <2> QED
    BY <1>3, <2>1, <2>2, ReadingIsARound
<1>4. CASE Others
  BY <1>1, <1>2, <1>4, OthersKeep
<1>5. CASE UNCHANGED vars
  BY <1>2, <1>5 DEF vars, CountersKept, Counters
<1> QED
  BY <1>1, <1>3, <1>4, <1>5 DEF Next, Others

\* DVFS gives a board up only if more chips of it than half the configured
\* MaxAsicsInChain (whatever that is, and however many chips the board has)
\* were silent in each of as many rounds as it tolerates and one more: a
\* chip's counter (NoResponseCtr of dvfs2.go) never says more than the rounds do.
THEOREM BoardGivenUpRightly == Spec => GivenUpRightly
<1>1. CounterInv /\ [Next]_vars
        => [aa'.deadBoard /\ ~aa.deadBoard =>
              /\ Len(rounds') = noResponseLimit + 1
              /\ Cardinality({id \in ChipIds : \A k \in DOMAIN rounds' : id \in rounds'[k]})
                   > maxDeadAsics]_vars
  BY StepCounters DEF GivesUpRightly
<1>2. CounterInv /\ [Next]_vars => CounterInv'
  BY StepCounters
<1> QED
  BY <1>1, <1>2, InitCounters, PTL DEF Spec, GivenUpRightly

-----------------------------------------------------------------------------
(* Recursion.  The library's theorems of induction take an operator; what  *)
(* follows takes a smallest counterexample, which WFMin gives.             *)

\* among sets of members of a finite set one has no other as a part
LEMMA SmallestSet ==
    ASSUME NEW U, IsFiniteSet(U), NEW T \in SUBSET SUBSET U, T # {}
    PROVE  \E s \in T : \A r \in SUBSET s : r # s => r \notin T
<1> DEFINE R == StrictSubsetOrdering(U)
           F == FiniteSubsetsOf(U)
<1>1. IsWellFoundedOn(R, F)
  BY FS_StrictSubsetOrderingWellFounded
<1>2. T \subseteq F
  BY FS_FiniteSubsetsOfFinite
<1>3. \E s \in T : \A r \in T : <<r, s>> \notin R
  <2> HIDE DEF R, F
  <2> QED
    BY <1>1, <1>2, WFMin
<1> QED
  BY <1>2, <1>3 DEF StrictSubsetOrdering

\* among numbers one is the least
LEMMA LeastNumber ==
    ASSUME NEW T \in SUBSET Nat, T # {}
    PROVE  \E n \in T : \A m \in Nat : m < n => m \notin T
<1> DEFINE R == OpToRel(<, Nat)
<1>1. IsWellFoundedOn(R, Nat)
  BY NatLessThanWellFounded
<1>2. \E n \in T : \A m \in T : <<m, n>> \notin R
  <2> HIDE DEF R
  <2> QED
    BY <1>1, WFMin
<1> QED
  BY <1>2 DEF OpToRel

-----------------------------------------------------------------------------
(* Sums, which MapThenSumSet takes over a set in an order of its choice.   *)

Member(S) == CHOOSE x \in S : TRUE

\* what chip i counted in the readings of the slots in S
SumOver(stats, i, S) == MapThenSumSet(LAMBDA k : stats[k][i], S)

\* sum holds the sums over the parts of S
Sums(stats, i, S, sum) ==
    sum = [s \in SUBSET S |-> IF s = {} THEN 0
                              ELSE stats[Member(s)][i] + sum[s \ {Member(s)}]]

\* a sum is what the fold has for the whole set
LEMMA SumIsAFold ==
    ASSUME NEW stats, NEW i, NEW S
    PROVE  SumOver(stats, i, S) = (CHOOSE sum : Sums(stats, i, S, sum))[S]
BY DEF SumOver, MapThenSumSet, MapThenFoldSet, Sums, Member

\* two such tables say the same of the parts of S
Agree(S, sum, sum1) == \A s \in SUBSET S : sum[s] = sum1[s]

\* the sums over parts do not depend on the set they are parts of
LEMMA SumsAgree ==
    ASSUME NEW stats, NEW i, NEW S, IsFiniteSet(S), NEW S1, NEW sum, NEW sum1,
           S \subseteq S1, Sums(stats, i, S, sum), Sums(stats, i, S1, sum1)
    PROVE  Agree(S, sum, sum1)
<1> DEFINE T == {s \in SUBSET S : sum[s] # sum1[s]}
<1> SUFFICES ASSUME T # {} PROVE FALSE
  BY DEF Agree
<1>1. PICK s \in T : \A r \in SUBSET s : r # s => r \notin T
  <2>1. T \in SUBSET SUBSET S
    OBVIOUS
  <2> HIDE DEF T
  <2> QED
    BY <2>1, SmallestSet
<1>2. s # {}
  BY DEF Sums
<1>3. Member(s) \in s
  BY <1>2 DEF Member
<1>4. sum[s \ {Member(s)}] = sum1[s \ {Member(s)}]
  BY <1>1, <1>3
<1>5. /\ sum[s] = stats[Member(s)][i] + sum[s \ {Member(s)}]
      /\ sum1[s] = stats[Member(s)][i] + sum1[s \ {Member(s)}]
  BY <1>2 DEF Sums
<1> QED
  BY <1>4, <1>5

\* the sums over the parts of a finite set exist
LEMMA SumsExist ==
    ASSUME NEW stats, NEW i, NEW S, IsFiniteSet(S)
    PROVE  \E sum : Sums(stats, i, S, sum)
<1> DEFINE T == {s \in SUBSET S : ~ \E sum : Sums(stats, i, s, sum)}
<1> SUFFICES ASSUME T # {} PROVE FALSE
  OBVIOUS
<1>1. PICK S1 \in T : \A r \in SUBSET S1 : r # S1 => r \notin T
  <2>1. T \in SUBSET SUBSET S
    OBVIOUS
  <2> HIDE DEF T
  <2> QED
    BY <2>1, SmallestSet
<1> DEFINE Of(s) == CHOOSE sum : Sums(stats, i, s, sum)
           Rest(s) == s \ {Member(s)}
           all == [s \in SUBSET S1 |-> IF s = {} THEN 0
                                       ELSE stats[Member(s)][i] + Of(Rest(s))[Rest(s)]]
<1>2. ASSUME NEW s \in SUBSET S1, s # S1
      PROVE  Sums(stats, i, s, Of(s))
  BY <1>1, <1>2
<1>3. ASSUME NEW s \in SUBSET S1, s # {}
      PROVE  Member(s) \in s /\ Rest(s) \in SUBSET S1 /\ Rest(s) # S1
  BY <1>3 DEF Member
<1>4. ASSUME NEW r \in SUBSET S1, r # S1
      PROVE  all[r] = Of(r)[r]
  <2>1. Sums(stats, i, r, Of(r))
    BY <1>2, <1>4
  <2>2. CASE r = {}
    BY <2>1, <2>2 DEF Sums
  <2>3. CASE r # {}
    <3>1. Rest(r) \in SUBSET r /\ Rest(r) # S1 /\ IsFiniteSet(Rest(r))
      BY <1>3, <1>4, <2>3, FS_Subset
    <3>2. Sums(stats, i, Rest(r), Of(Rest(r)))
      BY <1>2, <3>1
    <3> HIDE DEF Of
    <3>3. Of(Rest(r))[Rest(r)] = Of(r)[Rest(r)]
      BY <2>1, <3>1, <3>2, SumsAgree DEF Agree
    <3>4. Of(r)[r] = stats[Member(r)][i] + Of(r)[Rest(r)]
      BY <2>1, <2>3 DEF Sums
    <3> QED
      BY <1>4, <2>3, <3>3, <3>4
  <2> QED
    BY <2>2, <2>3
<1> HIDE DEF Of
<1>5. Sums(stats, i, S1, all)
  BY <1>3, <1>4 DEF Sums
<1> QED
  BY <1>1, <1>5

\* a sum over a finite set is taken by leaving out some member
LEMMA SumStep ==
    ASSUME NEW stats, NEW i, NEW S, IsFiniteSet(S)
    PROVE  SumOver(stats, i, S) =
             IF S = {} THEN 0 ELSE stats[Member(S)][i] + SumOver(stats, i, S \ {Member(S)})
<1> DEFINE Of(s) == CHOOSE sum : Sums(stats, i, s, sum)
           rest == S \ {Member(S)}
<1>1. IsFiniteSet(rest)
  BY FS_Subset
<1>2. Sums(stats, i, S, Of(S)) /\ Sums(stats, i, rest, Of(rest))
  BY <1>1, SumsExist
<1>3. SumOver(stats, i, S) = Of(S)[S] /\ SumOver(stats, i, rest) = Of(rest)[rest]
  BY SumIsAFold
<1> HIDE DEF Of
<1>4. Of(rest)[rest] = Of(S)[rest]
  <2>1. rest \subseteq S /\ rest \in SUBSET rest
    OBVIOUS
  <2> DEFINE less == Of(rest)
             more == Of(S)
  <2>2. Sums(stats, i, rest, less) /\ Sums(stats, i, S, more)
    BY <1>2
  <2> HIDE DEF rest, less, more
  <2>3. Agree(rest, less, more)
    BY <1>1, <2>1, <2>2, SumsAgree
  <2> QED
    BY <2>1, <2>3 DEF less, more, Agree
<1>5. Of(S)[S] = IF S = {} THEN 0 ELSE stats[Member(S)][i] + Of(S)[rest]
  BY <1>2 DEF Sums
<1> QED
  BY <1>3, <1>4, <1>5

\* a sum of integers is one
LEMMA SumType ==
    ASSUME NEW stats, NEW i, NEW S, IsFiniteSet(S), \A k \in S : stats[k][i] \in Int
    PROVE  SumOver(stats, i, S) \in Int
<1> DEFINE T == {s \in SUBSET S : SumOver(stats, i, s) \notin Int}
<1> SUFFICES ASSUME T # {} PROVE FALSE
  OBVIOUS
<1>1. PICK s \in T : \A r \in SUBSET s : r # s => r \notin T
  <2>1. T \in SUBSET SUBSET S
    OBVIOUS
  <2> HIDE DEF T
  <2> QED
    BY <2>1, SmallestSet
<1>2. IsFiniteSet(s) /\ s \in SUBSET S
  BY FS_Subset
<1>3. CASE s = {}
  <2>1. SumOver(stats, i, s) = 0
    BY <1>2, <1>3, SumStep
  <2> QED
    BY <2>1
<1>4. CASE s # {}
  <2>1. Member(s) \in s
    BY <1>4 DEF Member
  <2>2. SumOver(stats, i, s \ {Member(s)}) \in Int
    BY <1>1, <2>1
  <2>3. SumOver(stats, i, s) = stats[Member(s)][i] + SumOver(stats, i, s \ {Member(s)})
    BY <1>2, <1>4, SumStep
  <2> QED
    BY <1>2, <2>1, <2>2, <2>3
<1> QED
  BY <1>3, <1>4

\* any member may be the one that is left out
LEMMA SumWithout ==
    ASSUME NEW stats, NEW i, NEW S, IsFiniteSet(S), \A k \in S : stats[k][i] \in Int
    PROVE  \A k \in S : SumOver(stats, i, S) = stats[k][i] + SumOver(stats, i, S \ {k})
<1> DEFINE Sum(s) == SumOver(stats, i, s)
           T == {s \in SUBSET S : \E k \in s : Sum(s) # stats[k][i] + Sum(s \ {k})}
<1> SUFFICES ASSUME T # {} PROVE FALSE
  OBVIOUS
<1>1. PICK s \in T : \A r \in SUBSET s : r # s => r \notin T
  <2>1. T \in SUBSET SUBSET S
    OBVIOUS
  <2> HIDE DEF T
  <2> QED
    BY <2>1, SmallestSet
<1>2. PICK k \in s : Sum(s) # stats[k][i] + Sum(s \ {k})
  OBVIOUS
<1> DEFINE y == Member(s)
<1>3. y \in s
  BY <1>2 DEF Member
<1>4. Sum(s) = stats[y][i] + Sum(s \ {y}) /\ y # k
  BY <1>2, FS_Subset, SumStep
<1> HIDE DEF y
<1>5. Sum(s \ {y}) = stats[k][i] + Sum((s \ {y}) \ {k})
  BY <1>1, <1>2, <1>3, <1>4
<1>6. Sum(s \ {k}) = stats[y][i] + Sum((s \ {k}) \ {y})
  BY <1>1, <1>2, <1>3, <1>4
<1>7. (s \ {y}) \ {k} = (s \ {k}) \ {y}
  OBVIOUS
<1>8. Sum((s \ {k}) \ {y}) \in Int /\ stats[y][i] \in Int /\ stats[k][i] \in Int
  BY <1>2, <1>3, FS_Subset, SumType
<1>9. \A a, b, c \in Int : a + (b + c) = b + (a + c)
  OBVIOUS
<1> HIDE DEF Sum
<1>10. stats[y][i] + (stats[k][i] + Sum((s \ {k}) \ {y}))
        = stats[k][i] + (stats[y][i] + Sum((s \ {k}) \ {y}))
  BY <1>8, <1>9
<1> QED
  BY <1>2, <1>4, <1>5, <1>6, <1>7, <1>10

\* a sum depends on what it sums only
LEMMA SumSame ==
    ASSUME NEW stats, NEW stats1, NEW i, NEW S, IsFiniteSet(S),
           \A k \in S : stats[k][i] = stats1[k][i]
    PROVE  SumOver(stats, i, S) = SumOver(stats1, i, S)
<1> DEFINE T == {s \in SUBSET S : SumOver(stats, i, s) # SumOver(stats1, i, s)}
<1> SUFFICES ASSUME T # {} PROVE FALSE
  OBVIOUS
<1>1. PICK s \in T : \A r \in SUBSET s : r # s => r \notin T
  <2>1. T \in SUBSET SUBSET S
    OBVIOUS
  <2> HIDE DEF T
  <2> QED
    BY <2>1, SmallestSet
<1>2. IsFiniteSet(s) /\ s \in SUBSET S
  BY FS_Subset
<1>3. s # {}
  BY <1>2, SumStep
<1>4. Member(s) \in s
  BY <1>3 DEF Member
<1>5. SumOver(stats, i, s \ {Member(s)}) = SumOver(stats1, i, s \ {Member(s)})
  BY <1>1, <1>4
<1>6. stats[Member(s)][i] = stats1[Member(s)][i]
  BY <1>2, <1>4
<1>7. /\ SumOver(stats, i, s) = stats[Member(s)][i] + SumOver(stats, i, s \ {Member(s)})
      /\ SumOver(stats1, i, s) = stats1[Member(s)][i] + SumOver(stats1, i, s \ {Member(s)})
  BY <1>2, <1>3, SumStep
<1> QED
  BY <1>5, <1>6, <1>7

-----------------------------------------------------------------------------
(* The order of the chips.                                                 *)

\* ids lists the chips of S in order
Lists(ids, S) ==
    /\ ids \in [1 .. Cardinality(S) -> S]
    /\ \A j, k \in DOMAIN ids : j < k => ids[j] < ids[k]

\* a finite set of numbers has a greatest one
LEMMA GreatestExists ==
    ASSUME NEW S \in SUBSET Nat, IsFiniteSet(S), S # {}
    PROVE  \E x \in S : \A y \in S : y <= x
<1> DEFINE T == {s \in SUBSET S : s # {} /\ ~ \E x \in s : \A y \in s : y <= x}
<1> SUFFICES ASSUME T # {} PROVE FALSE
  OBVIOUS
<1>1. PICK s \in T : \A r \in SUBSET s : r # s => r \notin T
  <2>1. T \in SUBSET SUBSET S
    OBVIOUS
  <2> HIDE DEF T
  <2> QED
    BY <2>1, SmallestSet
<1>2. PICK z \in s : TRUE
  OBVIOUS
<1>3. s \ {z} # {}
  BY <1>2
<1>4. PICK x \in s \ {z} : \A y \in s \ {z} : y <= x
  BY <1>1, <1>2, <1>3
<1>5. \A y \in s : y <= IF z <= x THEN x ELSE z
  BY <1>2, <1>4
<1> QED
  BY <1>1, <1>2, <1>4, <1>5

\* there is such a list
LEMMA ListExists ==
    ASSUME NEW S \in SUBSET Nat, IsFiniteSet(S)
    PROVE  \E ids : Lists(ids, S)
<1> DEFINE T == {s \in SUBSET S : ~ \E ids : Lists(ids, s)}
<1> SUFFICES ASSUME T # {} PROVE FALSE
  OBVIOUS
<1>1. PICK s \in T : \A r \in SUBSET s : r # s => r \notin T
  <2>1. T \in SUBSET SUBSET S
    OBVIOUS
  <2> HIDE DEF T
  <2> QED
    BY <2>1, SmallestSet
<1>2. IsFiniteSet(s) /\ s \in SUBSET Nat
  BY FS_Subset
<1>3. CASE s = {}
  <2>1. Lists(<<>>, s)
    BY <1>3, FS_EmptySet DEF Lists
  <2> QED
    BY <1>1, <2>1
<1>4. CASE s # {}
  <2>1. PICK x \in s : \A y \in s : y <= x
    BY <1>2, <1>4, GreatestExists
  <2>2. PICK ids : Lists(ids, s \ {x})
    BY <1>1
  <2>3. PICK n \in Nat : Cardinality(s) = n + 1 /\ Cardinality(s \ {x}) = n
    <3>1. Cardinality(s) \in Nat /\ Cardinality(s \ {x}) \in Nat
      BY <1>2, FS_RemoveElement, FS_CardinalityType
    <3>2. Cardinality(s \ {x}) = Cardinality(s) - 1
      BY <1>2, FS_RemoveElement
    <3> QED
      BY <3>1, <3>2
  <2> DEFINE more == [j \in 1 .. (n + 1) |-> IF j = n + 1 THEN x ELSE ids[j]]
  <2>4. ids \in [1 .. n -> s \ {x}] /\ \A j, k \in 1 .. n : j < k => ids[j] < ids[k]
    BY <2>2, <2>3 DEF Lists
  <2>5. more \in [1 .. (n + 1) -> s]
    BY <2>4
  <2>6. \A j, k \in 1 .. (n + 1) : j < k => more[j] < more[k]
    <3>1. \A j \in 1 .. n : ids[j] < x
      <4>1. \A y \in s \ {x} : y \in Nat /\ x \in Nat /\ y <= x /\ y # x
        BY <1>2, <2>1
      <4>2. \A y \in s \ {x} : y < x
        BY <4>1
      <4> QED
        BY <2>4, <4>2
    <3> QED
      BY <2>4, <3>1
  <2>7. Lists(more, s)
    BY <2>3, <2>5, <2>6 DEF Lists
  <2> QED
    BY <1>1, <2>7
<1> QED
  BY <1>3, <1>4

\* the chips that were found are listed, and no more than there are
LEMMA AscendingLists ==
    ASSUME NEW found \in SUBSET ChipIds, IsFiniteSet(ChipIds)
    PROVE  /\ Lists(Ascending(found), found)
           /\ Cardinality(found) \in 0 .. NumChips
<1>1. IsFiniteSet(found) /\ Cardinality(found) <= NumChips
  BY FS_Subset DEF NumChips
<1> HIDE DEF NumChips
<1>2. found \in SUBSET Nat
  BY ChipAssumption DEF ChipIds
<1>3. Cardinality(found) \in Nat /\ NumChips \in Nat
  BY <1>1, FS_CardinalityType DEF NumChips
<1>4. \E ids : Lists(ids, found)
  BY <1>1, <1>2, ListExists
<1>5. Lists(Ascending(found), found)
  BY <1>4 DEF Ascending, Lists
<1> QED
  BY <1>1, <1>3, <1>5
-----------------------------------------------------------------------------
(* What the chips counted since the last reading.                          *)

\* what is believed of chip i, if that of the chip before it is what is given
Believed(reading, i, before) ==
    IF ChipIndexToId(i) \notin Found THEN 0
    ELSE IF reading[i] <= hitMax THEN reading[i]
    ELSE IF i = 0 THEN 0
    ELSE before

\* delta is what is believed of the chips up to n
DeltaTo(reading, n, delta) ==
    delta = [i \in 0 .. n |-> Believed(reading, i, delta[i - 1])]

\* there is such a delta
LEMMA DeltaExists ==
    ASSUME NEW reading
    PROVE  \A n \in Nat : \E delta : DeltaTo(reading, n, delta)
<1> DEFINE T == {n \in Nat : ~ \E delta : DeltaTo(reading, n, delta)}
<1> SUFFICES ASSUME T # {} PROVE FALSE
  OBVIOUS
<1>1. PICK n \in T : \A m \in Nat : m < n => m \notin T
  <2>1. T \in SUBSET Nat
    OBVIOUS
  <2> HIDE DEF T
  <2> QED
    BY <2>1, LeastNumber
<1>2. CASE n = 0
  <2> DEFINE zero == [i \in 0 .. 0 |-> Believed(reading, i, 0)]
  <2>1. DeltaTo(reading, 0, zero)
    BY DEF DeltaTo, Believed
  <2> QED
    BY <1>1, <1>2, <2>1
<1>3. CASE n # 0
  <2>1. n \in Nat /\ n - 1 \in Nat /\ n - 1 < n
    BY <1>3
  <2>2. PICK delta : DeltaTo(reading, n - 1, delta)
    BY <1>1, <2>1
  <2> DEFINE more == [i \in 0 .. n |-> IF i = n THEN Believed(reading, n, delta[n - 1])
                                       ELSE delta[i]]
  <2>3. ASSUME NEW i \in 0 .. n
        PROVE  more[i] = Believed(reading, i, more[i - 1])
    <3>1. CASE i = n
      BY <2>1, <3>1
    <3>2. CASE i # n /\ i # 0
      <4>1. i \in 0 .. (n - 1) /\ i - 1 \in 0 .. n /\ i - 1 # n
        BY <2>1, <3>2
      <4>2. delta[i] = Believed(reading, i, delta[i - 1])
        BY <2>2, <4>1 DEF DeltaTo
      <4> QED
        BY <3>2, <4>1, <4>2
    <3>3. CASE i # n /\ i = 0
      <4>1. i \in 0 .. (n - 1)
        BY <2>1, <3>3
      <4>2. delta[i] = Believed(reading, i, delta[i - 1])
        BY <2>2, <4>1 DEF DeltaTo
      <4> QED
        BY <3>3, <4>2 DEF Believed
    <3> QED
      BY <3>1, <3>2, <3>3
  <2>4. DeltaTo(reading, n, more)
    BY <2>3 DEF DeltaTo
  <2> QED
    BY <1>1, <2>4
<1> QED
  BY <1>2, <1>3

\* of every chip a number of hits is believed that is in range
LEMMA DeltaType ==
    ASSUME NEW reading \in Readings
    PROVE  Delta(reading) \in [Indices -> 0 .. hitMax]
<1> DEFINE n == NumChips - 1
           delta == CHOOSE delta : DeltaTo(reading, n, delta)
<1>1. n \in Nat /\ Indices = 0 .. n
  BY ChipCount, ChipAssumption DEF Indices
<1>2. Delta(reading) = delta
  BY DEF Delta, DeltaTo, Believed, Indices
<1>3. DeltaTo(reading, n, delta)
  <2> HIDE DEF n
  <2> QED
    BY <1>1, DeltaExists
<1> HIDE DEF n, delta
<1> DEFINE T == {i \in 0 .. n : delta[i] \notin 0 .. hitMax}
<1>4. T = {}
  <2> SUFFICES ASSUME T # {} PROVE FALSE
    OBVIOUS
  <2>1. PICK i \in T : \A m \in Nat : m < i => m \notin T
    <3>1. T \in SUBSET Nat
      BY <1>1
    <3> HIDE DEF T
    <3> QED
      BY <3>1, LeastNumber
  <2>2. delta[i] = Believed(reading, i, delta[i - 1]) /\ i \in 0 .. n
    BY <1>3 DEF DeltaTo
  <2>3. reading[i] \in 0 .. (hitMax + 1) /\ hitMax \in Nat
    BY <1>1, <2>2, BoundAssumption, SizeAssumption
  <2>4. CASE i = 0
    BY <2>2, <2>3, <2>4 DEF Believed
  <2>5. CASE i # 0
    <3>1. i - 1 \in Nat /\ i - 1 < i /\ i - 1 \in 0 .. n
      BY <1>1, <2>2, <2>5
    <3>2. delta[i - 1] \in 0 .. hitMax
      BY <2>1, <3>1
    <3> QED
      BY <2>2, <2>3, <3>2 DEF Believed
  <2> QED
    BY <2>4, <2>5
<1> QED
  BY <1>1, <1>2, <1>3, <1>4 DEF DeltaTo
-----------------------------------------------------------------------------
(* The state.                                                              *)

Slots   == 0 .. (statsRingSize - 1)
IdLists == UNION {[1 .. n -> ChipIds] : n \in 0 .. NumChips}

AuraAsic ==
    [actualChipIds  : IdLists,
     baudRate       : {"init", "work"},
     Asic           : BOOLEAN,
     jobCount       : BOOLEAN,
     hitStats       : [Slots -> [Indices -> 0 .. hitMax]],
     hitStatsCursor : Slots,
     reportCursor   : Slots,
     pollingStart   : 0 .. NumChips,
     NoResponseCtr  : [Indices -> 0 .. (noResponseLimit + 1)],
     deadBoard      : BOOLEAN]

\* a process that has not detected the board yet owes nothing
AtRest == pc # "up" => at = "top" /\ asked = {} /\ owed = Nobody

BoardInv ==
    /\ pc \in {"ended", "first", "second", "up"}
    /\ at \in {"top", "hit", "wait", "report"}
    /\ aa \in AuraAsic
    /\ baud \in {"init", "work"}
    /\ asked \subseteq Found /\ waiting \subseteq ChipIds
    /\ queue \in Nat /\ Cardinality(waiting) + queue <= MaxHits
    /\ powered \in BOOLEAN /\ lost \in 0 .. MaxLost /\ lapped \in BOOLEAN
    /\ owed \in [ChipIds -> Int]
    /\ AtRest
    /\ HitsAccounted

\* a list of chips has a length within what there are, and chips only
LEMMA ListType ==
    ASSUME NEW ids \in IdLists
    PROVE  /\ ids \in Seq(ChipIds) /\ Len(ids) \in 0 .. NumChips
           /\ DOMAIN ids = 1 .. Len(ids) /\ ToSet(ids) \subseteq ChipIds
<1>1. PICK n \in 0 .. NumChips : ids \in [1 .. n -> ChipIds]
  BY DEF IdLists
<1>2. n \in Nat
  BY <1>1, ChipCount, ChipAssumption
<1>3. ids \in Seq(ChipIds) /\ Len(ids) = n
  BY <1>1, <1>2
<1> QED
  BY <1>1, <1>3 DEF ToSet

\* a list of the chips that were found is one
LEMMA AscendingType ==
    ASSUME NEW found \in SUBSET ChipIds
    PROVE  Ascending(found) \in IdLists
<1>1. /\ Ascending(found) \in [1 .. Cardinality(found) -> found]
      /\ Cardinality(found) \in 0 .. NumChips
  BY AscendingLists, ChipCount DEF Lists
<1> QED
  BY <1>1 DEF IdLists

\* a board that was just detected is as the type says, and has no readings
LEMMA NewBoardType ==
    ASSUME NEW found \in SUBSET ChipIds, NEW rate \in {"init", "work"}
    PROVE  /\ NewBoard(found, rate) \in AuraAsic
           /\ [NewBoard(found, rate) EXCEPT !.Asic = FALSE] \in AuraAsic
           /\ NewBoard(found, rate).hitStatsCursor = 0
           /\ NewBoard(found, rate).reportCursor = 0
<1>1. Ascending(found) \in IdLists
  BY AscendingType
<1>2. 0 \in Slots /\ 0 \in 0 .. NumChips
  BY SizeAssumption, ChipCount, ChipAssumption DEF Slots
<1>3. /\ [k \in 0 .. (statsRingSize - 1) |-> NoHits] \in [Slots -> [Indices -> 0 .. hitMax]]
      /\ [i \in Indices |-> 0] \in [Indices -> 0 .. (noResponseLimit + 1)]
  BY SizeAssumption DEF NoHits, Slots
<1> QED
  BY <1>1, <1>2, <1>3 DEF NewBoard, AuraAsic

\* the parts of the ring are finite, and made of its slots
LEMMA BetweenFinite ==
    ASSUME NEW from \in Slots, NEW to \in Slots
    PROVE  /\ IsFiniteSet(Between(from, to)) /\ Between(from, to) \subseteq Slots
           /\ Between(from, from) = {}
<1>1. Between(from, to) \subseteq Slots
  BY SizeAssumption DEF Between, Slots
<1>2. IsFiniteSet(Slots)
  BY SizeAssumption, FS_Interval DEF Slots
<1>3. Between(from, from) = {}
  BY SizeAssumption DEF Between, Slots
<1> QED
  BY <1>1, <1>2, <1>3, FS_Subset

\* what was not reported, as a sum over the slots between the cursors
LEMMA UnreportedIsASum ==
    /\ \A id : Unreported(id) = SumOver(aa.hitStats, ChipIdToIndex(id),
                                       Between(aa.reportCursor, aa.hitStatsCursor))
    /\ \A id : Unreported(id)' = SumOver(aa'.hitStats, ChipIdToIndex(id),
                                        Between(aa'.reportCursor, aa'.hitStatsCursor))
<1>1. \A id : Unreported(id) = SumOver(aa.hitStats, ChipIdToIndex(id),
                                      Between(aa.reportCursor, aa.hitStatsCursor))
  BY DEF Unreported, SumOver
<1>2. \A id : Unreported(id)' = SumOver(aa'.hitStats, ChipIdToIndex(id),
                                       Between(aa'.reportCursor, aa'.hitStatsCursor))
  BY DEF Unreported, SumOver, MapThenSumSet, MapThenFoldSet
<1> QED
  BY <1>1, <1>2

\* nothing is owed between a cursor and itself
LEMMA NothingUnreported ==
    ASSUME aa.reportCursor = aa.hitStatsCursor, aa.reportCursor \in Slots, owed = Nobody
    PROVE  HitsAccounted
<1>1. Between(aa.reportCursor, aa.hitStatsCursor) = {}
  BY BetweenFinite
<1>2. \A id : Unreported(id) = 0
  BY <1>1, UnreportedIsASum, SumStep, FS_EmptySet
<1> QED
  BY <1>2 DEF HitsAccounted, Nobody

\* a step that touches neither the ring nor what is owed
LEMMA RingKept ==
    ASSUME HitsAccounted, UNCHANGED <<owed, lapped>>, aa'.hitStats = aa.hitStats,
           aa'.hitStatsCursor = aa.hitStatsCursor, aa'.reportCursor = aa.reportCursor
    PROVE  HitsAccounted'
<1>1. \A id : Unreported(id)' = Unreported(id)
  BY UnreportedIsASum
<1> QED
  BY <1>1 DEF HitsAccounted
-----------------------------------------------------------------------------
(* Counting and reporting.                                                 *)

\* a cursor that moves on passes the slot it pointed to, unless it laps the other
LEMMA BetweenGrows ==
    ASSUME NEW from \in Slots, NEW to \in Slots, NextSlot(to) # from
    PROVE  /\ Between(from, NextSlot(to)) = Between(from, to) \cup {to}
           /\ to \notin Between(from, to)
<1>1. /\ NextSlot(to) = IF to = statsRingSize - 1 THEN 0 ELSE to + 1
      /\ statsRingSize \in Nat /\ statsRingSize > 0
  BY SizeAssumption DEF NextSlot, Slots
<1>2. CASE to = statsRingSize - 1
  BY <1>1, <1>2 DEF Between, Slots
<1>3. CASE to # statsRingSize - 1
  BY <1>1, <1>3 DEF Between, Slots
<1> QED
  BY <1>2, <1>3

\* a slot that is counted is followed by one
LEMMA NextSlotType ==
    ASSUME NEW k \in Slots
    PROVE  NextSlot(k) \in Slots
BY SizeAssumption DEF NextSlot, Slots

\* a reading is owed from then on
LEMMA RecordKeeps ==
    ASSUME BoardInv, NEW reading \in Readings, Record(reading)
    PROVE  /\ aa' \in AuraAsic /\ aa'.actualChipIds = aa.actualChipIds
           /\ lapped' \in BOOLEAN /\ owed' \in [ChipIds -> Int]
           /\ HitsAccounted'
<1> DEFINE from == aa.reportCursor
           to == aa.hitStatsCursor
           stats == aa.hitStats
           delta == Delta(reading)
<1>1. from \in Slots /\ to \in Slots /\ stats \in [Slots -> [Indices -> 0 .. hitMax]]
  BY DEF BoardInv, AuraAsic
<1>2. delta \in [Indices -> 0 .. hitMax]
  BY DeltaType
<1> HIDE DEF delta
<1>3. aa' = [aa EXCEPT !.hitStats[to] = delta, !.hitStatsCursor = NextSlot(to)]
  BY DEF Record, delta
<1>4. NextSlot(to) \in Slots
  BY <1>1, NextSlotType
<1>5. /\ aa'.hitStats = [stats EXCEPT ![to] = delta]
      /\ aa'.hitStatsCursor = NextSlot(to) /\ aa'.reportCursor = from
      /\ aa'.actualChipIds = aa.actualChipIds
  BY <1>3 DEF BoardInv, AuraAsic
<1>6. aa' \in AuraAsic
  <2>1. [stats EXCEPT ![to] = delta] \in [Slots -> [Indices -> 0 .. hitMax]]
    BY <1>1, <1>2
  <2> HIDE DEF stats, to
  <2>2. aa' = [aa EXCEPT !.hitStats = [stats EXCEPT ![to] = delta],
                         !.hitStatsCursor = NextSlot(to)]
    BY <1>3 DEF stats, to
  <2> QED
    BY <1>4, <2>1, <2>2 DEF BoardInv, AuraAsic
<1>7. lapped' = (lapped \/ NextSlot(to) = from)
  BY DEF Record
<1>8. owed' = IF lapped' THEN Nobody
              ELSE [id \in ChipIds |-> owed[id] + delta[ChipIdToIndex(id)]]
  BY DEF Record, delta
<1>9. \A id \in ChipIds : ChipIdToIndex(id) \in Indices
  BY IndexOfChip
<1>10. \A id \in ChipIds : owed[id] \in Int /\ delta[ChipIdToIndex(id)] \in Int
  BY <1>2, <1>9, SizeAssumption DEF BoardInv
<1>11. owed' \in [ChipIds -> Int]
  BY <1>8, <1>10 DEF Nobody
<1>12. ASSUME ~lapped', NEW id \in ChipIds
       PROVE  owed'[id] = Unreported(id)'
  <2> DEFINE i == ChipIdToIndex(id)
             part == Between(from, to)
             next == aa'.hitStats
  <2>1. ~lapped /\ NextSlot(to) # from
    BY <1>7, <1>12
  <2>2. owed[id] = SumOver(stats, i, part)
    BY <2>1, UnreportedIsASum DEF BoardInv, HitsAccounted
  <2>3. Between(from, NextSlot(to)) = part \cup {to} /\ to \notin part
        /\ IsFiniteSet(part) /\ part \subseteq Slots
    BY <1>1, <2>1, BetweenGrows, BetweenFinite
  <2> HIDE DEF part
  <2>4. \A k \in part : next[k] = stats[k]
    BY <1>1, <1>5, <2>3
  <2>5. next[to] = delta /\ next \in [Slots -> [Indices -> 0 .. hitMax]]
    BY <1>1, <1>2, <1>5
  <2>6. \A k \in part \cup {to} : next[k][i] \in Int
    BY <1>1, <1>9, <2>3, <2>5, SizeAssumption
  <2> HIDE DEF next, stats, from, to
  <2>7. IsFiniteSet(part \cup {to})
    BY <2>3, FS_AddElement
  <2>8. SumOver(next, i, part \cup {to}) = next[to][i] + SumOver(next, i, (part \cup {to}) \ {to})
    BY <2>6, <2>7, SumWithout
  <2>9. (part \cup {to}) \ {to} = part
    BY <2>3
  <2>10. SumOver(next, i, part) = SumOver(stats, i, part)
    BY <2>3, <2>4, SumSame
  <2>11. Unreported(id)' = SumOver(next, i, part \cup {to})
    BY <1>5, <2>3, UnreportedIsASum DEF next, from
  <2>12. Unreported(id)' = delta[i] + owed[id]
    BY <2>2, <2>5, <2>8, <2>9, <2>10, <2>11
  <2>13. owed'[id] = owed[id] + delta[i]
    BY <1>8, <1>12
  <2> QED
    BY <1>10, <2>12, <2>13
<1>13. lapped' \in BOOLEAN
  BY <1>7 DEF BoardInv
<1> QED
  BY <1>5, <1>6, <1>11, <1>12, <1>13 DEF HitsAccounted

\* a report clears what was owed
LEMMA ReportKeeps ==
    ASSUME BoardInv, Report
    PROVE  /\ aa' \in AuraAsic /\ aa'.actualChipIds = aa.actualChipIds
           /\ lapped' \in BOOLEAN /\ owed' \in [ChipIds -> Int]
           /\ HitsAccounted'
<1>1. CASE aa.reportCursor = aa.hitStatsCursor
  <2>1. UNCHANGED <<aa, owed, lapped>>
    BY <1>1 DEF Report
  <2> QED
    BY <2>1, RingKept DEF BoardInv
<1>2. CASE aa.reportCursor # aa.hitStatsCursor
  <2>1. aa' = [aa EXCEPT !.reportCursor = aa.hitStatsCursor] /\ lapped' = FALSE
    BY <1>2 DEF Report
  <2>2. aa' \in AuraAsic /\ aa'.actualChipIds = aa.actualChipIds
    BY <2>1 DEF BoardInv, AuraAsic
  <2>3. aa'.reportCursor = aa'.hitStatsCursor /\ aa'.reportCursor \in Slots
    BY <2>1 DEF BoardInv, AuraAsic
  <2>4. owed' = Nobody
    <3>1. owed' = IF lapped THEN Nobody ELSE [id \in ChipIds |-> owed[id] - Unreported(id)]
      BY <1>2 DEF Report
    <3>2. CASE lapped
      BY <3>1, <3>2
    <3>3. CASE ~lapped
      <4>1. \A id \in ChipIds : owed[id] = Unreported(id) /\ owed[id] \in Int
        BY <3>3 DEF BoardInv, HitsAccounted
      <4> QED
        BY <3>1, <3>3, <4>1 DEF Nobody
    <3> QED
      BY <3>2, <3>3
  <2>5. HitsAccounted'
    <3>1. Between(aa'.reportCursor, aa'.hitStatsCursor) = {}
      BY <2>3, BetweenFinite
    <3>2. \A id : Unreported(id)' = 0
      BY <3>1, UnreportedIsASum, SumStep, FS_EmptySet
    <3> QED
      BY <2>4, <3>2 DEF HitsAccounted, Nobody
  <2>6. Nobody \in [ChipIds -> Int]
    BY DEF Nobody
  <2> QED
    BY <2>1, <2>2, <2>4, <2>5, <2>6
<1> QED
  BY <1>1, <1>2
-----------------------------------------------------------------------------
(* The steps.                                                              *)

\* a waiting chip more or less
LEMMA WaitingCount ==
    ASSUME NEW held \in SUBSET ChipIds
    PROVE  /\ Cardinality(held) \in Nat
           /\ \A id : Cardinality(held \cup {id}) <= Cardinality(held) + 1
           /\ \A id \in held : Cardinality(held \ {id}) = Cardinality(held) - 1
           /\ \A less \in SUBSET held : Cardinality(less) \in Nat
                                        /\ Cardinality(less) <= Cardinality(held)
<1>1. IsFiniteSet(held)
  BY ChipCount, FS_Subset
<1>2. Cardinality(held) \in Nat
  BY <1>1, FS_CardinalityType
<1>3. \A id : Cardinality(held \cup {id}) <= Cardinality(held) + 1
  <2> SUFFICES ASSUME NEW id
               PROVE  Cardinality(held \cup {id}) <= Cardinality(held) + 1
    OBVIOUS
  <2>1. Cardinality(held \cup {id}) = IF id \in held THEN Cardinality(held)
                                     ELSE Cardinality(held) + 1
    BY <1>1, FS_AddElement
  <2> QED
    BY <1>2, <2>1
<1>4. \A id \in held : Cardinality(held \ {id}) = Cardinality(held) - 1
  BY <1>1, FS_RemoveElement
<1>5. \A less \in SUBSET held : Cardinality(less) \in Nat
                              /\ Cardinality(less) <= Cardinality(held)
  BY <1>1, FS_Subset, FS_CardinalityType
<1> QED
  BY <1>2, <1>3, <1>4, <1>5

\* no chip waits: then the bound on hits holds
LEMMA NoneWaiting ==
    Cardinality({}) = 0 /\ MaxHits \in Nat
BY FS_EmptySet, BoundAssumption

\* a board is there to begin with
LEMMA InitBoard == Init => BoardInv
<1> SUFFICES ASSUME Init PROVE BoardInv
  OBVIOUS
<1>1. /\ aa \in AuraAsic /\ aa.hitStatsCursor = 0 /\ aa.reportCursor = 0
  BY NewBoardType DEF Init, NoBoard
<1>2. HitsAccounted
  BY <1>1, NothingUnreported DEF Init, AuraAsic
<1>3. owed \in [ChipIds -> Int]
  BY DEF Init, Nobody
<1>4. Cardinality(waiting) + queue <= MaxHits
  <2>1. waiting = {} /\ queue = 0
    BY DEF Init
  <2> QED
    BY <2>1, NoneWaiting
<1>5. /\ pc = "first" /\ at = "top" /\ queue = 0 /\ asked = {} /\ waiting = {}
      /\ baud \in {"init", "work"} /\ powered = TRUE /\ lapped = FALSE /\ owed = Nobody
  BY DEF Init
<1>6. lost \in 0 .. MaxLost
  BY BoundAssumption DEF Init
<1> QED
  BY <1>1, <1>2, <1>3, <1>4, <1>5, <1>6 DEF BoardInv, AtRest

\* the end of the process
LEMMA PanicBoard ==
    ASSUME BoardInv, Panic
    PROVE  BoardInv'
<1>1. /\ pc' = "ended" /\ aa' = NoBoard /\ at' = "top" /\ queue' = 0 /\ asked' = {}
      /\ owed' = Nobody /\ lapped' = FALSE
      /\ UNCHANGED <<waiting, baud, powered, lost>>
  BY DEF Panic, Forget, ChipsUnchanged
<1>2. /\ aa' \in AuraAsic /\ aa'.hitStatsCursor = 0 /\ aa'.reportCursor = 0
  BY <1>1, NewBoardType DEF NoBoard
<1>3. HitsAccounted'
  <2>1. Between(aa'.reportCursor, aa'.hitStatsCursor) = {}
    BY <1>2, BetweenFinite DEF AuraAsic
  <2>2. \A id : Unreported(id)' = 0
    BY <2>1, UnreportedIsASum, SumStep, FS_EmptySet
  <2> QED
    BY <1>1, <2>2 DEF HitsAccounted, Nobody
<1>4. owed' \in [ChipIds -> Int]
  BY <1>1 DEF Nobody
<1>5. Cardinality(waiting)' + 0 <= MaxHits
  BY <1>1, WaitingCount, BoundAssumption DEF BoardInv
<1> QED
  BY <1>1, <1>2, <1>3, <1>4, <1>5 DEF BoardInv, AtRest
\* a process that starts
LEMMA RestartBoard ==
    ASSUME BoardInv, Restart
    PROVE  BoardInv'
<1>1. /\ pc = "ended" /\ pc' = "first" /\ powered' = TRUE /\ baud' \in {"init", baud}
      /\ waiting' = {} \/ waiting' = waiting
      /\ UNCHANGED <<aa, at, queue, asked, lost, owed, lapped>>
  BY DEF Restart, HistoryUnchanged
<1>2. HitsAccounted'
  BY <1>1, RingKept DEF BoardInv
<1>3. Cardinality(waiting') + queue' <= MaxHits
  BY <1>1, NoneWaiting, WaitingCount DEF BoardInv
<1>4. Found' = Found
  BY <1>1 DEF Found
<1> QED
  BY <1>1, <1>2, <1>3, <1>4 DEF BoardInv, AtRest

\* a board that is detected
LEMMA DetectBoard ==
    ASSUME BoardInv, FirstAttempt \/ SecondAttempt
    PROVE  BoardInv'
<1>1. /\ pc \in {"first", "second"} /\ pc' \in {"ended", "second", "up"}
      /\ UNCHANGED <<at, queue, asked, waiting, powered, lost, owed, lapped>>
  BY DEF FirstAttempt, SecondAttempt, HistoryUnchanged
<1>2. at = "top" /\ asked = {} /\ owed = Nobody
  BY <1>1 DEF BoardInv, AtRest
<1>3. baud' \in {"init", "work"}
  BY DEF FirstAttempt, SecondAttempt, Close, BoardInv
<1>4. \/ aa' = aa
      \/ \E found \in SUBSET ChipIds, rate \in {"init", "work"} :
             \/ aa' = NewBoard(found, rate)
             \/ aa' = [NewBoard(found, rate) EXCEPT !.Asic = FALSE]
  <2>1. \A rate : Answers(rate) \subseteq SUBSET ChipIds
    BY DEF Answers
  <2> QED
    BY <2>1 DEF FirstAttempt, SecondAttempt
<1>5. CASE aa' = aa
  <2>1. HitsAccounted'
    BY <1>1, <1>5, RingKept DEF BoardInv
  <2>2. Found' = Found
    BY <1>5 DEF Found
  <2> QED
    BY <1>1, <1>2, <1>3, <1>5, <2>1, <2>2 DEF BoardInv, AtRest
<1>6. ASSUME NEW found \in SUBSET ChipIds, NEW rate \in {"init", "work"},
             \/ aa' = NewBoard(found, rate)
             \/ aa' = [NewBoard(found, rate) EXCEPT !.Asic = FALSE]
      PROVE  BoardInv'
  <2>1. aa' \in AuraAsic
    BY <1>6, NewBoardType
  <2>2. aa'.hitStatsCursor = 0 /\ aa'.reportCursor = 0
    <3>1. NewBoard(found, rate) \in AuraAsic
          /\ NewBoard(found, rate).hitStatsCursor = 0
          /\ NewBoard(found, rate).reportCursor = 0
      BY NewBoardType
    <3> QED
      BY <1>6, <3>1 DEF AuraAsic
  <2>3. HitsAccounted'
    <3>1. Between(aa'.reportCursor, aa'.hitStatsCursor) = {}
      BY <2>1, <2>2, BetweenFinite DEF AuraAsic
    <3>2. \A id : Unreported(id)' = 0
      BY <3>1, UnreportedIsASum, SumStep, FS_EmptySet
    <3> QED
      BY <1>1, <1>2, <3>2 DEF HitsAccounted, Nobody
  <2>4. Cardinality(waiting') + queue' <= MaxHits
    BY <1>1 DEF BoardInv
  <2> QED
    BY <1>1, <1>2, <1>3, <2>1, <2>3, <2>4 DEF BoardInv, AtRest
<1> QED
  BY <1>4, <1>5, <1>6

\* steps that leave the ring and what is owed alone
LEMMA QuietBoard ==
    ASSUME BoardInv, pc = "up", pc' = "up", UNCHANGED <<owed, lapped>>,
           aa' \in AuraAsic, aa'.actualChipIds = aa.actualChipIds,
           aa'.hitStats = aa.hitStats, aa'.hitStatsCursor = aa.hitStatsCursor,
           aa'.reportCursor = aa.reportCursor,
           at' \in {"top", "hit", "wait", "report"}, asked' \subseteq Found,
           waiting' \subseteq ChipIds, queue' \in Nat,
           Cardinality(waiting') + queue' <= MaxHits,
           baud' \in {"init", "work"}, powered' \in BOOLEAN, lost' \in 0 .. MaxLost
    PROVE  BoardInv'
<1>1. HitsAccounted'
  BY RingKept DEF BoardInv
<1>2. Found' = Found
  BY DEF Found
<1> QED
  BY <1>1, <1>2 DEF BoardInv, AtRest

\* CheckResults, but for its polling
LEMMA CheckBoard ==
    ASSUME BoardInv, SendJob \/ CountersNotDue \/ TakeHit
    PROVE  BoardInv'
<1>1. /\ pc = "up" /\ UNCHANGED <<pc, asked, baud, powered, lost, owed, lapped>>
      /\ aa' = aa \/ aa' = [aa EXCEPT !.jobCount = TRUE]
      /\ at' \in {"top", "hit", "wait", "report"} /\ queue' \in Nat /\ queue' <= queue
      /\ waiting' \in {{}, waiting}
  BY DEF SendJob, CountersNotDue, TakeHit, ChipsUnchanged, HistoryUnchanged, BoardInv
<1>2. /\ aa' \in AuraAsic /\ aa'.actualChipIds = aa.actualChipIds
      /\ aa'.hitStats = aa.hitStats /\ aa'.hitStatsCursor = aa.hitStatsCursor
      /\ aa'.reportCursor = aa.reportCursor
  BY <1>1 DEF BoardInv, AuraAsic
<1>3. Cardinality(waiting') + queue' <= MaxHits
  <2>1. Cardinality(waiting') <= Cardinality(waiting) /\ Cardinality(waiting') \in Nat
        /\ Cardinality(waiting) \in Nat
    BY <1>1, WaitingCount DEF BoardInv
  <2> QED
    BY <1>1, <2>1, BoundAssumption DEF BoardInv
<1> QED
  BY <1>1, <1>2, <1>3, QuietBoard DEF BoardInv
\* the hit counters, which are all read or end the process
LEMMA CountersBoard ==
    ASSUME BoardInv, checkHitCounters
    PROVE  BoardInv'
<1>1. CASE Panic
  BY <1>1, PanicBoard
<1>2. CASE Counted
  <2>1. PICK reading \in Readings : Record(reading)
    BY <1>2 DEF Counted
  <2>2. /\ pc = "up" /\ at' = "hit"
        /\ UNCHANGED <<pc, queue, asked, waiting, baud, powered, lost>>
    BY <1>2 DEF Counted, ChipsUnchanged, checkHitCounters
  <2>3. /\ aa' \in AuraAsic /\ aa'.actualChipIds = aa.actualChipIds
        /\ lapped' \in BOOLEAN /\ owed' \in [ChipIds -> Int] /\ HitsAccounted'
    BY <2>1, RecordKeeps
  <2>4. Found' = Found /\ Cardinality(waiting') + queue' <= MaxHits
    BY <2>2, <2>3 DEF Found, BoardInv
  <2> QED
    BY <2>2, <2>3, <2>4 DEF BoardInv, AtRest
<1> QED
  BY <1>1, <1>2 DEF checkHitCounters, ReadAllPipelined

\* the report
LEMMA ReportBoard ==
    ASSUME BoardInv, PollNotDue \/ GiveUpWaiting
    PROVE  BoardInv'
<1>1. /\ pc = "up" /\ at' = "top" /\ Report
      /\ UNCHANGED <<pc, queue, asked, waiting, baud, powered, lost>>
  BY DEF PollNotDue, GiveUpWaiting, Report, ChipsUnchanged
<1>2. /\ aa' \in AuraAsic /\ aa'.actualChipIds = aa.actualChipIds
      /\ lapped' \in BOOLEAN /\ owed' \in [ChipIds -> Int] /\ HitsAccounted'
  BY <1>1, ReportKeeps
<1>3. Found' = Found /\ Cardinality(waiting') + queue' <= MaxHits
  BY <1>1, <1>2 DEF Found, BoardInv
<1> QED
  BY <1>1, <1>2, <1>3 DEF BoardInv, AtRest

\* the chips that are asked for hits are of those that were found
LEMMA PollBoard ==
    ASSUME BoardInv, pollHitResults
    PROVE  BoardInv'
<1> DEFINE ids   == aa.actualChipIds
           end   == Min({PollStart + PollBatch, Len(ids)})
           batch == ToSet(SubSeq(ids, PollStart + 1, end))
<1>1. /\ ids \in Seq(ChipIds) /\ Len(ids) \in 0 .. NumChips /\ ToSet(ids) \subseteq ChipIds
      /\ DOMAIN ids = 1 .. Len(ids) /\ NumChips \in Nat
  BY ListType, ChipCount, ChipAssumption DEF BoardInv, AuraAsic
<1>2. PollStart \in Nat /\ PollBatch \in Nat
  BY <1>1, SizeAssumption DEF PollStart, BoardInv, AuraAsic
<1>3. end \in Nat /\ end <= Len(ids)
  BY <1>1, <1>2, MinOfTwo
<1>4. batch \subseteq Found
  <2> DEFINE part == SubSeq(ids, PollStart + 1, end)
  <2> HIDE DEF ids, end
  <2>1. /\ part \in Seq(ChipIds)
        /\ \A j \in 1 .. Len(part) : part[j] = ids[PollStart + j] /\ PollStart + j \in DOMAIN ids
    BY <1>1, <1>2, <1>3
  <2>2. DOMAIN part = 1 .. Len(part)
    BY <2>1
  <2>3. Found = ToSet(ids)
    BY DEF Found, ids
  <2> HIDE DEF part
  <2>4. ToSet(part) \subseteq ToSet(ids)
    BY <2>1, <2>2 DEF ToSet
  <2> QED
    BY <2>3, <2>4 DEF part
<1> HIDE DEF end, batch
<1>5. CASE Panic
  BY <1>5, PanicBoard
<1>6. ASSUME NEW silent, Ask(batch, silent, end)
      PROVE  BoardInv'
  <2>1. /\ pc = "up" /\ UNCHANGED <<pc, queue, waiting, baud, powered, owed, lapped>>
        /\ aa' = [aa EXCEPT !.pollingStart = end]
        /\ at' \in {"top", "hit", "wait", "report"}
        /\ asked' = asked \cup (waiting \cap (batch \ silent))
    BY <1>6 DEF Ask, HistoryUnchanged, pollHitResults
  <2>2. lost' \in 0 .. MaxLost
    BY <1>6, BoundAssumption DEF Ask, BoardInv
  <2>3. end \in 0 .. NumChips
    BY <1>1, <1>3
  <2>4. /\ aa' \in AuraAsic /\ aa'.actualChipIds = aa.actualChipIds
        /\ aa'.hitStats = aa.hitStats /\ aa'.hitStatsCursor = aa.hitStatsCursor
        /\ aa'.reportCursor = aa.reportCursor
    BY <2>1, <2>3 DEF BoardInv, AuraAsic
  <2>5. asked' \subseteq Found
    BY <1>4, <2>1 DEF BoardInv
  <2>6. Cardinality(waiting') + queue' <= MaxHits
    BY <2>1 DEF BoardInv
  <2> QED
    BY <2>1, <2>2, <2>4, <2>5, <2>6, QuietBoard DEF BoardInv
<1> QED
  BY <1>5, <1>6 DEF pollHitResults, batch, end

\* the chips find hits and hand them over, or lose them
LEMMA ChipsBoard ==
    ASSUME BoardInv, Hit \/ (\E id \in ChipIds : Answer(id)) \/ Lose
    PROVE  BoardInv'
<1>1. /\ pc = "up" /\ UNCHANGED <<pc, aa, at, baud, powered, owed, lapped>>
      /\ asked' \subseteq asked /\ lost' \in 0 .. MaxLost
  BY BoundAssumption DEF Hit, Answer, Lose, HistoryUnchanged, BoardInv
<1>2. Found \subseteq ChipIds
  BY ListType DEF BoardInv, AuraAsic, Found
<1>3. /\ waiting' \subseteq ChipIds /\ queue' \in Nat
      /\ Cardinality(waiting') + queue' <= MaxHits
  <2>1. Cardinality(waiting) \in Nat /\ queue \in Nat /\ MaxHits \in Nat
        /\ waiting \in SUBSET ChipIds /\ Cardinality(waiting) + queue <= MaxHits
    BY WaitingCount, BoundAssumption DEF BoardInv
  <2>2. CASE Hit
    <3>1. PICK id \in Found : waiting' = waiting \cup {id}
      BY <2>2 DEF Hit
    <3>2. queue' = queue /\ Cardinality(waiting) + queue < MaxHits
      BY <2>2 DEF Hit
    <3>3. waiting' \subseteq ChipIds
      BY <1>2, <2>1, <3>1
    <3>4. Cardinality(waiting') <= Cardinality(waiting) + 1 /\ Cardinality(waiting') \in Nat
      BY <2>1, <3>1, <3>3, WaitingCount
    <3> QED
      BY <2>1, <3>2, <3>3, <3>4
  <2>3. CASE \E id \in ChipIds : Answer(id)
    <3>1. PICK id \in ChipIds : Answer(id)
      BY <2>3
    <3>2. waiting' = waiting \ {id} /\ queue' = IF id \in waiting THEN queue + 1 ELSE queue
      BY <3>1 DEF Answer
    <3>3. CASE id \in waiting
      <4>1. Cardinality(waiting') = Cardinality(waiting) - 1
        BY <2>1, <3>2, <3>3, WaitingCount
      <4> QED
        BY <2>1, <3>2, <3>3, <4>1
    <3>4. CASE id \notin waiting
      <4>1. waiting' = waiting
        BY <3>2, <3>4
      <4> QED
        BY <2>1, <3>2, <3>4, <4>1
    <3> QED
      BY <3>3, <3>4
  <2>4. CASE Lose
    <3>1. queue' = queue /\ waiting' \in SUBSET waiting
      BY <2>4 DEF Lose
    <3>2. Cardinality(waiting') <= Cardinality(waiting) /\ Cardinality(waiting') \in Nat
      BY <2>1, <3>1, WaitingCount
    <3> QED
      BY <2>1, <3>1, <3>2
  <2> QED
    BY <2>2, <2>3, <2>4
<1> QED
  BY <1>1, <1>3, QuietBoard DEF BoardInv

\* DVFS reads the temperatures, or its round of counters
LEMMA DvfsBoard ==
    ASSUME BoardInv, CounterInv', monitorTempVolt \/ getHitCountersBoard
    PROVE  BoardInv'
<1>1. CASE Panic
  BY <1>1, PanicBoard
<1>2. CASE UNCHANGED vars
  <2>1. HitsAccounted'
    BY <1>2, RingKept DEF vars, BoardInv
  <2> QED
    BY <1>2, <2>1 DEF vars, BoardInv, AtRest, Found
<1>3. ASSUME pc = "up", NEW ctr, NEW dead \in BOOLEAN,
             aa' = [aa EXCEPT !.NoResponseCtr = ctr, !.deadBoard = dead],
             MarkDead \/ UNCHANGED <<powered, baud, waiting>>,
             UNCHANGED <<pc, at, queue, asked, lost, owed, lapped>>
      PROVE  BoardInv'
  <2>1. aa'.NoResponseCtr = ctr
    BY <1>3 DEF BoardInv, AuraAsic
  <2>2. ctr \in [Indices -> 0 .. (noResponseLimit + 1)]
    BY <2>1 DEF CounterInv, Counters
  <2>3. /\ aa' \in AuraAsic /\ aa'.actualChipIds = aa.actualChipIds
        /\ aa'.hitStats = aa.hitStats /\ aa'.hitStatsCursor = aa.hitStatsCursor
        /\ aa'.reportCursor = aa.reportCursor
    BY <1>3, <2>2 DEF BoardInv, AuraAsic
  <2>4. /\ powered' \in BOOLEAN /\ baud' \in {"init", "work"}
        /\ waiting' = {} \/ waiting' = waiting
    BY <1>3 DEF MarkDead, BoardInv
  <2>5. Cardinality(waiting') + queue' <= MaxHits
    <3>1. Cardinality(waiting') <= Cardinality(waiting) /\ Cardinality(waiting') \in Nat
          /\ Cardinality(waiting) \in Nat
      BY <2>4, WaitingCount DEF BoardInv
    <3> QED
      BY <1>3, <3>1, BoundAssumption DEF BoardInv
  <2> QED
    BY <1>3, <2>3, <2>4, <2>5, QuietBoard DEF BoardInv
<1>4. CASE monitorTempVolt
  BY <1>1, <1>2, <1>4 DEF monitorTempVolt, ReadAllPipelined
<1>5. CASE getHitCountersBoard /\ ~Panic
  <2>1. PICK toRetry \in SUBSET Found, silent \in SUBSET Found :
          LET ctr  == NoResponse(toRetry, silent)
              gone == {id \in silent : ctr[ChipIdToIndex(id)] > noResponseLimit}
              dead == Cardinality(gone) > maxDeadAsics IN
          /\ aa' = [aa EXCEPT !.NoResponseCtr = ctr, !.deadBoard = dead]
          /\ IF dead THEN MarkDead ELSE UNCHANGED <<powered, baud, waiting>>
          /\ UNCHANGED <<pc, at, queue, asked, lost, owed, lapped>>
    BY <1>5 DEF getHitCountersBoard
  <2> DEFINE ctr  == NoResponse(toRetry, silent)
             gone == {id \in silent : ctr[ChipIdToIndex(id)] > noResponseLimit}
             dead == Cardinality(gone) > maxDeadAsics
  <2>2. /\ aa' = [aa EXCEPT !.NoResponseCtr = ctr, !.deadBoard = dead]
        /\ MarkDead \/ UNCHANGED <<powered, baud, waiting>>
        /\ UNCHANGED <<pc, at, queue, asked, lost, owed, lapped>>
    BY <2>1
  <2>3. pc = "up"
    BY <1>5 DEF getHitCountersBoard
  <2>4. dead \in BOOLEAN
    <3>1. gone \in SUBSET ChipIds
      BY ListType DEF BoardInv, AuraAsic, Found
    <3> HIDE DEF gone
    <3>2. Cardinality(gone) \in Nat /\ maxDeadAsics \in Nat
      BY <3>1, WaitingCount, ChipCount
    <3> QED
      BY <3>2
  <2> HIDE DEF ctr, dead
  <2> QED
    BY <1>3, <2>2, <2>3, <2>4
<1> QED
  BY <1>1, <1>4, <1>5

\* every step keeps the invariant
LEMMA StepBoard ==
    ASSUME CounterInv, BoardInv, [Next]_vars
    PROVE  BoardInv'
<1>1. CASE UNCHANGED vars
  <2>1. HitsAccounted'
    BY <1>1, RingKept DEF vars, BoardInv
  <2> QED
    BY <1>1, <2>1 DEF vars, BoardInv, AtRest, Found
<1>2. CounterInv'
  BY StepCounters
<1> QED
  BY <1>1, <1>2, RestartBoard, DetectBoard, CheckBoard, CountersBoard, ReportBoard, PollBoard,
     ChipsBoard, DvfsBoard DEF Next

\* what the invariant says of the types
LEMMA BoardTypes == BoardInv => TypeOK
<1> SUFFICES ASSUME BoardInv PROVE TypeOK
  OBVIOUS
<1>1. ToSet(aa.actualChipIds) \subseteq ChipIds
  BY ListType DEF BoardInv, AuraAsic
<1>2. queue \in 0 .. MaxHits
  <2>1. Cardinality(waiting) \in Nat
    BY WaitingCount DEF BoardInv
  <2> QED
    BY <2>1, BoundAssumption DEF BoardInv
<1> QED
  BY <1>1, <1>2 DEF BoardInv, AuraAsic, TypeOK, Slots

\* The tables of a board of any size keep their types: what is asked for hits
\* was found, no reading counts more than hitMax, and the poll stays in the list.
THEOREM TypeCorrect == Spec => []TypeOK
<1>1. Init => CounterInv /\ BoardInv
  BY InitCounters, InitBoard
<1>2. CounterInv /\ BoardInv /\ [Next]_vars => (CounterInv /\ BoardInv)'
  BY StepCounters, StepBoard
<1>3. CounterInv /\ BoardInv => TypeOK
  BY BoardTypes
<1> QED
  BY <1>1, <1>2, <1>3, PTL DEF Spec

\* Hits that were recorded and not reported are in the ring between the two
\* cursors of CheckResults, whatever the size of the ring and the readings:
\* each is reported once, unless the ring ran over.
THEOREM EveryHitAccounted == Spec => []HitsAccounted
<1>1. Init => CounterInv /\ BoardInv
  BY InitCounters, InitBoard
<1>2. CounterInv /\ BoardInv /\ [Next]_vars => (CounterInv /\ BoardInv)'
  BY StepCounters, StepBoard
<1>3. CounterInv /\ BoardInv => HitsAccounted
  BY DEF BoardInv
<1> QED
  BY <1>1, <1>2, <1>3, PTL DEF Spec
=============================================================================
