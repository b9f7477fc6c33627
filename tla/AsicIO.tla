-------------------------------- MODULE AsicIO --------------------------------
(***************************************************************************)
(* The pipelined register reads of eval_miner/device/asicio: a caller of   *)
(* NonBlockingRead queues a command and waits on its channel; cmdwriter    *)
(* registers the command and writes it to the UART, one message for each   *)
(* register of each chip it wants (a payload); asicRead collects the       *)
(* answers, cmdreader credits each to the oldest registered command that   *)
(* wants the payload, and cmdTimeoutChecker gives up on old commands.      *)
(*                                                                         *)
(* Each goroutine is a record with a pc.  cmdRegLock and cmdHistoryLock    *)
(* are held across a blocking operation in two places only (the send on a  *)
(* command's channel, and the checker's walk over cmdHistory); elsewhere a *)
(* critical section is one action.  A command is an object that several    *)
(* goroutines hold a pointer to; one nobody refers to is reused.  Times    *)
(* are classes: age is that of requestTime against asicReadTimeouts and    *)
(* asicReadMaxTimeouts, quiet that of cmdReadTime against                  *)
(* asicActivityMinTimeouts and asicActivityMaxTimeouts.                    *)
(***************************************************************************)
EXTENDS Naturals, Sequences, FiniteSets, SequencesExt

CONSTANTS
    Callers,             \* goroutines that call NonBlockingRead
    Payload,             \* (register, chip) pairs
    Requests,            \* the sets of payloads callers ask for
    Objs,                \* bound: the commands alive at once
    QueueCap,            \* capacity of chinput and chinput0 (8 in the code)
    RespCap,             \* capacity of chResp (8 in the code)
    MaxWire,             \* bound: answers in flight on the UART
    MaxCalls,            \* bound: calls made (reads, unless Endless, too)
    Endless,             \* TRUE: callers never stop reading
    Lossy,               \* TRUE: an answer may be lost or fail its CRC
    Dead                 \* payloads of chips that never answer

ASSUME RequestAssumption == Requests \subseteq SUBSET Payload /\ Dead \subseteq Payload
ASSUME CapAssumption     == {QueueCap, RespCap, MaxWire} \subseteq Nat \ {0}
ASSUME ModeAssumption    == {Endless, Lossy} \subseteq BOOLEAN
ASSUME MaxCallsAssumption == MaxCalls \in Nat
ASSUME FiniteAssumption  == IsFiniteSet(Payload)

CONSTANTS None, Hit      \* no command; the frame of a hit result
ASSUME NoneAssumption == None \notin Objs \cup Callers /\ Hit \notin Payload \cup Objs

VARIABLES
    cmds,                \* the commands
    call,                \* what each caller waits for, and its last result
    chinput0, chinput,   \* the queues of cmdwriter, high and low priority
    writer,              \* cmdwriter
    wire,                \* answers on the UART, oldest first
    chResp,              \* the channel from asicRead to cmdreader
    reader,              \* cmdreader
    quiet,               \* class of the time since cmdReadTime
    cmdRegReadMap,       \* payload -> commands that want it, in seq order
    cmdReverseRegReadMap,\* the registered commands
    cmdHistory,          \* the commands the timeout checker looks at
    checker,             \* cmdTimeoutChecker
    calls,               \* number of calls made
    late                 \* history: an answer was lost, or a command aged while
                         \* an answer it wants was on its way

queues == <<chinput0, chinput>>
maps   == <<cmdRegReadMap, cmdReverseRegReadMap>>
vars   == <<cmds, call, queues, writer, wire, chResp, reader, quiet, maps,
            cmdHistory, checker, calls, late>>

\* classes of requestTime: < 200 ms, up to 1000 ms, more
Fresh == 0
Due   == 1
Over  == 2
\* classes of cmdReadTime: < 20 ms ago, up to 100 ms, more
Active == 0
Slow   == 1
Idle   == 2

(* data: the payloads whose value is not -1 any more.  responded and       *)
(* finished: responseTime and finishTime are set.  seen: cmdreader began   *)
(* an iteration after requestTime; dark: requestTime is before the last    *)
(* blackout window.  stale: history, an answer was credited to a command   *)
(* that the timeout checker had released without any.                      *)
asicCmd == [want : SUBSET Payload, data : SUBSET Payload, resps : Nat,
            responded : BOOLEAN, finished : BOOLEAN, completed : BOOLEAN,
            age : {Fresh, Due, Over}, seen : BOOLEAN, dark : BOOLEAN, stale : BOOLEAN]

newAsicCmd(want) ==
    [want |-> want, data |-> {}, resps |-> 0, responded |-> FALSE, finished |-> FALSE,
     completed |-> FALSE, age |-> Fresh, seen |-> FALSE, dark |-> FALSE, stale |-> FALSE]

\* the pointers to commands; an object without one is garbage
Referenced ==
    ToSet(chinput) \cup {writer.cmd, reader.cmd} \cup cmdReverseRegReadMap
        \cup cmdHistory \cup checker.left \cup {call[c].cmd : c \in Callers}

-----------------------------------------------------------------------------
(* The callers.  A caller waits on the channel of its command as soon as   *)
(* the command is queued.  A queued write is None in chinput: nobody waits *)
(* for it, and cmdwriter only passes it on.                                *)

NonBlockingRead(c, want) ==
    /\ call[c].cmd = None
    /\ Endless \/ calls < MaxCalls
    /\ Len(chinput) < QueueCap
    /\ \E o \in Objs \ Referenced :
        /\ cmds' = [cmds EXCEPT ![o] = newAsicCmd(want)]
        /\ chinput' = Append(chinput, o)
        /\ call' = [call EXCEPT ![c].cmd = o]
    /\ calls' = IF Endless THEN calls ELSE calls + 1
    /\ UNCHANGED <<chinput0, writer, wire, chResp, reader, quiet, maps, cmdHistory, checker, late>>

NonBlockingWrite ==
    /\ calls < MaxCalls
    /\ Len(chinput) < QueueCap
    /\ chinput' = Append(chinput, None)
    /\ calls' = calls + 1
    /\ UNCHANGED <<cmds, call, chinput0, writer, wire, chResp, reader, quiet, maps,
                   cmdHistory, checker, late>>

\* ReqestHitResult (and AsicLoad, which is not answered)
ReqestHitResult ==
    /\ calls < MaxCalls
    /\ Len(chinput0) < QueueCap
    /\ chinput0' = Append(chinput0, Hit)
    /\ calls' = calls + 1
    /\ UNCHANGED <<cmds, call, chinput, writer, wire, chResp, reader, quiet, maps,
                   cmdHistory, checker, late>>

-----------------------------------------------------------------------------
(* Removal of a command from the maps and its release: under cmdRegLock.   *)

RegFree  == reader.pc # "stuck" /\ checker.pc # "stuck"
HistFree == checker.pc = "idle"

Waiting(o) == {c \in Callers : call[c].cmd = o}

MutUnregisterFirst(o) ==
    /\ cmdRegReadMap' =
         [p \in Payload |-> IF p = CHOOSE q \in cmds[o].want : TRUE
                            THEN SelectSeq(cmdRegReadMap[p], LAMBDA x : x # o)
                            ELSE cmdRegReadMap[p]]
    /\ cmdReverseRegReadMap' = cmdReverseRegReadMap \ {o}
Unregister(o) ==
    /\ cmdRegReadMap' =
         [p \in Payload |-> IF o \in cmdReverseRegReadMap /\ p \in cmds[o].want
                            THEN RemoveFirst(cmdRegReadMap[p], o) ELSE cmdRegReadMap[p]]
    /\ cmdReverseRegReadMap' = cmdReverseRegReadMap \ {o}

(* releaseCommand: a command released before is skipped, if it was marked  *)
(* completed; the send ends only if the caller is there to receive, else   *)
(* the goroutine is stuck in it with the lock held.  cmd is the command    *)
(* with the changes made before the release.                               *)
MutReleaseNotMarked(o, cmd, val) ==
    /\ cmds' = [cmds EXCEPT ![o] = cmd]
    /\ call' = [c \in Callers |->
                  IF cmd.completed \/ call[c].cmd # o THEN call[c]
                  ELSE [cmd |-> None, val |-> val, whole |-> cmd.data = cmd.want]]
MutReleaseCount(o, cmd, val) ==
    /\ cmds' = [cmds EXCEPT ![o] =
                  [cmd EXCEPT !.completed = @ \/ (cmd.responded /\ cmd.finished)]]
    /\ call' = [c \in Callers |->
                  IF cmd.completed \/ call[c].cmd # o THEN call[c]
                  ELSE [cmd |-> None, val |-> cmd.resps, whole |-> cmd.data = cmd.want]]
releaseCommand(o, cmd, val) ==
    /\ cmds' = [cmds EXCEPT ![o] =
                  [cmd EXCEPT !.completed = @ \/ (cmd.responded /\ cmd.finished)]]
    /\ call' = [c \in Callers |->
                  IF cmd.completed \/ call[c].cmd # o THEN call[c]
                  ELSE [cmd |-> None, val |-> val, whole |-> cmd.data = cmd.want]]
ReleaseSticks(o, cmd) == ~cmd.completed /\ Waiting(o) = {}

-----------------------------------------------------------------------------
(* cmdwriter                                                               *)

\* what cmdwriter does with an entry of a queue
Dispatch(entry) ==
    writer' = IF entry = Hit THEN [pc |-> "hit", cmd |-> None, left |-> {}]
              ELSE IF entry = None THEN [pc |-> "poll", cmd |-> None, left |-> {}]
              ELSE [pc |-> "register", cmd |-> entry, left |-> cmds[entry].want]

(* The high priority queue is polled first; if it is empty cmdwriter waits *)
(* for either queue, and takes any that has an entry.                      *)
WriterPoll ==
    /\ writer.pc = "poll"
    /\ IF chinput0 # <<>>
       THEN Dispatch(Head(chinput0)) /\ chinput0' = Tail(chinput0)
       ELSE writer' = [writer EXCEPT !.pc = "select"] /\ UNCHANGED chinput0
    /\ UNCHANGED <<cmds, call, chinput, wire, chResp, reader, quiet, maps, cmdHistory,
                   checker, calls, late>>
WriterSelect ==
    /\ writer.pc = "select"
    /\ \/ /\ chinput0 # <<>>
          /\ Dispatch(Head(chinput0))
          /\ chinput0' = Tail(chinput0)
          /\ UNCHANGED chinput
       \/ /\ chinput # <<>>
          /\ Dispatch(Head(chinput))
          /\ chinput' = Tail(chinput)
          /\ UNCHANGED chinput0
    /\ UNCHANGED <<cmds, call, wire, chResp, reader, quiet, maps, cmdHistory, checker, calls, late>>

\* createPayloadEntriesInMap: first the maps, then the history
WriterRegister ==
    /\ writer.pc = "register"
    /\ RegFree
    /\ cmdRegReadMap' =
         [p \in Payload |-> IF p \in writer.left
                            THEN Append(cmdRegReadMap[p], writer.cmd) ELSE cmdRegReadMap[p]]
    /\ cmdReverseRegReadMap' = cmdReverseRegReadMap \cup {writer.cmd}
    /\ writer' = [writer EXCEPT !.pc = "history"]
    /\ UNCHANGED <<cmds, call, queues, wire, chResp, reader, quiet, cmdHistory, checker, calls,
                   late>>
WriterHistory ==
    /\ writer.pc = "history"
    /\ HistFree
    /\ cmdHistory' = cmdHistory \cup {writer.cmd}
    /\ cmds' = [cmds EXCEPT ![writer.cmd] =
                  [@ EXCEPT !.age = Fresh, !.seen = FALSE, !.dark = FALSE]]
    /\ writer' = [writer EXCEPT !.pc = "write"]
    /\ UNCHANGED <<call, queues, wire, chResp, reader, quiet, maps, checker, calls, late>>

(* One message to a chip, and what comes of it: an answer on the wire, or  *)
(* none.  MaxWire bounds the wire, and only a lossy one drops what exceeds *)
(* it.                                                                     *)
Answer(frame) ==
    \/ Len(wire) < MaxWire /\ wire' = Append(wire, frame)
    \/ Lossy /\ UNCHANGED wire
WriterWrite ==
    /\ writer.pc = "write"
    /\ \/ \E p \in writer.left :
            /\ writer' = [writer EXCEPT !.left = @ \ {p}]
            /\ IF p \in Dead THEN UNCHANGED wire ELSE Answer(p)
            /\ late' = (late \/ (p \notin Dead /\ wire' = wire))
       \/ /\ writer.left = {}
          /\ writer' = [pc |-> "poll", cmd |-> None, left |-> {}]
          /\ UNCHANGED <<wire, late>>
    /\ UNCHANGED <<cmds, call, queues, chResp, reader, quiet, maps, cmdHistory, checker, calls>>
WriterHit ==
    /\ writer.pc = "hit"
    /\ Answer(Hit) \/ UNCHANGED wire
    /\ writer' = [writer EXCEPT !.pc = "poll"]
    /\ UNCHANGED <<cmds, call, queues, chResp, reader, quiet, maps, cmdHistory, checker, calls,
                   late>>

-----------------------------------------------------------------------------
(* asicRead: a hit result goes to the unbounded qHit, a register value to  *)
(* chResp, where asicRead waits for room.                                  *)
asicRead ==
    /\ wire # <<>>
    /\ IF Head(wire) = Hit THEN UNCHANGED chResp
       ELSE Len(chResp) < RespCap /\ chResp' = Append(chResp, Head(wire))
    /\ wire' = Tail(wire)
    /\ UNCHANGED <<cmds, call, queues, writer, reader, quiet, maps, cmdHistory, checker, calls,
                   late>>

-----------------------------------------------------------------------------
(* cmdreader                                                               *)

(* The head of the loop: more than 50 ms since the last one is a blackout  *)
(* window, which began when the last iteration did.                        *)
ReaderTop ==
    /\ reader.pc = "top"
    /\ \E blackout \in {b \in BOOLEAN : /\ quiet = Idle => b
                                        /\ quiet = Active => ~b} :
          cmds' = [o \in Objs |->
                     IF o \in cmdHistory
                     THEN [cmds[o] EXCEPT !.seen = TRUE,
                             !.dark = IF blackout THEN cmds[o].seen ELSE @]
                     ELSE cmds[o]]
    /\ quiet' = Active
    /\ reader' = [reader EXCEPT !.pc = "select"]
    /\ UNCHANGED <<call, queues, writer, wire, chResp, maps, cmdHistory, checker, calls, late>>

ReaderTake ==
    /\ reader.pc = "select"
    /\ chResp # <<>>
    /\ reader' = [pc |-> "lookup", cmd |-> None, payload |-> Head(chResp)]
    /\ chResp' = Tail(chResp)
    /\ UNCHANGED <<cmds, call, queues, writer, wire, quiet, maps, cmdHistory, checker, calls, late>>

NextAnswer == [pc |-> "top", cmd |-> None, payload |-> Hit]

(* getCmdRegReadFromPayload: the command with the lowest seq.              *)
MutLookupNewest ==
    /\ reader.pc = "lookup"
    /\ RegFree
    /\ LET cs == cmdRegReadMap[reader.payload] IN
         reader' = IF cs = <<>> THEN NextAnswer
                   ELSE [reader EXCEPT !.pc = "credit", !.cmd = cs[Len(cs)]]
    /\ UNCHANGED <<cmds, call, queues, writer, wire, chResp, quiet, maps, cmdHistory,
                   checker, calls, late>>
ReaderLookup ==
    /\ reader.pc = "lookup"
    /\ RegFree
    /\ LET cs == cmdRegReadMap[reader.payload] IN
         reader' = IF cs = <<>> THEN NextAnswer
                   ELSE [reader EXCEPT !.pc = "credit", !.cmd = Head(cs)]
    /\ UNCHANGED <<cmds, call, queues, writer, wire, chResp, quiet, maps, cmdHistory,
                   checker, calls, late>>

(* updatePayload, without a lock: the command may have been released since *)
(* it was looked up.                                                       *)
Released(o) == o \notin cmdReverseRegReadMap /\ ~cmds[o].completed
ReaderCredit ==
    /\ reader.pc = "credit"
    /\ LET o    == reader.cmd
           last == cmds[o].resps + 1 = Cardinality(cmds[o].want)
       IN /\ cmds' = [cmds EXCEPT ![o] =
                        [cmds[o] EXCEPT !.data = @ \cup {reader.payload}, !.responded = TRUE,
                                        !.resps = @ + 1, !.finished = @ \/ last,
                                        !.stale = @ \/ Released(o)]]
          /\ reader' = IF last THEN [reader EXCEPT !.pc = "unhist"] ELSE NextAnswer
    /\ UNCHANGED <<call, queues, writer, wire, chResp, quiet, maps, cmdHistory, checker, calls,
                   late>>

\* removeCommand: first the history, then the maps and the release
ReaderUnhist ==
    /\ reader.pc = "unhist"
    /\ HistFree
    /\ cmdHistory' = cmdHistory \ {reader.cmd}
    /\ reader' = [reader EXCEPT !.pc = "unreg"]
    /\ UNCHANGED <<cmds, call, queues, writer, wire, chResp, quiet, maps, checker, calls, late>>
ReaderUnreg ==
    /\ reader.pc = "unreg"
    /\ RegFree
    /\ LET o == reader.cmd IN
         /\ Unregister(o)
         /\ releaseCommand(o, cmds[o], 0)
         /\ reader' = IF ReleaseSticks(o, cmds[o])
                      THEN [reader EXCEPT !.pc = "stuck"] ELSE NextAnswer
    /\ UNCHANGED <<queues, writer, wire, chResp, quiet, cmdHistory, checker, calls, late>>

-----------------------------------------------------------------------------
(* cmdTimeoutChecker, and the passing of time                              *)

OnTheWay(o) ==
    \/ writer.cmd = o
    \/ reader.cmd = o
    \/ (ToSet(wire) \cup ToSet(chResp) \cup {reader.payload}) \cap cmds[o].want # {}

\* a command requested since cmdreader's last iteration is not older than
\* that, nor than one requested before it
Age(o) ==
    /\ o \in cmdHistory
    /\ cmds[o].age # Over
    /\ ~cmds[o].seen =>
          /\ quiet = Idle
          /\ \A x \in cmdHistory : cmds[x].seen => cmds[x].age > cmds[o].age
    /\ late' = (late \/ OnTheWay(o))
    /\ cmds' = [cmds EXCEPT ![o].age = @ + 1]
    /\ UNCHANGED <<call, queues, writer, wire, chResp, reader, quiet, maps, cmdHistory,
                   checker, calls>>
Quieten ==
    /\ quiet # Idle
    /\ quiet' = quiet + 1
    /\ UNCHANGED <<cmds, call, queues, writer, wire, chResp, reader, maps, cmdHistory,
                   checker, calls, late>>

\* a command older than asicReadTimeouts but not asicReadMaxTimeouts is
\* put off when requestTime is before the blackout window (and then counts
\* from its end), or cmdreader is idle, or is active
PutOff(o) == cmds[o].age = Due /\ (cmds[o].dark \/ quiet \in {Idle, Active})
Expired(o) == cmds[o].age # Fresh /\ ~PutOff(o)

(* The walk over cmdHistory; the lock is kept until every expired command  *)
(* is released.                                                            *)
MutScanForgets ==
    /\ checker.pc = "idle"
    /\ LET old  == {o \in cmdHistory : Expired(o)}
           dark == {o \in cmdHistory \ old : cmds[o].age = Due /\ cmds[o].dark}
       IN /\ checker' = [pc |-> IF old = {} THEN "idle" ELSE "expire", left |-> old]
          /\ cmdHistory' = (cmdHistory \ old) \ dark
          /\ cmds' = [o \in Objs |-> IF o \in dark
                                     THEN [cmds[o] EXCEPT !.age = Fresh, !.dark = FALSE]
                                     ELSE cmds[o]]
    /\ UNCHANGED <<call, queues, writer, wire, chResp, reader, quiet, maps, calls, late>>
CheckerScan ==
    /\ checker.pc = "idle"
    /\ LET old  == {o \in cmdHistory : Expired(o)}
           dark == {o \in cmdHistory \ old : cmds[o].age = Due /\ cmds[o].dark}
       IN /\ checker' = [pc |-> IF old = {} THEN "idle" ELSE "expire", left |-> old]
          /\ cmdHistory' = cmdHistory \ old
          /\ cmds' = [o \in Objs |-> IF o \in dark
                                     THEN [cmds[o] EXCEPT !.age = Fresh, !.dark = FALSE]
                                     ELSE cmds[o]]
    /\ UNCHANGED <<call, queues, writer, wire, chResp, reader, quiet, maps, calls, late>>

CheckerExpire(o) ==
    /\ checker.pc = "expire"
    /\ o \in checker.left
    /\ RegFree
    /\ LET cmd == [cmds[o] EXCEPT !.finished = TRUE] IN
         /\ Unregister(o)
         /\ releaseCommand(o, cmd, 1)
         /\ checker' = IF ReleaseSticks(o, cmd)
                       THEN [pc |-> "stuck", left |-> checker.left]
                       ELSE [pc   |-> IF checker.left = {o} THEN "idle" ELSE "expire",
                             left |-> checker.left \ {o}]
    /\ UNCHANGED <<queues, writer, wire, chResp, reader, quiet, cmdHistory, calls, late>>

-----------------------------------------------------------------------------
Init ==
    /\ cmds = [o \in Objs |-> newAsicCmd({})]
    /\ call = [c \in Callers |-> [cmd |-> None, val |-> 1, whole |-> FALSE]]
    /\ chinput0 = <<>>
    /\ chinput = <<>>
    /\ writer = [pc |-> "poll", cmd |-> None, left |-> {}]
    /\ wire = <<>>
    /\ chResp = <<>>
    /\ reader = NextAnswer
    /\ quiet = Active
    /\ cmdRegReadMap = [p \in Payload |-> <<>>]
    /\ cmdReverseRegReadMap = {}
    /\ cmdHistory = {}
    /\ checker = [pc |-> "idle", left |-> {}]
    /\ calls = 0
    /\ late = FALSE

Writer  == WriterPoll \/ WriterSelect \/ WriterRegister \/ WriterHistory
               \/ WriterWrite \/ WriterHit
Reader  == ReaderTop \/ ReaderTake \/ ReaderLookup \/ ReaderCredit
               \/ ReaderUnhist \/ ReaderUnreg
Checker == CheckerScan \/ \E o \in Objs : CheckerExpire(o)

Next ==
    \/ \E c \in Callers, want \in Requests : NonBlockingRead(c, want)
    \/ NonBlockingWrite
    \/ ReqestHitResult
    \/ Writer
    \/ asicRead
    \/ Reader
    \/ Checker
    \/ \E o \in Objs : Age(o)
    \/ Quieten

(* The goroutines of EnableAsyncRW are scheduled again and again, and time *)
(* passes for each command.  A goroutine that waits for cmdHistoryLock      *)
(* gets it in the end: sync.Mutex hands it to a waiter that starves.       *)
(* Nothing makes a caller call.                                            *)
Fairness ==
    /\ WF_vars(Writer)
    /\ WF_vars(asicRead)
    /\ WF_vars(Reader)
    /\ WF_vars(Checker)
    /\ SF_vars(ReaderUnhist)
    /\ SF_vars(WriterHistory)
    /\ WF_vars(Quieten)
    /\ \A o \in Objs : WF_vars(Age(o))

Spec     == Init /\ [][Next]_vars
FairSpec == Spec /\ Fairness

-----------------------------------------------------------------------------
(* Every variable has its type.                                            *)
TypeOK ==
    /\ cmds \in [Objs -> asicCmd]
    /\ call \in [Callers -> [cmd : Objs \cup {None}, val : {0, 1}, whole : BOOLEAN]]
    /\ chinput0 \in Seq({Hit})
    /\ chinput \in Seq(Objs \cup {None})
    /\ writer \in [pc : {"poll", "select", "register", "history", "write", "hit"},
                   cmd : Objs \cup {None}, left : SUBSET Payload]
    /\ wire \in Seq(Payload \cup {Hit})
    /\ chResp \in Seq(Payload)
    /\ reader \in [pc : {"top", "select", "lookup", "credit", "unhist", "unreg", "stuck"},
                   cmd : Objs \cup {None}, payload : Payload \cup {Hit}]
    /\ quiet \in {Active, Slow, Idle}
    /\ cmdRegReadMap \in [Payload -> Seq(Objs)]
    /\ cmdReverseRegReadMap \in SUBSET Objs
    /\ cmdHistory \in SUBSET Objs
    /\ checker \in [pc : {"idle", "expire", "stuck"}, left : SUBSET Objs]
    /\ calls \in 0 .. MaxCalls
    /\ late \in BOOLEAN

(* The two maps say the same: a command stands, once, under each payload   *)
(* it wants from the moment it is registered until it is removed, by       *)
(* cmdreader or by the timeout checker, and under no other.                *)
MapsAgree ==
    \A p \in Payload :
        /\ ToSet(cmdRegReadMap[p]) = {o \in cmdReverseRegReadMap : p \in cmds[o].want}
        /\ \A i, j \in DOMAIN cmdRegReadMap[p] :
              cmdRegReadMap[p][i] = cmdRegReadMap[p][j] => i = j

(* No caller is forgotten: the command it waits for is queued, in          *)
(* cmdwriter's hands, or registered and then either watched by the timeout *)
(* checker or about to be released.  (Whoever waits otherwise waits for    *)
(* ever: its channel has no other sender.)  And no caller is answered that *)
(* has gone: a registered command has a caller that waits for it, so a     *)
(* late answer is not credited to a call that timed out before.            *)
CallerNotForgotten ==
    /\ \A c \in Callers : call[c].cmd # None =>
          LET o == call[c].cmd IN
          \/ o \in ToSet(chinput)
          \/ writer.cmd = o /\ writer.pc = "register"
          \/ /\ o \in cmdReverseRegReadMap
             /\ \/ o \in cmdHistory \cup checker.left
                \/ writer.cmd = o /\ writer.pc = "history"
                \/ reader.cmd = o /\ reader.pc = "unreg"
    /\ \A o \in cmdReverseRegReadMap : Waiting(o) # {}

(* What "marks it as done if all responses received" says: as long as no   *)
(* answer was lost or overtaken by a timeout, a call that returns success  *)
(* has a value for every payload it asked for, although overlapping reads  *)
(* are credited oldest first.  (The count of answers alone cannot tell.)   *)
ResultComplete == ~late => \A c \in Callers : call[c].val = 0 => call[c].whole

(* What "If this command is already processed return" is there for: a      *)
(* command that both cmdreader and the timeout checker end is sent for     *)
(* once, and neither is left sending with cmdRegLock held.  The one        *)
(* exception is a command that the checker released while cmdreader was    *)
(* between its lookup and its first answer: that is not marked, and        *)
(* cmdreader sends again.                                                  *)
SentOnce ==
    /\ checker.pc # "stuck"
    /\ reader.pc = "stuck" => cmds[reader.cmd].stale

(* What "we will timeout the cmd anyway" says: every call returns, with    *)
(* its values or after the timeout.                                        *)
ReadsReturn == \A c \in Callers : call[c].cmd # None ~> call[c].cmd = None
=============================================================================
