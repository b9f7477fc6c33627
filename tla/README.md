# A TLA+ model of eval_miner

`eval_miner` (Go, `src/eval_miner`) drives an evaluation Bitcoin miner: it keeps stratum
sessions with mining pools, turns the pool's jobs into work for a hash board of ASICs,
talks to the ASICs over a UART, collects results and submits shares, and controls the
board's power, frequency and temperature.  This directory models the parts of it whose
behaviour depends on the order in which goroutines, messages and timers act, checks them
with TLC on small instances, and proves the most important invariants with TLAPS.

## 1. The system

| component | source (`src/eval_miner/`) | state | operations | talks to |
|---|---|---|---|---|
| Pool manager | `pool/manager.go`, `pool/data.go` | list of pools, current index, exit flag, under `mx` | AddPool, RemovePool, EnablePool, DisablePool, SwitchPool, UpdatePools, Run (every 100 ms), Get | pool runtimes; the API |
| Pool runtime | `pool/pool.go` | enabled/running/unreachable/rejecting flags, statistics, its session | Start, Stop, Run (a goroutine), UpdateShares and other callbacks | stratum session |
| Stratum session | `pool/stratum/*.go`, `job/share.go`, `job/jobQ.go`, `jsonrpc/client.go` | State, job queue, share map, flags; no lock on State | Run (Tx loop), handleResponse (Rx goroutine), Submit, GetJob, Dial | pool server over TCP; device manager through DevFunc |
| Device manager, device, HW jobs | `device/manager.go`, `device/device.go`, `device/asicboard.go`, `device/hw-job.go` | jobs in flight by hardware id, results queue, counters | AddJob, GetResult, Run, PollResult, PostScan, RemoveStaleJob | session; ASIC board |
| ASIC register I/O | `device/asicio/*.go` | command queues, two maps and a history of commands, two locks | NonBlockingRead/Write, four goroutines | UART, ASIC board, DVFS |
| ASIC board | `device/asic/aura-asic.go`, `adapter.go` | chip table, hit statistics ring, caches | AsicDetect, SendJob, CheckResults, counters | asicio |
| DVFS | `device/asic/dvfs2.go`, `dvfs.go`, `tuning.go` | tuning state machine, target voltage/frequency/hash rate | DVFS loop, tuneInit, standby | ASIC board, PSU, temperature |
| PSU | `device/psu/psu.go`, `low_power_mode.go` | cached voltage, on/off flags, fan state, several locks | SetVoltage, power on/off, SetSleep, polling goroutines | smbus |
| Power state | `device/powerstate/power-state.go` | hash-board power and reset lines | HbReset, HbPowerOn/Off, SystemPowerOff | devhdr, i2c |
| Sensors and actuators | `device/temperature`, `device/fan`, `device/pwm`, `device/i2c`, `device/smbus` | device handles | reads and writes | hardware |
| JSON-RPC | `jsonrpc/server.go`, `tcpclient.go` | connections | serve, redial, send and receive | network |
| Jobs, blocks, statistics, configuration, utilities | `job`, `block`, `config`, `util`, `system`, `version`, `log`, `predefine` | mostly pure data | parsing, hashing, rates | everything |

What is hard here: the pool list is edited by an API while a scheduler and the pools'
goroutines run (and those never take the lock); a session's State is written by two
goroutines without a lock; answers on the UART carry no request number and may be late,
lost or duplicated; commands time out while their answers are being handled; hardware job
ids wrap after 15; voltage and power are cached on one side of a lock and read on the other.
`PROJECT.json` lists these hazards with their lines.

### What makes each part correct

- **Pool manager and runtimes.** Ids and priorities stay a dense numbering of the list after
  any sequence of operations; only the pool being mined on is not told to stop; no pool is
  run by two goroutines; a pool told to stop ends; mining resumes whenever some pool is
  enabled; the active pool cannot be removed.
- **Register I/O.** The map by register, the history and the callers agree; a caller gets
  every value it asked for or an error, exactly once, and should always return; no goroutine
  should be left blocked with `cmdRegLock` held (the last two do not hold: `asicio_stuck`).
- **Stratum session.** An answer is taken for what it answers; a job carries the extranonce
  of its connection, if the server gave one; a share is counted once; a session that is
  stopped or loses its connection returns.
- **Jobs and results.** A share is submitted for the job it was found for and once; work is
  never set back to an older job; the newest job is what the ASICs end up with.
- **DVFS.** The frequency goes up only from the lowest voltage; an overheated system stays
  off; tuning ends; a reduced target takes effect.
- **PSU, power state.** The cached power state is the PSU's; the monitor tells a trip from a
  switch-off; a board is never in reset under hash power, and gets that power only at the
  lowest voltage and out of low-power mode, also after a process that ended anywhere; no lock
  stops anybody for ever.
- **ASIC board.** Hits that were counted are reported once; every chip is polled; a board is
  given up only after rounds in a row in which more of its chips were silent than half the
  configured `MaxAsicsInChain`.
- **Byte stream of the UART.** A frame is delivered whole, in order and at most once; a lost
  byte costs no more than its neighbourhood.

## 2. Modules

| module | what it is |
|---|---|
| `PoolManager` | pool manager and pool runtimes: the list, its API, the scheduler, pool goroutines |
| `AsicIO` | the pipelined register reads of `asicio` |
| `Frames` | the byte stream under them: `asicRead`'s cutting and mending of frames |
| `Session` | what the pool manager relies on in a session: it runs, and it returns |
| `Stratum` | one stratum session: `Stratum.Run`, the receiving goroutine, the connection, the server |
| `Mining` | jobs on their way to the ASICs and shares on their way back |
| `Board` | one hash board: detection, polling for hits, hit counters, silent chips |
| `Dvfs` | the loop that tunes voltage and frequency |
| `Power` | PSU, monitor, low-power mode, hash power and reset of the boards |
| `PoolManagerProofs`, `AsicIOProofs`, `FramesProofs`, `StratumProofs`, `MiningProofs`, `BoardProofs`, `DvfsProofs`, `PowerProofs` | theorems about all of them but `Session` |
| `MC<module>` and its `.cfg` files | instances for TLC |

The modules meet at narrow interfaces.  `PoolManager` sees a session only as something a
pool's goroutine dials and that returns; `Session` states that promise and `Stratum` is
shown to implement it.  `Stratum` takes shares from and gives jobs to an environment that
`Mining` details, and `Mining` sees a session as a source of jobs and a sink of results.
`Mining` polls the ASICs as an environment that reports hits; `Board` is how a board's hits
are fetched and counted, `AsicIO` how a register is read, and `Frames` why an answer is
delivered whole, in order and at most once, or lost, which is what `AsicIO` assumes of the
UART.  `Board` takes from `AsicIO` the ways in which a read ends (`ResultComplete`), and
assumes that it ends, which is so unless `cmdreader` gets stuck (`asicio_stuck`).  `Dvfs`
reads temperatures, power and hit rates as arbitrary values and sees of the PSU the voltage
and the power; `Power` details what the PSU and the pins do and sees of DVFS when it changes
the voltage, goes to standby or gives a board up.

### PoolManager

`rt` is the heap of `PoolRuntime` objects in creation order; the list `Pools`, the
scheduler's local `currentpool` and the goroutines `gos` hold references to it, because a
pool that was removed from the list lives on in its goroutine.  Every API operation and
every scheduler pass holds `mx` throughout and is one action; `UpdatePools` is the exception
and is the actions `UpdatePools`, `UpdateCompare`, `UpdateRemoveAll`, `UpdateAdd`,
`UpdateEnd`, between which anything may happen (the initial `ApplyConfig` runs through the
same actions while `mgr = "init"`).  A pool goroutine is a slot of `gos` with a program
counter: `spawned` (the `go` statement was executed), `top` (head of the loop in
`PoolRuntime.Run`), `dial1`/`conn1` and `dial2`/`conn2` (first session, and the second with
the same subscription), `exit`.  `PromptStart = TRUE` says that a goroutine is scheduled
before the next scheduler pass 100 ms later; `FALSE` allows any delay.

### AsicIO

Each of the four goroutines of `EnableAsyncRW` is a record with a program counter.  A command
is an object of `Objs`, reused when nobody refers to it.  The send on a command's unbuffered
channel succeeds when its caller waits there and otherwise leaves the goroutine in the state
`stuck`, with `cmdRegLock` held.  Times are classes: the age of a request (under 200 ms, up
to 1000 ms, more) and the time since `cmdreader` was last active (under 20 ms, up to 100 ms,
more).  `Lossy` lets answers disappear, `Dead` names chips that never answer.  `cmdreader`'s
look-up of a command and its crediting it are two steps, between which the timeout checker
may act: the comment at `cmdrw.go:320` says that `cmdreader` may be descheduled for long.
`late` and a command's field `stale` are history variables.  `late`: an answer was lost, or a
command aged while an answer it wants was on its way; as long as it is false a read that
succeeds has every value (`ResultComplete`).  `stale`: an answer was credited to a command
that the checker had released since it was looked up.  Such a command is not marked as
completed, and `cmdreader` releases it again: it sends on a channel nobody receives from,
with `cmdRegLock` held, and from then on no read is registered, answered or timed out
(`asicio_stuck`).  `SentOnce` says that this is the only way to it.

### Frames

`Stream` is what the ASICs sent, a sequence of frames of numbers; `Init` chooses the bytes
that are lost (`Left` is what arrives of one frame, `Arriving` of all), `Read` takes any
number of the bytes there are (up to the size of the read buffer), and `Leftover` is one
round of `asicRead` from its label `leftover`: align to the magic, mend a magic that lost a
byte, cut a frame, hand it to `checkCfgRespRaw` or to the hit results, keep the rest.
Offsets are those of the source plus one.  The first byte of a CRC is a number that stands
nowhere else (`CrcAssumption`), so that a CRC fits its frame only: the model takes the CRC
for perfect.  What is not covered by the properties, because the code does it: a register
whose value is the magic is taken for the start of a frame, and a read that fills the buffer
after a frame that lost a byte of its magic leaves more than fits, and the copy drops the
rest (`overrun`; "shouldn't happen, but it did once", `device/asicio/cmdrw.go:480`).

### Session and Stratum

`Session` has two actions of interest, dialling and returning, and says that a session that
was told to stop, or whose connection the server closed (`closed`), returns.  `Stratum` has
one program counter for `Stratum.Run` (`tx.pc`: `top` of the loop, the write of a request,
the assignment of `State` that follows the write, the steps of `STATE_GETJOB`, submission,
the way out) and one for the receiving goroutine (`rx`).  A request is written in one step
and `State` is assigned in a later one, as in the code, so an answer may be handled in
between.  `Rxchan` is the channel of one through which the receiver says EOF.  `ExtraNonce1`
is a class (nobody's, an old connection's, this connection's). An answer to `subscribe`
without an extranonce (an error, null) leaves it as it was, while the handshake goes on;
`refused` remembers that, and is what `JobsOfThisConnection` excepts: the jobs then carry
what the session was begun with, until the server sends another by `mining.set_extranonce`.
(TLC finds an old connection's if the exception is taken away.) An array of fewer than three
entries, which ends the process, is left out. `shmap` is the share map and `counted` how
often `ShareFunc` was called.  `InTime` says that the server answers `configure` within 5 s
or never; without it TLC finds that a late answer is taken for the answer to `subscribe`,
and that `AuthorizeResult` then panics on it.

### Mining

`Jobs` is the map of `HWJobs` by `HWCtxID`; `ID` is its counter, which wraps at `IDMax`;
`Results` the list of results.  `s` is where `Stratum.Run` is (it takes results until there
are none, then adds a job, perhaps clearing the others first) and `d` where `Device.Run` is
(poll, `PostScan`, `AddResult`, `GetJob`, `PreScan`, `Scan`).  A nonce meets the difficulty
of the job it was found for and of no other.  `loaded` remembers what was loaded into the
ASICs.  The session adds at most `MaxBurst` jobs between two moments at which every result
has been drained; `MaxBurst <= IDMax - IDMin` is what makes `ForItsJob` hold, and it is
tight: with one more TLC finds a share submitted for a later job with the same id.  The
assumption is mild (a board has 15 ids, and `Run` drains the results before each job).

### Board

`AsicDetect` is the two actions `FirstAttempt` and `SecondAttempt`, at the baud rate of a
reset chip and at the one the last process left the chips at; `baud` is what the chips
listen at and `aa.baudRate` what the program uses.  `CheckResults` is the steps `top`
(counters), `hit` (is there a hit, are polls due), `wait` and `report`; `aa` is the `AuraAsic`
of the board.  A pipelined read of the board ends in one of the three ways in which `AsicIO`
lets it end, by way of `ReadRegsPipelined`: complete; incomplete and noticed; or incomplete
with another answer counted twice.  The second ends the process, because
`updateAsicFaultyTracker` writes to a map that is never made (`aura-asic.go:914`), and so no
chip is ever marked faulty; `Panic` is that end, and `Restart` the supervisor's new process,
which resets the boards or, if its accesses fail, finds them as they were.  How many chips
may be silent is half of `MaxAsicsInChain` of the chassis configuration (`dvfs.go:467`),
which is 0 if the configuration has no limits for the model: one silent chip then gives the
board up.  `owed`, `lapped`
and `rounds` are history variables: the hits recorded and not yet reported, whether the ring
of readings ran over since the last report, and the silent chips of the last rounds of DVFS.

### Dvfs

One goroutine runs `dvfsMainloop`; `secs` counts the seconds of a round down
(`perSecondCheck`), then one of `Waiting`, `TooHotInCycle`, `Tuning`, `Normal` is the rest of
the round.  The readings are chosen by class: hit rate up to `start_rate`, up to `low_rate`,
above; power below, between and above the water marks.  `voltage` is what `dd.voltage` says,
`vout` what the PSU was told last, and `written` (a history variable) whether the last write
succeeded: `SetVoltage` ignores its error.  `Bogus` allows readings of 20000 W and more,
which `checkPower` ignores.  Voltages are counted in `voltage_step`s and target hash rates
in levels; the back-off percentage is exact (multiples of 1/60000).  `DVFS_TUNE_OPTIMIZE`,
which nothing enters, and the dead-board marking (it is in `Board`) are left out; `powerHigh`
only controls logging and is left out too.

### Power

Four goroutines act on the PSU and the pins: `main` (`DeviceManager.Init` and `Run`), `dvfs`,
`mon` (the PSU monitor) and `lp` (`LowPowerMode.Mon`); `at` says where each is, `ii` which
board or attempt its loop is at.  A register access is two steps, `psuGet` and the rest up to
`psuFree`, with `psuMutex` held between them; `poweredOnMu` is held across the access of
`PsuOn`, `PsuOff` and the poll.  An access that fails may have taken effect.  When
`smbus.Open` fails `psuGet` has already unlocked `psuMutex` and its caller unlocks it again:
`UnlockFatal` ends the process if nobody else holds it, and otherwise another goroutine's
access goes on unprotected.  `Killed` ends the process at any step, `Restart` starts a new
one; the registers of the PSU (`on`, `asleep`, `vout`) and the pins (`vdd`, `reset`) keep
their values, the rest begins anew.  `tripped` and `unsure` are history variables: the PSU
switched itself off since it was last switched on, and the registers of which this process
cannot know what they are, because it has not written them or a write failed.

Two things the model shows and no document speaks about: on a chassis without
`HbPowerSupport` `SystemPowerOff` resets boards that have VDD (the comment at
`powerstate/power-state.go:155` says one should not; there no pin controls it), and
`SetPsuType` clears `psuAddr` for a moment while `LowPowerMode.Mon` may be reading, which
then takes the PSU for one in normal mode.

## 3. What is checked

`PROJECT.json` names, for each property of a passing run, a mutant: a plausible bug in a
mapped definition that makes the property fail in the same run.

| run | question | result |
|---|---|---|
| `pool` | can any mixture of API calls, reloads, scheduler passes and goroutines spoil the list, leave a second pool running, strand a Running flag or run a pool twice? do stopped pools end and does mining resume? | no; yes |
| `pool_remove` | is removing the active pool refused (`MSG_REMOVE_ACTIVE_POOL`)? | **no**: after `SwitchPool` moved it, `CurrentPoolIndex` names another |
| `asicio_maps` | do the maps, the history and the callers agree through losses, time-outs and a descheduled reader, has a successful read every value it asked for, and is a command sent for once? | yes; the values unless an answer was lost or overtaken by a time-out, the sending unless a released command was credited |
| `asicio_stuck` | does every read return ("we will timeout the cmd anyway")? | **no**: a command released between `cmdreader`'s look-up and its crediting it is released twice, the second time for ever |
| `frames` | what do lost bytes cost, wherever the reads cut the stream? | no duplicate, no disorder, two frames a byte at most, and nothing if it was one of a magic and the frames around are whole |
| `stratum_session` | answers, extranonces, share counts, and the session's promise to the pool manager | hold |
| `stratum_idle` | does the idle timer set "in case we do not ever receive a job" end an idle session? | **no**: a dropped answer to `authorize` leaves it waiting where the timer is not looked at |
| `mining_flow` | is each share submitted once and for its own job, does the newest job win, do hits reach the pool? | yes |
| `board` | are counted hits reported once, is every chip polled, is a board given up only for a reason, while reads fail and the process ends and starts again? | yes, except for a ring of readings that ran over |
| `dvfs_tune` | frequency at the lowest voltage, the law of the back-off, what leaves standby, whether tuning ends | hold; the exceptions are part of the properties |
| `dvfs_target` | is a changed target applied ("perSecondCheck() will apply the change")? | **no**: `curTargetTHS` is assigned once, before the loop |
| `power` | do crashes, trips and failing accesses break the reset interlock, the cached power state, the order of powering up, the monitor's judgement, or block a lock? | no |

### Bounds

- `pool`: lists of up to 2 pools (`MAX_POOL_NUMBER`) made from two valid configurations and
  an invalid one, an empty list, one of the invalid entry alone and one longer than the
  maximum; two runtime objects at most and two goroutines at a time, so that a removed pool
  outlives its list entry; one API call or reload after the initial one (and any pool that
  was disabled may be enabled again), and prompt goroutines, which is what keeps the graph
  small enough for liveness.  Failures, rejections and disconnections of the pools are not
  bounded.  The safety properties are proved for lists, objects, calls and delays of any
  number; only `OneGoroutinePerPool` needs the promptness, in the proof too.
- `asicio_maps`: two commands alive at once, two callers, reads of one register and of two
  that overlap, queues of one (so that every queue is full at some time), two answers on the
  UART, two calls.  Credit to the wrong command needs exactly two overlapping commands; a
  third caller adds no new kind of conflict, since the maps hold queues per register.
  `asicio_stuck`: reads of one register and one answer on the UART, which is all that its
  counterexample needs.
- `Frames`: six frames (answers of two chips, hits, some whose data or CRC ends like a magic
  begins), a read buffer of 33 bytes and hit results of 18 instead of 1024 and 92, so that
  reads end at every place and fill the buffer; up to two lost bytes, from the magic, the
  header and the end of the first four frames.
- `Stratum`: two shares (a failed submission followed by a successful one), one unsolicited
  message, one retry; connections are dialled again after each.
- `Mining`: 2 hardware ids for 4 jobs, so that each id comes back; 2 hits, one hash rate
  update.
- `Board`: 3 chips with the ids 0, 1 and 4 (so that the gap in the ids is crossed), batches
  of 2 (so that the last batch is short), a ring of 2 readings (so that it runs over), readings
  of more hits than are believed, 1 tolerated round of silence, `MaxAsicsInChain` 2 and 2 of
  the 3 chips silent, which is one more than the half of it; 2 hits at a time and 1 loss.
- `Power`: one board, three kinds of PSU (with a watchdog and a sleep mode, with neither,
  none), accesses and opens that fail, any number of crashes, trips and restarts.  Two boards
  pass as well (187,889 states) and are left to the proofs, which are for every number.
- `Dvfs`: 8 voltage steps, steps up of 1 or 2 and down of 3 (so that lowering overshoots
  and raising has to be cut off at the top), 3 target levels of which 2 are above the
  least, up to 2 seconds per round.

### Fairness

- `PoolManager`: weak fairness of the scheduler's tick (its loop sleeps 100 ms and repeats),
  of the reload in progress, and of each pool goroutine's own steps, including that a
  session told to stop returns, which is what `Stratum` is shown to provide.  None of the
  API: nobody has to call it.
- `AsicIO`: weak fairness of the four goroutines and of time; strong fairness only of the
  two steps that take `cmdHistoryLock` against goroutines that take it again and again
  (Go's mutex is starvation-free).
- `Stratum`: weak fairness of the two goroutines, of the passing of time and of the server's
  answers.  The network may lose and close at will.  A write is assumed to return.
- `Mining`: weak fairness of the two loops.  None of the ASICs.
- `Board`: weak fairness of each step of `CheckResults`, which `Device.Run` calls over and
  over, and of the answer of a chip that listens; strong fairness of `pollHitResults`: the
  10 ms after which polls are due pass, though at any one call they may not have.  None of
  DVFS, of hits, or of the restart.
- `Power`: strong fairness of each goroutine, because Go's mutex hands itself to a waiter
  that starves.  None of what DVFS decides, of trips, or of the end and the restart of the
  process.  `Frames` has no liveness property.
- `Dvfs`: weak fairness of the loop, which never blocks.  None of the readings: `TuneEnds`
  names the readings that keep tuning from ending.

`CHECK_DEADLOCK FALSE` is given where the system may stop: the pool manager without pools
and calls, register I/O when all calls are done or `cmdreader` is stuck, a
session that has returned, a stream that was read to its end.  `Power` says it too: the
process may stay ended.

## 4. What is proved

For every value of the constants (under the named assumptions in the modules):

- `PoolManagerProofs`: `TypeCorrect`; `ListWellLaidOut` (ids and priorities are dense after
  every operation); `OnePoolAtATime` (`OnlyCurrentUnstopped`); `RunningIsHonest`
  (`RunningHasGoroutine`).  The last two rest on one invariant, `SchedInv`: that a pool
  whose Running flag is set has a goroutine is not inductive, because the goroutine sets the
  flag after it was started; the strengthening is that it has one which has *begun*.  The
  proof has one lemma per operation of the list (what it does to the heap, to the numbering
  and to the flags), then one step per action.  `PoolRunByOne` (`OneGoroutinePerPool`, by the
  promptness): from its first step to its last a goroutine has its pool's Running flag set
  (`LiveIsRunning`), so the scheduler, which starts only a pool whose flag is clear, and finds
  no goroutine that is still to begin, starts none beside it (`Alone`).
- `DvfsProofs`: `TypeCorrect`; `FrequencyAtLowVoltage` (`LowVoltageFirst`), for which it must
  be known that the PSU has `dd.voltage` unless the last write failed (`PsuFollows`), since
  `TUNE_INIT` looks at `dd.voltage` only; `StandbyKept` (`StandbyHolds`), for which it must
  be known that in STANDBY the system is off, so that a real reading cannot be above the
  limit; `BouncesEnd` (`BackOffLaw`), for which it must be known that after a sixth bounce the
  target was not raised again (`BackOffInv`): reductions and raises take turns, a reduction
  after another is no bounce, and a raise is made after fewer than five.
- `StratumProofs`: `TypeCorrect`; `AnswersTaken` (`AnswersMatch`) and
  `JobsAreThisConnections` (`JobsOfThisConnection`), both if an answer to `configure` takes
  less than 5 s (`InTime`), the second also unless `subscribe` was answered without an
  extranonce (`refused`, in `ThisNonce`).  The invariant `Conversation` says that the
  handshake has one message on its way at a time, in either direction: while a request is
  awaited, or written and about to be, nothing but that request or its answer is on the
  connection (`Expected`); before a request nothing is (`Silence`); and an answer in hand
  that will be taken for the answer to a request is that, while `Run` waits (`Awaited`).
  That `Run` may assign `State` after the answer was handled, or overwrite DISCONNECT, is
  what makes each of these necessary.  Lemmas say what each step does to the traffic; the
  two goroutines and the environment then have one lemma each.  `SessionSteps` is the safety
  half of the refinement of `Session` (`ImplementsSession`): under `InTime` the initial
  states map to its initial states and every step to one of its steps or none.  It needs
  `Outcome`: `Run` gives a pool up as unreachable only instead of connecting, and has closed
  the connection when it is over.  `InTime` is needed because a panic of the receiver after
  `Run` is over would undo the end of the mapped session.
- `StratumProofs` also has `SharesCountedOnce` (`CountedOnce`), which does without
  `InTime`.  The invariant says of each share that at most one copy of it is on its way, as
  a request, as an answer or in the receiver's hand; that a counted share has none; and that
  a share which may still be sent (new, or in `shmap` after a failed send) has none and was
  not counted.
- `AsicIOProofs`: `TypeCorrect`; `MapsAlwaysAgree` (`MapsAgree`); `CallersNotForgotten`
  (`CallerNotForgotten`), with any losses and wherever `cmdreader` is descheduled.  A command that
  is queued or in `cmdwriter`'s hands (`New`) is not in the maps, the history or another
  goroutine's hands (`Used`), because an object is taken again only when nobody refers to it;
  so registering it cannot make it stand twice in a list.  A command marked completed has
  nobody waiting, so whoever releases it second disturbs no caller (`WaitInv`).  Most steps
  are `Calm`: they take no command on and give none up; each of the others has a lemma, and
  the two releases share one.  Removing the first occurrence is removing the command only if
  it stands once (`RemoveOnce`), which is why both halves of `MapsAgree` are proved together.
  `CommandsSentOnce` (`SentOnce`): a command in the history or in the checker's hands is
  registered, hence waited for, or marked completed, and so is the one that `cmdreader` is
  ending, unless it is `stale` (`SendInv`).
  `ResultsWhole` (`ResultComplete`) is about answers that carry no request number.  Its
  invariant is a ledger (`LedgerInv`), kept as long as `late` is false.  A registered command
  has counted as many answers as it has values (`Books`).  There are an order of the commands,
  in which the lists of the map by register are sorted, and an owner for each answer in
  flight, such that each value that was asked for and has not come is in flight to its
  command exactly once, and answers come in the order of their owners (`Flow`).  Hence the
  first command under a register is the owner of the first answer for it, and counting
  answers is counting values.  The order and the owners exist without being variables of the
  model: each action's lemma names the next ones.  `Dead = {}` (every chip answers, as in the
  run) is needed: a command that waits for a chip that never answers stays the first under
  its other registers, where the answer to another read is credited to it a second time, and
  the count completes it with a value missing.
- `FramesProofs`: `TypeCorrect` (what `asicRead` keeps is never longer than one read) and
  `FramesStayInOrder` (`FramesInOrder`), for streams of any number of frames, any losses and
  any reads.  The first byte of a frame's CRC is its mark, which stands nowhere else.  The
  invariant (`FramesInv`) is that the marks in what is still to come, that is in `received`,
  `buf` and `wire` together, are in the order of the frames and after those of the frames
  that were delivered.  `asicRead` drops bytes at the front or in the middle, and puts others,
  which are no marks, in front; lemmas say that each of that shifts the marks (`ShiftedBy`) or
  leaves some out.  A frame that passes its CRC had its mark in what was cut off, and a mended
  one too, since mending puts no mark in.
  `NothingLostNothingMissed` is the lossless case of `LossIsLocal`: if no byte is lost every
  frame is delivered and nothing overruns, wherever the reads cut the stream.  What is to come
  is then exactly the frames after the first `n`, which were handed on (`HandedOver`); the
  lemma `Recognised` says that a whole frame at the front is neither mended, nor taken for
  another's rest, nor cut one byte short by the magic that follows it.
- `MiningProofs`: `TypeCorrect`; `SharesForTheirJobs` (`ForItsJob`), by the assumption that
  `MaxBurst` is less than the number of ids; `SharesSubmittedOnce` (`SubmittedOnce`).  The map
  of `HWJobs` holds no job but the newest, under the id before the counter (`JobInv`).  A
  result on its way whose nonce meets a job's difficulty has that job's id, counted back from
  the counter once round at most, and no more jobs were added since than in the present burst
  (`ForJob`).  Results arrive in the order in which they were found (`OrderInv`), which is why
  the one number `LastJobResult` is enough against hits that are repeated.
- `BoardProofs`: `BoardGivenUpRightly` (`GivenUpRightly`), on a board of any number of chips
  and for any configured `MaxAsicsInChain`, which has nothing to do with that number: the
  counter of a silent chip never says more than the rounds that are remembered
  (`Justified`), so that when more than `maxDeadAsics` counters are above the limit that
  many chips were silent in each of them.  `TypeCorrect` and `EveryHitAccounted`
  (`HitsAccounted`) rest on `BoardInv`, which adds the types of the tables and that a
  process that is not up has nothing asked and nothing owed (`AtRest`).  What is owed for a
  chip is the sum of its readings in the slots between the two cursors, unless they
  `lapped`; that sums over finite sets (`MapThenSumSet`) do not depend on the order in which
  they are taken, and what one reading or one report does to them, are lemmas.
- `PowerProofs`: `TypeCorrect`; `ResetNeverUnderPower` (`ResetInterlock`): a board that is to
  be reset had its power taken by the step before, boards are unreset before any is given
  power, and who may do which is told by where `main` and `dvfs` are, for DVFS is started
  after the boards were; `CacheIsRight` (`CacheInSync`): `poweredOn` and the register change
  in one step, by the holder of `poweredOnMu`; `BoardsPoweredRight` (`PoweredUpRight`): from
  the write of `cmdSleep` and `cmdVout` to the powering of the last board their values are
  what `main` wrote or unsure, since nobody else writes them yet.  TLC was given these
  invariants first.  `MonitorNotMistaken` is the action property in `MonitorRight`: who holds
  `poweredOnMu` is told by where the goroutines are (`Holders`), and the monitor reads the
  register again only while `poweredOn` is set (`Watching`), so that then nobody is switching
  the PSU, and the cache is right unless it tripped or the register is unsure.

The assumptions are the named `ASSUME`s of the modules (sizes are natural numbers, fault
switches are Boolean, constants that stand for nothing are not among the things); TLC
evaluates them in the runs.

Two kinds of definitions are computed over data: recursive functions (`Delta`) and the folds
of the community modules (`FlattenSeq`, `MapThenSumSet`).  The library's induction theorems
take an operator, which the provers cannot instantiate; the proofs use instead that a set of
counterexamples, being one of numbers or of finite sets, has a least member (`LeastNumber`,
`SmallestSet`, from `WFMin`).  Where an operator cannot be unfolded by the provers
(`SelectSeq`, `SortSeq`) the models choose what it returns (`Genuine`, `Ascending`).

Only model-checked: `LossIsLocal` where bytes are lost (what one lost byte costs is a
matter of cases of the bytes around it, which the run enumerates); and liveness, which is out
of the prover's reach: `StoppedPoolEnds`, `MiningResumes`, `NewestIsMined`,
`HitsReachPool`, `TuneEnds`, `WorkGoesOn`, `HitsCollected`, the second half of `MonitorRight`
and the fairness of `ImplementsSession`.  `ReadsReturn` is refuted; that a read returns when
`cmdreader` is not descheduled at that one point is neither checked nor proved.

## 5. What is not modelled

The components and the reasons are in `PROJECT.json`.

- Sensors, fans, PWM, I2C and SMBus drivers: reads and writes of devices, whose failures are
  in `Power` and `Dvfs` where somebody reacts to them.  The temperature monitor is not
  started by this program.
- Chassis configuration (but for `MaxAsicsInChain`, a constant of `Board`), constants,
  logging, version, the main program: read once at start, or run alone before anything else
  does.
- JSON-RPC server and the TCP client of `jsonrpc`: not on the way from the miner to a pool.
- Jobs, shares and blocks as data: hashing, parsing, difficulty (with the truncation that
  makes `DiffTarget` 0 for a difficulty below 1), decaying rates.  They are sequential and
  have no state that others depend on.
- Of `asicio`: blocking access during single-threaded start-up, packing, `CloseASICIO`; that
  `getCfgResp` (`cmd.go:101`) accepts an answer that differs in command or address because
  `&&` binds tighter than `||` (used by the blocking path only); the nil command that a
  write with mismatched data would queue (`cmdrw.go:274`).
- Of `Board`: register writes for voltages, frequencies and version rolling, the conversion
  of temperatures and voltages, the hash rate computed from counters.
- Of `Power`: alarms of the monitor (`GetPsuStatus` reports zeros), texts of `getFixedData`.

A comment in `device/device.go` gives the boards' hardware ids as 1-63, 65-127, 129-191; the
code under it makes them 1-15, 17-31, 33-47.  `Mining` follows the code.

## 6. Plan

Done in this order: `PoolManager` and its proofs, `AsicIO`, `Session` and `Stratum`,
`Mining`, `Dvfs` and its proofs, `Power`, `Frames`, `Board`, the proofs of `Power`,
`Stratum`, the shares, `Board`, `Mining` and `AsicIO`, then those of the invariants that were
only model-checked, of the steps of `Session` and of `Frames`.  What is left:

1. `Mining` composed with sessions of `Stratum`: results of an old session's jobs after a
   reconnection.
2. Difficulty arithmetic and decaying rates as operators against reference definitions.
3. Proofs: `LossIsLocal` with losses, beginning with its second half for a lost magic byte.
4. The runs and properties are as many as one project should have; what is added should
   replace or join one of them, as the pool's and the register I/O's runs were joined.
