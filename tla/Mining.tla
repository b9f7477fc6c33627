------------------------------- MODULE Mining -------------------------------
(***************************************************************************)
(* The way of a job from the session to the ASICs and of a share back:     *)
(* device/hw-job.go, device/device.go, device/asicboard.go and the parts   *)
(* of device/manager.go and pool/stratum/stratum.go that call them.  Two   *)
(* goroutines work on HWJobs, whose methods are atomic by its mutex:       *)
(* Stratum.Run (s), which submits results and adds jobs, and the device's  *)
(* Run (d), which polls the ASICs and loads jobs into them.                *)
(*                                                                         *)
(* Jobs are numbered in the order the session adds them.  The ASICs know   *)
(* only a job's HWCtxID, of which there are few, so IDs are used again.    *)
(* A nonce meets the difficulty of the job it was found for and of no      *)
(* other.                                                                  *)
(***************************************************************************)
EXTENDS Naturals, Sequences, SequencesExt

CONSTANTS
    IDMin, IDMax,        \* the HWCtxIDs of this board
    MaxBurst,            \* bound: jobs that come before the results have been drained
    MaxJobs,             \* bound: jobs of the pool
    MaxReports,          \* bound: hits the ASICs report
    MaxUpdates           \* bound: hash rate updates

ASSUME IDAssumption    == IDMin \in Nat /\ IDMax \in Nat /\ IDMin <= IDMax
ASSUME BurstAssumption == MaxBurst \in 0 .. (IDMax - IDMin)
ASSUME BoundAssumption == MaxJobs \in Nat /\ MaxReports \in Nat /\ MaxUpdates \in Nat

VARIABLES
    ID,                  \* next HWCtxID
    Jobs,                \* HWCtxID -> a job, whether it is Scanning and PreScan is done
    Results,             \* results and hash rate updates not yet taken
    LastJobResult,       \* the share last accepted, 0 for none
    s,                   \* where Stratum.Run is
    d,                   \* where the device's Run is, with its locals
    loaded,              \* the jobs loaded into the ASICs, the latest last
    hits,                \* hits not yet polled
    added,               \* jobs added so far
    reports, updates,    \* hits reported and updates made so far
    burst,               \* jobs added since no result was under way
    submitted            \* shares sent to the pool, with the job they were sent for

vars == <<ID, Jobs, Results, LastJobResult, s, d, loaded, hits, added, reports, updates,
          burst, submitted>>

IDs      == IDMin .. IDMax
JobNo    == 1 .. MaxJobs
ShareNo  == 1 .. MaxReports
HashRate == [kind |-> "SEQ_HASHRATE_UPDATE"]
Hit      == [HWCtxID : IDs, job : JobNo, share : ShareNo]
Result   == [kind : {"share"}, HWCtxID : IDs, job : JobNo, share : ShareNo, meets : BOOLEAN]

findJob(id) == {i \in DOMAIN Jobs : i = id}

-----------------------------------------------------------------------------
(* Stratum.Run in STATE_GETJOB: results first, then perhaps a job.         *)

SessionUnchanged == UNCHANGED <<LastJobResult, d, loaded, hits, reports, updates>>

\* every result found before this moment has been taken
Drained == Results = <<>> /\ d.pc \notin {"post", "add"}

MutDropRest ==
    /\ s = "results"
    /\ Results # <<>>
    /\ LET r == Head(Results) IN
        IF r # HashRate /\ findJob(r.HWCtxID) # {}
        THEN /\ submitted' = IF r.meets
                             THEN Append(submitted, [job |-> Jobs[r.HWCtxID].job, share |-> r.share,
                                                     foundFor |-> r.job])
                             ELSE submitted
             /\ Results' = Tail(Results)
             /\ UNCHANGED s
        ELSE s' = "job" /\ Results' = <<>> /\ UNCHANGED submitted
    /\ UNCHANGED <<ID, Jobs, added, burst>>
    /\ SessionUnchanged
(* DeviceManager.GetResult, and Submit if the result meets the target.     *)
(* A stale result and a hash rate update end the loop over the results.    *)
GetResult ==
    /\ s = "results"
    /\ Results # <<>>
    /\ Results' = Tail(Results)
    /\ LET r == Head(Results) IN
        IF r # HashRate /\ findJob(r.HWCtxID) # {}
        THEN /\ submitted' = IF r.meets
                             THEN Append(submitted, [job |-> Jobs[r.HWCtxID].job, share |-> r.share,
                                                     foundFor |-> r.job])
                             ELSE submitted
             /\ UNCHANGED s
        ELSE s' = "job" /\ UNCHANGED submitted
    /\ UNCHANGED <<ID, Jobs, added, burst>>
    /\ SessionUnchanged

NoResult ==
    /\ s = "results"
    /\ Results = <<>>
    /\ s' = "job"
    /\ burst' = IF Drained THEN 0 ELSE burst
    /\ UNCHANGED <<ID, Jobs, Results, added, submitted>>
    /\ SessionUnchanged

NoJob ==
    /\ s = "job"
    /\ s' = "results"
    /\ UNCHANGED <<ID, Jobs, Results, added, burst, submitted>>
    /\ SessionUnchanged

MutLazyDelete ==
    /\ s = "job"
    /\ added < MaxJobs
    /\ burst < MaxBurst
    /\ s' = "add"
    /\ UNCHANGED <<ID, Jobs, Results, added, burst, submitted>>
    /\ SessionUnchanged
(* DeviceManager.AddJob.  Stratum sets CleanJobs in every job.             *)
ClearAndCancelJobs ==
    /\ s = "job"
    /\ added < MaxJobs
    /\ burst < MaxBurst
    /\ Jobs' = <<>>
    /\ s' = "add"
    /\ UNCHANGED <<ID, Results, added, burst, submitted>>
    /\ SessionUnchanged

MutNoWrap == IF ID < IDMin THEN IDMin ELSE ID
MutOneID == IDMin
GetID == IF ID < IDMin \/ ID > IDMax THEN IDMin ELSE ID
AddJob ==
    /\ s = "add"
    /\ added' = added + 1
    /\ Jobs' = [i \in DOMAIN Jobs \cup {GetID} |->
                   IF i = GetID THEN [job |-> added + 1, Scanning |-> FALSE, ready |-> FALSE]
                   ELSE Jobs[i]]
    /\ ID' = GetID + 1
    /\ burst' = burst + 1
    /\ s' = "results"
    /\ UNCHANGED <<Results, submitted>>
    /\ SessionUnchanged

-----------------------------------------------------------------------------
(* Device.Run.                                                             *)
DeviceUnchanged == UNCHANGED <<ID, s, added, reports, burst, submitted>>

(* A job is stale after 120 s; the device takes a new one sooner.          *)
RemoveStaleJob ==
    /\ d.pc = "run"
    /\ \E stale \in SUBSET {i \in DOMAIN Jobs : Jobs[i].Scanning} :
          Jobs' = [i \in DOMAIN Jobs \ stale |-> Jobs[i]]
    /\ d' = [d EXCEPT !.pc = "poll"]
    /\ UNCHANGED <<Results, LastJobResult, loaded, hits, updates>>
    /\ DeviceUnchanged

(* ASICBoardPollResult: a hash rate update, nothing, or a hit.             *)
PollUpdate ==
    /\ d.pc = "poll"
    /\ loaded # <<>>
    /\ updates < MaxUpdates
    /\ updates' = updates + 1
    /\ Results' = Append(Results, HashRate)
    /\ d' = [d EXCEPT !.pc = "get"]
    /\ UNCHANGED <<Jobs, LastJobResult, loaded, hits>>
    /\ DeviceUnchanged
PollNothing ==
    /\ d.pc = "poll"
    /\ hits = <<>>
    /\ d' = [d EXCEPT !.pc = "get"]
    /\ UNCHANGED <<Jobs, Results, LastJobResult, loaded, hits, updates>>
    /\ DeviceUnchanged
PollHit ==
    /\ d.pc = "poll"
    /\ hits # <<>>
    /\ hits' = Tail(hits)
    /\ d' = IF findJob(Head(hits).HWCtxID) = {} THEN [d EXCEPT !.pc = "get"]
            ELSE [d EXCEPT !.pc = "post", !.hit = <<Head(hits)>>]
    /\ UNCHANGED <<Jobs, Results, LastJobResult, loaded, updates>>
    /\ DeviceUnchanged

(* PostScan: the job is looked up again.  Before PreScan its DevDiff is 0, *)
(* which every nonce meets.                                                *)
Validate(hit) ==
    /\ findJob(hit.HWCtxID) # {}
    /\ Jobs[hit.HWCtxID].ready => Jobs[hit.HWCtxID].job = hit.job
MutNeverDuplicate(hit) == FALSE
IsDuplicate(hit) == hit.share = LastJobResult
PostScan ==
    /\ d.pc = "post"
    /\ LET hit == d.hit[1] IN
        IF Validate(hit) /\ ~IsDuplicate(hit)
        THEN /\ LastJobResult' = hit.share
             /\ d' = [d EXCEPT !.pc = "add", !.hit = <<>>,
                        !.result = <<[kind |-> "share", HWCtxID |-> hit.HWCtxID, job |-> hit.job,
                                      share |-> hit.share,
                                      meets |-> hit.job = Jobs[hit.HWCtxID].job]>>]
        ELSE d' = [d EXCEPT !.pc = "get", !.hit = <<>>] /\ UNCHANGED LastJobResult
    /\ UNCHANGED <<Jobs, Results, loaded, hits, updates>>
    /\ DeviceUnchanged

AddResult ==
    /\ d.pc = "add"
    /\ Results' = Results \o d.result
    /\ d' = [d EXCEPT !.pc = "get", !.result = <<>>]
    /\ UNCHANGED <<Jobs, LastJobResult, loaded, hits, updates>>
    /\ DeviceUnchanged

(* GetJob takes any job that is not being scanned.                         *)
GetJob ==
    /\ d.pc = "get"
    /\ LET waiting == {i \in DOMAIN Jobs : ~Jobs[i].Scanning} IN
        \/ waiting = {} /\ d' = [d EXCEPT !.pc = "run"] /\ UNCHANGED Jobs
        \/ \E i \in waiting :
              /\ Jobs' = [Jobs EXCEPT ![i].Scanning = TRUE]
              /\ d' = [d EXCEPT !.pc = "prescan", !.HWCtxID = i, !.job = Jobs[i].job]
    /\ UNCHANGED <<Results, LastJobResult, loaded, hits, updates>>
    /\ DeviceUnchanged

(* The session may have removed the job from the map meanwhile.            *)
PreScan ==
    /\ d.pc = "prescan"
    /\ Jobs' = [i \in DOMAIN Jobs |-> IF Jobs[i].job = d.job THEN [Jobs[i] EXCEPT !.ready = TRUE]
                                      ELSE Jobs[i]]
    /\ d' = [d EXCEPT !.pc = "scan"]
    /\ UNCHANGED <<Results, LastJobResult, loaded, hits, updates>>
    /\ DeviceUnchanged
Scan ==
    /\ d.pc = "scan"
    /\ loaded' = Append(loaded, [HWCtxID |-> d.HWCtxID, job |-> d.job])
    /\ d' = [d EXCEPT !.pc = "run", !.HWCtxID = IDMin, !.job = 0]
    /\ UNCHANGED <<Jobs, Results, LastJobResult, hits, updates>>
    /\ DeviceUnchanged

-----------------------------------------------------------------------------
(* The ASICs find a nonce for a job they have been given, the latest or    *)
(* one before it, or report their last hit again.                          *)
AsicUnchanged == UNCHANGED <<ID, Jobs, Results, LastJobResult, s, d, loaded, added, updates, burst,
                             submitted>>
FindNonce ==
    /\ reports < MaxReports
    /\ reports' = reports + 1
    /\ \E i \in DOMAIN loaded :
          hits' = Append(hits, [HWCtxID |-> loaded[i].HWCtxID, job |-> loaded[i].job,
                                share |-> reports + 1])
    /\ AsicUnchanged
RepeatHit ==
    /\ hits # <<>>
    /\ reports < MaxReports
    /\ reports' = reports + 1
    /\ hits' = Append(hits, Last(hits))
    /\ AsicUnchanged

-----------------------------------------------------------------------------
Init ==
    /\ ID = IDMin
    /\ Jobs = <<>>
    /\ Results = <<>>
    /\ LastJobResult = 0
    /\ s = "results"
    /\ d = [pc |-> "run", hit |-> <<>>, result |-> <<>>, HWCtxID |-> IDMin, job |-> 0]
    /\ loaded = <<>>
    /\ hits = <<>>
    /\ added = 0 /\ reports = 0 /\ updates = 0 /\ burst = 0
    /\ submitted = <<>>

Session == GetResult \/ NoResult \/ NoJob \/ ClearAndCancelJobs \/ AddJob
Device ==
    \/ RemoveStaleJob
    \/ PollUpdate
    \/ PollNothing
    \/ PollHit
    \/ PostScan
    \/ AddResult
    \/ GetJob
    \/ PreScan
    \/ Scan
Next == Session \/ Device \/ FindNonce \/ RepeatHit

(* Both goroutines loop and never wait for each other.                     *)
Spec == Init /\ [][Next]_vars /\ WF_vars(Session) /\ WF_vars(Device)

-----------------------------------------------------------------------------
(* Every variable has its type.                                            *)
TypeOK ==
    /\ ID \in IDMin .. (IDMax + 1)
    /\ DOMAIN Jobs \subseteq IDs
    /\ \A i \in DOMAIN Jobs : Jobs[i] \in [job : JobNo, Scanning : BOOLEAN, ready : BOOLEAN]
    /\ Results \in Seq(Result \cup {HashRate})
    /\ LastJobResult \in 0 .. MaxReports
    /\ s \in {"results", "job", "add"}
    /\ d \in [pc : {"run", "poll", "post", "add", "get", "prescan", "scan"},
              hit : BoundedSeq(Hit, 1),
              result : BoundedSeq(Result, 1), HWCtxID : IDs, job : 0 .. MaxJobs]
    /\ loaded \in Seq([HWCtxID : IDs, job : JobNo])
    /\ hits \in Seq(Hit)
    /\ added \in 0 .. MaxJobs /\ reports \in 0 .. MaxReports
    /\ updates \in 0 .. MaxUpdates /\ burst \in 0 .. MaxBurst
    /\ submitted \in Seq([job : JobNo, share : ShareNo, foundFor : JobNo])

(* A share is sent to the pool for the job its nonce was found for: a job  *)
(* is looked up three times by an ID that may have been given to another   *)
(* job since, and the last time after the share was validated.             *)
ForItsJob == \A i \in DOMAIN submitted : submitted[i].job = submitted[i].foundFor

(* No share is sent twice, if the ASICs repeat a hit only at once.         *)
SubmittedOnce ==
    \A i, k \in DOMAIN submitted : submitted[i].share = submitted[k].share => i = k

(* The ASICs are never set back to an older job, although the session      *)
(* adds jobs while the device is on its way with one it took before; and   *)
(* when no more jobs come, they end up working on the last one.            *)
NewestIsMined ==
    /\ [][loaded' # loaded /\ loaded # <<>> => Last(loaded').job > Last(loaded).job]_vars
    /\ <>[](added > 0 => loaded # <<>> /\ Last(loaded).job = added)

(* A nonce the ASICs report for a job is sent to the pool, unless the job  *)
(* is replaced or becomes stale first.                                     *)
HitsReachPool ==
    \A j \in JobNo, n \in ShareNo :
        (\E i \in DOMAIN hits : hits[i].job = j /\ hits[i].share = n)
            ~> \/ \E i \in DOMAIN submitted : submitted[i].share = n
               \/ \A i \in DOMAIN Jobs : Jobs[i].job # j
=============================================================================
