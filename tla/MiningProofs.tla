------------------------------ MODULE MiningProofs ------------------------------
(***************************************************************************)
(* The types of Mining and its two promises about shares, for any range of *)
(* HWCtxIDs and any number of jobs and hits: that a share is submitted for *)
(* the job it was found for, which needs MaxBurst to be less than the      *)
(* number of IDs, and that no share is submitted twice.                    *)
(***************************************************************************)
EXTENDS Mining, TLAPS

DRecord  == [pc : {"run", "poll", "post", "add", "get", "prescan", "scan"},
             hit : BoundedSeq(Hit, 1), result : BoundedSeq(Result, 1),
             HWCtxID : IDs, job : 0 .. MaxJobs]
JobEntry == [job : JobNo, Scanning : BOOLEAN, ready : BOOLEAN]

\* what the map of jobs holds, and what the device holds at each of its steps
JobInv ==
    /\ \A i \in DOMAIN Jobs : i = ID - 1 /\ Jobs[i].job = added
    /\ s = "add" => DOMAIN Jobs = {} /\ added < MaxJobs /\ burst < MaxBurst
    /\ d.pc \in {"prescan", "scan"} => d.job \in JobNo
    /\ d.pc = "post" <=> d.hit # <<>>
    /\ d.pc # "add" => d.result = <<>>

TypeInv == TypeOK /\ JobInv

-----------------------------------------------------------------------------
(* Sequences.                                                              *)

\* a sequence of at most one element
LEMMA AtMostOne ==
    ASSUME NEW S, NEW t
    PROVE  t \in BoundedSeq(S, 1) <=> t = <<>> \/ \E x \in S : t = <<x>>
<1>1. BoundedSeq(S, 1) = [1 .. 0 -> S] \cup [1 .. 1 -> S]
  <2>1. 0 .. 1 = {0, 1}
    OBVIOUS
  <2> QED
    BY <2>1 DEF BoundedSeq, SeqOf
<1>2. t \in [1 .. 0 -> S] <=> t = <<>>
  <2>1. ASSUME t \in [1 .. 0 -> S] PROVE t = <<>>
    <3>1. t \in Seq(S) /\ Len(t) = 0
      BY <2>1
    <3> QED
      BY <3>1
  <2>2. <<>> \in [1 .. 0 -> S]
    OBVIOUS
  <2> QED
    BY <2>1, <2>2
<1>3. t \in [1 .. 1 -> S] <=> \E x \in S : t = <<x>>
  <2>1. ASSUME t \in [1 .. 1 -> S] PROVE t[1] \in S /\ t = <<t[1]>>
    BY <2>1
  <2> QED
    BY <2>1
<1> QED
  BY <1>1, <1>2, <1>3

\* a hash rate update is no share
LEMMA UpdateIsNoShare == HashRate \notin Result
<1>1. HashRate.kind # "share"
  BY DEF HashRate
<1> QED
  BY <1>1 DEF Result

\* an element of a sequence, and one more
LEMMA SeqParts ==
    ASSUME NEW S, NEW q \in Seq(S)
    PROVE  /\ \A i \in DOMAIN q : q[i] \in S
           /\ \A x \in S : Append(q, x) \in Seq(S)
           /\ \A x \in S : \A t : t = Append(q, x) => t \in Seq(S)
OBVIOUS

-----------------------------------------------------------------------------
(* Types.                                                                  *)

\* everything starts with its type
LEMMA InitType == Init => TypeInv
<1> SUFFICES ASSUME Init PROVE TypeInv
  OBVIOUS
<1>1. <<>> \in BoundedSeq(Hit, 1) /\ <<>> \in BoundedSeq(Result, 1)
  BY AtMostOne
<1>2. d \in DRecord
  BY <1>1, IDAssumption, BoundAssumption DEF Init, DRecord, IDs
<1>3. JobInv
  BY DEF Init, JobInv
<1>4. ID \in IDMin .. (IDMax + 1) /\ DOMAIN Jobs = {} /\ burst \in 0 .. MaxBurst
  BY IDAssumption, BurstAssumption DEF Init
<1> QED
  BY <1>2, <1>3, <1>4, BoundAssumption DEF Init, TypeInv, TypeOK, DRecord

\* the ID of the next job is one of the board's
LEMMA GetIDType ==
    ASSUME TypeInv
    PROVE  /\ GetID \in IDs /\ GetID + 1 \in IDMin .. (IDMax + 1)
           /\ GetID = ID \/ (GetID = IDMin /\ ID = IDMax + 1)
<1>1. ID \in IDMin .. (IDMax + 1)
  BY DEF TypeInv, TypeOK
<1> QED
  BY <1>1, IDAssumption DEF GetID, IDs

\* the session keeps the types
LEMMA SessionType ==
    ASSUME TypeInv, Session
    PROVE  TypeInv'
<1> USE DEF TypeInv, TypeOK, DRecord
<1>1. UNCHANGED <<LastJobResult, d, loaded, hits, reports, updates>>
  BY DEF Session, GetResult, NoResult, NoJob, ClearAndCancelJobs, AddJob, SessionUnchanged
<1>2. CASE GetResult
  <2> DEFINE r == Head(Results)
  <2>1. r \in Result \cup {HashRate} /\ Results' \in Seq(Result \cup {HashRate})
    BY <1>2 DEF GetResult
  <2>2. submitted' \in Seq([job : JobNo, share : ShareNo, foundFor : JobNo])
    <3>1. CASE r # HashRate /\ findJob(r.HWCtxID) # {}
      <4>1. r \in Result /\ r.HWCtxID \in DOMAIN Jobs
        BY <2>1, <3>1 DEF findJob
      <4> DEFINE entry == [job |-> Jobs[r.HWCtxID].job, share |-> r.share, foundFor |-> r.job]
                 Entries == [job : JobNo, share : ShareNo, foundFor : JobNo]
      <4>2. entry \in Entries
        BY <4>1 DEF Result
      <4>3. submitted' = submitted \/ submitted' = Append(submitted, entry)
        BY <1>2, <3>1 DEF GetResult
      <4>4. submitted \in Seq(Entries)
        OBVIOUS
      <4> HIDE DEF entry, Entries
      <4>5. submitted' \in Seq(Entries)
        BY <4>2, <4>3, <4>4, SeqParts
      <4> QED
        BY <4>5 DEF Entries
    <3>2. CASE ~(r # HashRate /\ findJob(r.HWCtxID) # {})
      BY <1>2, <3>2 DEF GetResult
    <3> QED
      BY <3>1, <3>2
  <2>3. s' \in {"results", "job"} /\ UNCHANGED <<ID, Jobs, added, burst>>
    BY <1>2 DEF GetResult
  <2>4. JobInv'
    BY <1>1, <2>3 DEF JobInv
  <2> QED
    BY <1>1, <2>1, <2>2, <2>3, <2>4
<1>3. CASE NoResult
  BY <1>1, <1>3, BurstAssumption, IDAssumption DEF NoResult, JobInv
<1>4. CASE NoJob
  BY <1>1, <1>4 DEF NoJob, JobInv
<1>5. CASE ClearAndCancelJobs
  <2>1. DOMAIN Jobs' = {}
    BY <1>5 DEF ClearAndCancelJobs
  <2> QED
    BY <1>1, <1>5, <2>1 DEF ClearAndCancelJobs, JobInv
<1>6. CASE AddJob
  <2>1. DOMAIN Jobs = {} /\ added < MaxJobs /\ burst < MaxBurst
    BY <1>6 DEF AddJob, JobInv
  <2>2. /\ Jobs' = [i \in {GetID} |-> [job |-> added + 1, Scanning |-> FALSE, ready |-> FALSE]]
        /\ ID' = GetID + 1 /\ added' = added + 1 /\ burst' = burst + 1 /\ s' = "results"
        /\ UNCHANGED <<Results, submitted>>
    BY <1>6, <2>1 DEF AddJob
  <2>3. added' \in JobNo /\ burst' \in 0 .. MaxBurst
    BY <2>1, <2>2, BoundAssumption, BurstAssumption, IDAssumption DEF JobNo
  <2>4. DOMAIN Jobs' = {GetID} /\ Jobs'[GetID] \in JobEntry /\ Jobs'[GetID].job = added'
    BY <2>2, <2>3 DEF JobEntry
  <2>5. GetID \in Int
    BY GetIDType, IDAssumption DEF IDs
  <2>6. ID' - 1 = GetID
    BY <2>2, <2>5
  <2>7. JobInv'
    BY <1>1, <2>2, <2>4, <2>6 DEF JobInv
  <2> QED
    BY <1>1, <2>2, <2>3, <2>4, <2>7, GetIDType, BoundAssumption DEF JobEntry, JobNo
<1> QED
  BY <1>2, <1>3, <1>4, <1>5, <1>6 DEF Session

\* the device keeps the types
LEMMA DeviceType ==
    ASSUME TypeInv, Device
    PROVE  TypeInv'
<1> USE DEF TypeInv, TypeOK, DRecord
<1>0. UNCHANGED <<ID, s, added, reports, burst, submitted>>
  BY DEF Device, RemoveStaleJob, PollUpdate, PollNothing, PollHit, PostScan, AddResult, GetJob,
         PreScan, Scan, DeviceUnchanged
<1>1. CASE RemoveStaleJob
  <2>1. /\ DOMAIN Jobs' \subseteq DOMAIN Jobs
        /\ \A i \in DOMAIN Jobs' : Jobs'[i] = Jobs[i]
    BY <1>1 DEF RemoveStaleJob
  <2>2. JobInv'
    BY <1>0, <1>1, <2>1 DEF RemoveStaleJob, JobInv
  <2> QED
    BY <1>0, <1>1, <2>1, <2>2 DEF RemoveStaleJob
<1>2. CASE PollUpdate
  <2>1. Results' \in Seq(Result \cup {HashRate})
    BY <1>2, SeqParts DEF PollUpdate
  <2>2. updates' \in 0 .. MaxUpdates
    <3>1. updates \in 0 .. MaxUpdates
      OBVIOUS
    <3>2. updates < MaxUpdates /\ updates' = updates + 1
      BY <1>2 DEF PollUpdate
    <3> HIDE DEF TypeInv, TypeOK
    <3> QED
      BY <3>1, <3>2, BoundAssumption
  <2>3. d' \in DRecord
    BY <1>2 DEF PollUpdate
  <2>4. JobInv'
    BY <1>0, <1>2 DEF PollUpdate, JobInv
  <2> QED
    BY <1>0, <1>2, <2>1, <2>2, <2>3, <2>4 DEF PollUpdate
<1>3. CASE PollNothing
  BY <1>0, <1>3 DEF PollNothing, JobInv
<1>4. CASE PollHit
  <2>1. Head(hits) \in Hit /\ hits' \in Seq(Hit)
    BY <1>4 DEF PollHit
  <2>2. <<Head(hits)>> \in BoundedSeq(Hit, 1) /\ <<Head(hits)>> # <<>>
    BY <2>1, AtMostOne
  <2>3. UNCHANGED <<Jobs, Results, LastJobResult, loaded, updates>> /\ d.pc = "poll"
        /\ (d' = [d EXCEPT !.pc = "get"] \/ d' = [d EXCEPT !.pc = "post", !.hit = <<Head(hits)>>])
    BY <1>4 DEF PollHit
  <2>4. d' \in DRecord
    BY <2>2, <2>3
  <2>5. JobInv'
    BY <1>0, <2>2, <2>3 DEF JobInv
  <2> QED
    BY <1>0, <2>1, <2>3, <2>4, <2>5
<1>5. CASE PostScan
  <2> DEFINE hit == d.hit[1]
             r == [kind |-> "share", HWCtxID |-> hit.HWCtxID, job |-> hit.job,
                   share |-> hit.share, meets |-> hit.job = Jobs[hit.HWCtxID].job]
  <2>1. hit \in Hit
    <3>1. d.hit \in BoundedSeq(Hit, 1) /\ d.hit # <<>>
      BY <1>5 DEF PostScan, JobInv
    <3> QED
      BY <3>1, AtMostOne
  <2>2. r \in Result /\ hit.share \in 0 .. MaxReports
    BY <2>1 DEF Result, Hit, ShareNo
  <2>3. /\ <<r>> \in BoundedSeq(Result, 1) /\ <<>> \in BoundedSeq(Hit, 1)
        /\ <<>> \in BoundedSeq(Result, 1)
    BY <2>2, AtMostOne
  <2> HIDE DEF r
  <2>4. /\ UNCHANGED <<Jobs, Results, loaded, hits, updates>> /\ d.pc = "post"
        /\ \/ d' = [d EXCEPT !.pc = "add", !.hit = <<>>, !.result = <<r>>]
              /\ LastJobResult' = hit.share
           \/ d' = [d EXCEPT !.pc = "get", !.hit = <<>>] /\ UNCHANGED LastJobResult
    BY <1>5 DEF PostScan, r
  <2>5. d' \in DRecord /\ LastJobResult' \in 0 .. MaxReports
    BY <2>2, <2>3, <2>4
  <2>6. JobInv'
    BY <1>0, <2>4 DEF JobInv
  <2> QED
    BY <1>0, <2>4, <2>5, <2>6
<1>6. CASE AddResult
  <2>1. d.result \in Seq(Result) /\ <<>> \in BoundedSeq(Result, 1)
    <3>1. d.result = <<>> \/ \E x \in Result : d.result = <<x>>
      BY AtMostOne
    <3>2. <<>> \in Seq(Result) /\ \A x \in Result : <<x>> \in Seq(Result)
      OBVIOUS
    <3>3. <<>> \in BoundedSeq(Result, 1)
      BY AtMostOne
    <3> QED
      BY <3>1, <3>2, <3>3
  <2>2. Results' \in Seq(Result \cup {HashRate})
    BY <1>6, <2>1 DEF AddResult
  <2>3. d' = [d EXCEPT !.pc = "get", !.result = <<>>]
        /\ UNCHANGED <<Jobs, LastJobResult, loaded, hits, updates>> /\ d.pc = "add"
    BY <1>6 DEF AddResult
  <2>4. d' \in DRecord
    BY <2>1, <2>3
  <2>5. JobInv'
    BY <1>0, <2>3 DEF JobInv
  <2> QED
    BY <1>0, <2>2, <2>3, <2>4, <2>5
<1>7. CASE GetJob
  <2>1. CASE d' = [d EXCEPT !.pc = "run"] /\ UNCHANGED Jobs
    BY <1>0, <1>7, <2>1 DEF GetJob, JobInv
  <2>2. ASSUME NEW i \in DOMAIN Jobs, Jobs' = [Jobs EXCEPT ![i].Scanning = TRUE],
               d' = [d EXCEPT !.pc = "prescan", !.HWCtxID = i, !.job = Jobs[i].job]
        PROVE  TypeInv'
    <3>1. /\ DOMAIN Jobs' = DOMAIN Jobs
          /\ \A k \in DOMAIN Jobs : Jobs'[k] \in JobEntry /\ Jobs'[k].job = Jobs[k].job
      BY <2>2 DEF JobEntry
    <3>2. d' \in DRecord /\ d'.job \in JobNo
      <4>1. i \in IDs /\ Jobs[i].job \in JobNo /\ Jobs[i].job \in 0 .. MaxJobs
        BY DEF JobNo
      <4> QED
        BY <2>2, <4>1
    <3>3. JobInv'
      BY <1>0, <1>7, <2>2, <3>1, <3>2 DEF GetJob, JobInv
    <3> QED
      BY <1>0, <1>7, <3>1, <3>2, <3>3 DEF GetJob, JobEntry
  <2> QED
    BY <1>7, <2>1, <2>2 DEF GetJob
<1>8. CASE PreScan
  <2>1. /\ DOMAIN Jobs' = DOMAIN Jobs
        /\ \A k \in DOMAIN Jobs : Jobs'[k] \in JobEntry /\ Jobs'[k].job = Jobs[k].job
    BY <1>8 DEF PreScan, JobEntry
  <2>2. JobInv'
    BY <1>0, <1>8, <2>1 DEF PreScan, JobInv
  <2> QED
    BY <1>0, <1>8, <2>1, <2>2 DEF PreScan, JobEntry
<1>9. CASE Scan
  <2>1. [HWCtxID |-> d.HWCtxID, job |-> d.job] \in [HWCtxID : IDs, job : JobNo]
    BY <1>9 DEF Scan, JobInv
  <2>2. loaded' \in Seq([HWCtxID : IDs, job : JobNo])
    BY <1>9, <2>1 DEF Scan
  <2>3. d' \in DRecord
    <3>1. IDMin \in IDs /\ 0 \in 0 .. MaxJobs
      BY IDAssumption, BoundAssumption DEF IDs
    <3> QED
      BY <1>9, <3>1 DEF Scan
  <2>4. JobInv'
    BY <1>0, <1>9 DEF Scan, JobInv
  <2> QED
    BY <1>0, <1>9, <2>2, <2>3, <2>4 DEF Scan
<1> QED
  BY <1>1, <1>2, <1>3, <1>4, <1>5, <1>6, <1>7, <1>8, <1>9 DEF Device

\* the ASICs keep the types
LEMMA AsicType ==
    ASSUME TypeInv, FindNonce \/ RepeatHit
    PROVE  TypeInv'
<1> USE DEF TypeInv, TypeOK, DRecord
<1>1. UNCHANGED <<ID, Jobs, Results, LastJobResult, s, d, loaded, added, updates, burst,
                  submitted>>
  BY DEF FindNonce, RepeatHit, AsicUnchanged
<1>2. reports' = reports + 1 /\ reports' \in ShareNo /\ reports' \in 0 .. MaxReports
  BY BoundAssumption DEF FindNonce, RepeatHit, ShareNo
<1>3. JobInv'
  BY <1>1 DEF JobInv
<1>4. hits' \in Seq(Hit)
  <2>1. CASE FindNonce
    <3>1. PICK i \in DOMAIN loaded :
              hits' = Append(hits, [HWCtxID |-> loaded[i].HWCtxID, job |-> loaded[i].job,
                                    share |-> reports + 1])
      BY <2>1 DEF FindNonce
    <3>2. loaded[i] \in [HWCtxID : IDs, job : JobNo]
      BY SeqParts
    <3>3. [HWCtxID |-> loaded[i].HWCtxID, job |-> loaded[i].job, share |-> reports + 1] \in Hit
      BY <1>2, <3>2 DEF Hit
    <3> QED
      BY <3>1, <3>3
  <2>2. CASE RepeatHit
    BY <2>2 DEF RepeatHit, Last
  <2> QED
    BY <2>1, <2>2
<1> QED
  BY <1>1, <1>2, <1>3, <1>4

\* every step keeps the types
LEMMA NextType == TypeInv /\ [Next]_vars => TypeInv'
<1> SUFFICES ASSUME TypeInv, [Next]_vars PROVE TypeInv'
  OBVIOUS
<1>1. CASE UNCHANGED vars
  BY <1>1 DEF vars, TypeInv, TypeOK, JobInv
<1> QED
  BY <1>1, SessionType, DeviceType, AsicType DEF Next

\* Every variable of the way of jobs and shares keeps its type (hw-job.go,
\* device.go), for any range of HWCtxIDs and any number of jobs.
THEOREM TypeCorrect == Spec => []TypeOK
<1>1. TypeInv => TypeOK
  BY DEF TypeInv
<1> QED
  BY <1>1, InitType, NextType, PTL DEF Spec

-----------------------------------------------------------------------------
(* What is on its way: results towards the session, hits towards their     *)
(* validation.  In each the oldest comes first.                            *)

Pipe    == Results \o d.result
HitPipe == d.hit \o hits

\* a sequence of one element or none
LEMMA ShortSeq ==
    ASSUME NEW S
    PROVE  <<>> \in Seq(S) /\ \A x \in S : <<x>> \in Seq(S)
OBVIOUS

\* sequences put together
LEMMA Concats ==
    ASSUME NEW S, NEW q \in Seq(S), NEW t \in Seq(S), NEW x \in S
    PROVE  /\ q \o t \in Seq(S)
           /\ q \o <<>> = q /\ <<>> \o q = q
           /\ q \o <<x>> = Append(q, x)
           /\ q \o Append(t, x) = Append(q \o t, x)
OBVIOUS

\* the first of a sequence, and the others
LEMMA FirstAndRest ==
    ASSUME NEW S, NEW q \in Seq(S), NEW t \in Seq(S), q # <<>>
    PROVE  /\ <<Head(q)>> \o Tail(q) = q
           /\ q \o t # <<>> /\ Head(q \o t) = Head(q) /\ Tail(q) \o t = Tail(q \o t)
<1>1. <<Head(q)>> \o Tail(q) = q
  OBVIOUS
<1>2. q \o t \in Seq(S) /\ Len(q \o t) = Len(q) + Len(t) /\ Len(q) > 0
  OBVIOUS
<1>3. Head(q \o t) = Head(q) /\ q \o t # <<>>
  BY <1>2
<1>4. Tail(q) \o t = Tail(q \o t)
  OBVIOUS
<1> QED
  BY <1>1, <1>3, <1>4

\* what is on its way has its type
LEMMA PipeType ==
    ASSUME TypeInv
    PROVE  /\ Results \in Seq(Result \cup {HashRate}) /\ d.result \in Seq(Result \cup {HashRate})
           /\ Pipe \in Seq(Result \cup {HashRate})
           /\ d.hit \in Seq(Hit) /\ hits \in Seq(Hit) /\ HitPipe \in Seq(Hit)
<1>1. d.result \in BoundedSeq(Result, 1) /\ d.hit \in BoundedSeq(Hit, 1)
  BY DEF TypeInv, TypeOK
<1>2. Results \in Seq(Result \cup {HashRate}) /\ hits \in Seq(Hit)
  BY DEF TypeInv, TypeOK
<1>3. d.result = <<>> \/ \E x \in Result : d.result = <<x>>
  BY <1>1, AtMostOne
<1>4. d.hit = <<>> \/ \E x \in Hit : d.hit = <<x>>
  BY <1>1, AtMostOne
<1>5. d.result \in Seq(Result \cup {HashRate})
  BY <1>3, ShortSeq
<1>6. d.hit \in Seq(Hit)
  BY <1>4, ShortSeq
<1> QED
  BY <1>2, <1>5, <1>6, Concats DEF Pipe, HitPipe

\* the session takes the oldest result, or none
LEMMA SessionPipe ==
    ASSUME TypeInv, Session
    PROVE  /\ UNCHANGED <<HitPipe, LastJobResult, reports>>
           /\ \/ Pipe' = Pipe /\ UNCHANGED submitted /\ ~GetResult
              \/ Pipe # <<>> /\ Head(Pipe) = Head(Results) /\ Pipe' = Tail(Pipe) /\ GetResult
<1>1. UNCHANGED <<d, hits, LastJobResult, reports>>
  BY DEF Session, GetResult, NoResult, NoJob, ClearAndCancelJobs, AddJob, SessionUnchanged
<1>2. CASE GetResult
  <2>1. Results # <<>> /\ Results' = Tail(Results)
    BY <1>2 DEF GetResult
  <2> QED
    BY <1>1, <1>2, <2>1, PipeType, FirstAndRest DEF Pipe, HitPipe
<1>3. CASE ~GetResult
  <2>1. UNCHANGED <<Results, submitted>>
    BY <1>3 DEF Session, NoResult, NoJob, ClearAndCancelJobs, AddJob
  <2> QED
    BY <1>1, <1>3, <2>1 DEF Pipe, HitPipe
<1> QED
  BY <1>2, <1>3

\* a hit that PostScan accepts becomes this result
Accepts(r) ==
    /\ r \in Result /\ r.share = Head(HitPipe).share /\ r.share # LastJobResult
    /\ LastJobResult' = r.share
    /\ r.meets => r.HWCtxID \in DOMAIN Jobs /\ r.job = Jobs[r.HWCtxID].job

\* the device drops the oldest hit, makes it a result, or adds an update
LEMMA DevicePipe ==
    ASSUME TypeInv, Device
    PROVE  /\ UNCHANGED <<ID, added, reports, burst, submitted>>
           /\ \/ /\ Pipe' = Pipe \/ Pipe' = Append(Pipe, HashRate)
                 /\ HitPipe' = HitPipe \/ (HitPipe # <<>> /\ HitPipe' = Tail(HitPipe))
                 /\ UNCHANGED LastJobResult
              \/ /\ HitPipe # <<>> /\ HitPipe' = Tail(HitPipe)
                 /\ \E r \in Result : Accepts(r) /\ Pipe' = Append(Pipe, r)
<1>0. UNCHANGED <<ID, added, reports, burst, submitted>>
  BY DEF Device, RemoveStaleJob, PollUpdate, PollNothing, PollHit, PostScan, AddResult, GetJob,
         PreScan, Scan, DeviceUnchanged
<1>t. d \in [pc : {"run", "poll", "post", "add", "get", "prescan", "scan"},
             hit : BoundedSeq(Hit, 1), result : BoundedSeq(Result, 1),
             HWCtxID : IDs, job : 0 .. MaxJobs]
  BY DEF TypeInv, TypeOK
<1>1. CASE RemoveStaleJob \/ PollNothing \/ GetJob \/ PreScan \/ Scan
  <2>1. UNCHANGED <<Results, hits, LastJobResult>> /\ d'.hit = d.hit /\ d'.result = d.result
    BY <1>1, <1>t DEF RemoveStaleJob, PollNothing, GetJob, PreScan, Scan
  <2> QED
    BY <1>0, <2>1 DEF Pipe, HitPipe
<1>2. CASE PollUpdate
  <2>1. UNCHANGED <<hits, LastJobResult>> /\ d'.hit = d.hit /\ d'.result = d.result
        /\ d.result = <<>> /\ Results' = Append(Results, HashRate)
    BY <1>2, <1>t DEF PollUpdate, TypeInv, JobInv
  <2>2. Pipe' = Append(Pipe, HashRate)
    BY <2>1, PipeType, Concats DEF Pipe
  <2> QED
    BY <1>0, <2>1, <2>2 DEF HitPipe
<1>3. CASE PollHit
  <2>1. /\ UNCHANGED <<Results, LastJobResult>> /\ d'.result = d.result
        /\ d.hit = <<>> /\ hits # <<>> /\ hits' = Tail(hits)
        /\ d'.hit = <<>> \/ d'.hit = <<Head(hits)>>
    BY <1>3, <1>t DEF PollHit, TypeInv, JobInv
  <2>2. HitPipe = hits /\ (HitPipe' = Tail(hits) \/ HitPipe' = hits)
    <3>1. HitPipe = hits
      BY <2>1, PipeType DEF HitPipe
    <3>2. hits \in Seq(Hit) /\ Tail(hits) \in Seq(Hit)
      BY <2>1, PipeType
    <3>3. <<>> \o Tail(hits) = Tail(hits) /\ <<Head(hits)>> \o Tail(hits) = hits
      BY <2>1, <3>2, FirstAndRest
    <3> QED
      BY <2>1, <3>1, <3>3 DEF HitPipe
  <2> QED
    BY <1>0, <2>1, <2>2 DEF Pipe
<1>4. CASE PostScan
  <2> DEFINE hit == d.hit[1]
             r == [kind |-> "share", HWCtxID |-> hit.HWCtxID, job |-> hit.job,
                   share |-> hit.share, meets |-> hit.job = Jobs[hit.HWCtxID].job]
  <2>1. hit \in Hit /\ d.hit = <<hit>>
    <3>1. d.hit \in BoundedSeq(Hit, 1) /\ d.hit # <<>>
      BY <1>4, <1>t DEF PostScan, JobInv, TypeInv
    <3> QED
      BY <3>1, AtMostOne
  <2>2. r \in Result /\ r.share = hit.share
    BY <2>1 DEF Result, Hit
  <2>3. HitPipe # <<>> /\ Head(HitPipe) = hit /\ Tail(HitPipe) = hits
    <3>1. <<hit>> \o hits # <<>> /\ Head(<<hit>> \o hits) = hit /\ Tail(<<hit>> \o hits) = hits
      BY <2>1, PipeType
    <3> QED
      BY <2>1, <3>1 DEF HitPipe
  <2>4. UNCHANGED <<Results, hits>> /\ d'.hit = <<>> /\ d.result = <<>>
    BY <1>4, <1>t DEF PostScan, JobInv, TypeInv
  <2>5. HitPipe' = Tail(HitPipe)
    BY <2>3, <2>4, PipeType, Concats DEF HitPipe
  <2>6. CASE Validate(hit) /\ ~IsDuplicate(hit)
    <3>1. LastJobResult' = hit.share /\ d'.result = <<r>>
      BY <1>4, <1>t, <2>6 DEF PostScan
    <3>2. r.meets => r.HWCtxID \in DOMAIN Jobs /\ r.job = Jobs[r.HWCtxID].job
      BY <2>6 DEF Validate, findJob
    <3>3. hit.share # LastJobResult
      BY <2>6 DEF IsDuplicate
    <3> HIDE DEF r, hit
    <3>4. Accepts(r)
      BY <2>2, <2>3, <3>1, <3>2, <3>3 DEF Accepts
    <3>5. Pipe' = Append(Pipe, r)
      BY <2>2, <2>4, <3>1, PipeType, Concats DEF Pipe
    <3> QED
      BY <1>0, <2>2, <2>3, <2>5, <3>4, <3>5
  <2>7. CASE ~(Validate(hit) /\ ~IsDuplicate(hit))
    <3>1. UNCHANGED LastJobResult /\ d'.result = d.result
      BY <1>4, <1>t, <2>7 DEF PostScan
    <3> QED
      BY <1>0, <2>3, <2>4, <2>5, <3>1 DEF Pipe
  <2> QED
    BY <2>6, <2>7
<1>5. CASE AddResult
  <2>1. UNCHANGED <<hits, LastJobResult>> /\ d'.hit = d.hit /\ d'.result = <<>>
        /\ Results' = Pipe
    BY <1>5, <1>t DEF AddResult, Pipe
  <2>2. Pipe' = Pipe
    BY <2>1, PipeType, Concats DEF Pipe
  <2> QED
    BY <1>0, <2>1, <2>2 DEF HitPipe
<1> QED
  BY <1>1, <1>2, <1>3, <1>4, <1>5 DEF Device

\* the ASICs report a new share, or the last one again
LEMMA AsicPipe ==
    ASSUME TypeInv, FindNonce \/ RepeatHit
    PROVE  /\ UNCHANGED <<Pipe, ID, Jobs, added, burst, submitted, LastJobResult>>
           /\ reports' = reports + 1
           /\ \E h \in Hit :
                /\ HitPipe' = Append(HitPipe, h)
                /\ \/ h.share = reports + 1
                   \/ HitPipe # <<>> /\ h = HitPipe[Len(HitPipe)]
<1>1. UNCHANGED <<Pipe, ID, Jobs, added, burst, submitted, LastJobResult, d>>
      /\ reports' = reports + 1
  BY DEF FindNonce, RepeatHit, AsicUnchanged, Pipe
<1>2. ASSUME NEW h \in Hit, hits' = Append(hits, h)
      PROVE  HitPipe' = Append(HitPipe, h)
  <2>1. d.hit \in Seq(Hit) /\ hits \in Seq(Hit)
    BY PipeType
  <2>2. \A q, t \in Seq(Hit) : q \o Append(t, h) = Append(q \o t, h)
    BY <1>2, Concats
  <2> QED
    BY <1>1, <1>2, <2>1, <2>2 DEF HitPipe
<1>3. CASE FindNonce
  <2>1. PICK i \in DOMAIN loaded :
            hits' = Append(hits, [HWCtxID |-> loaded[i].HWCtxID, job |-> loaded[i].job,
                                  share |-> reports + 1])
    BY <1>3 DEF FindNonce
  <2> DEFINE h == [HWCtxID |-> loaded[i].HWCtxID, job |-> loaded[i].job, share |-> reports + 1]
  <2>2. loaded[i] \in [HWCtxID : IDs, job : JobNo]
    BY SeqParts DEF TypeInv, TypeOK
  <2>3. reports + 1 \in ShareNo
    BY <1>3, BoundAssumption DEF FindNonce, TypeInv, TypeOK, ShareNo
  <2>4. h \in Hit /\ h.share = reports + 1
    BY <2>2, <2>3 DEF Hit
  <2> HIDE DEF h
  <2> QED
    BY <1>1, <1>2, <2>1, <2>4 DEF h
<1>4. CASE RepeatHit
  <2>1. hits # <<>> /\ hits' = Append(hits, Last(hits)) /\ hits \in Seq(Hit)
    BY <1>4, PipeType DEF RepeatHit
  <2>2. Last(hits) \in Hit
    BY <2>1 DEF Last
  <2>3. HitPipe # <<>> /\ HitPipe[Len(HitPipe)] = Last(hits)
    BY <2>1, PipeType DEF HitPipe, Last
  <2> QED
    BY <1>1, <1>2, <2>1, <2>2, <2>3
<1> QED
  BY <1>3, <1>4

-----------------------------------------------------------------------------
(* A share is submitted for its job.                                       *)

NumIDs == IDMax - IDMin + 1

(* A share that will be submitted has the ID that its job was given.  No   *)
(* more than burst jobs were added since, fewer than there are IDs.        *)
ForJob(r) ==
    r # HashRate /\ r.meets =>
        /\ r.job <= added /\ added <= r.job + burst
        /\ \/ r.HWCtxID + added + 1 = ID + r.job
           \/ r.HWCtxID + added + 1 = ID + r.job + NumIDs
ForJobs == {r \in Result \cup {HashRate} : ForJob(r)}
JobsInv == ForItsJob /\ Pipe \in Seq(ForJobs)

\* the numbers of the model are numbers
LEMMA Numbers ==
    ASSUME TypeInv
    PROVE  /\ ID \in Int /\ added \in Nat /\ burst \in Nat /\ reports \in Nat
           /\ LastJobResult \in Nat /\ IDMin \in Nat /\ IDMax \in Nat /\ NumIDs \in Nat
           /\ burst < NumIDs /\ IDMin <= ID /\ ID <= IDMax + 1
           /\ ID - 1 + 1 = ID
BY IDAssumption, BurstAssumption DEF TypeInv, TypeOK, NumIDs

\* an element of a result
LEMMA ShareType ==
    ASSUME NEW r \in Result
    PROVE  /\ r.HWCtxID \in IDs /\ r.HWCtxID \in Nat /\ IDMin <= r.HWCtxID
           /\ r.HWCtxID <= IDMax /\ r.job \in Nat /\ r.share \in Nat /\ r.meets \in BOOLEAN
BY IDAssumption DEF Result, IDs, JobNo, ShareNo

\* a sequence of a set's elements is one of those of a larger set
LEMMA SeqLarger ==
    ASSUME NEW S, NEW T, S \subseteq T, NEW q \in Seq(S)
    PROVE  q \in Seq(T)
OBVIOUS

\* parts of a sequence, and one more, are of the same kind
LEMMA SeqChange ==
    ASSUME NEW S, NEW q \in Seq(S)
    PROVE  /\ q # <<>> => Tail(q) \in Seq(S) /\ Head(q) \in S
           /\ \A x \in S : Append(q, x) \in Seq(S)
OBVIOUS

\* nothing is on its way in the beginning
LEMMA InitJobs == Init => JobsInv
<1> SUFFICES ASSUME Init PROVE JobsInv
  OBVIOUS
<1>1. Pipe = <<>>
  BY DEF Init, Pipe
<1>2. Pipe \in Seq(ForJobs)
  BY <1>1, ShortSeq
<1> QED
  BY <1>2 DEF Init, JobsInv, ForItsJob

\* the session takes a result for the job it names, and another ID for the
\* next job
LEMMA SessionJobs ==
    ASSUME TypeInv, JobsInv, Session
    PROVE  JobsInv'
<1>1. CASE GetResult
  <2> DEFINE r == Head(Results)
  <2>1. Pipe # <<>> /\ Pipe' = Tail(Pipe) /\ r = Head(Pipe)
    BY <1>1, SessionPipe
  <2>2. r \in ForJobs /\ Pipe' \in Seq(ForJobs)
    BY <2>1, SeqChange DEF JobsInv
  <2>3. ForJobs' = ForJobs
    BY <1>1 DEF GetResult, ForJobs, ForJob
  <2>4. ForItsJob'
    <3>1. CASE /\ r # HashRate /\ findJob(r.HWCtxID) # {} /\ r.meets
               /\ submitted' = Append(submitted, [job |-> Jobs[r.HWCtxID].job,
                                                  share |-> r.share, foundFor |-> r.job])
      <4>1. r \in Result /\ r.HWCtxID \in DOMAIN Jobs
        BY <2>2, <3>1 DEF ForJobs, findJob
      <4>2. r.HWCtxID = ID - 1 /\ Jobs[r.HWCtxID].job = added
        BY <4>1 DEF TypeInv, JobInv
      <4>3. ForJob(r)
        BY <2>2 DEF ForJobs
      <4> HIDE DEF r
      <4>4. r.job = added
        <5>1. /\ r.job <= added /\ added <= r.job + burst
              /\ \/ r.HWCtxID + added + 1 = ID + r.job
                 \/ r.HWCtxID + added + 1 = ID + r.job + NumIDs
          BY <3>1, <4>3 DEF ForJob
        <5>2. r.job \in Nat
          BY <4>1, ShareType
        <5> DEFINE n == r.job
        <5> HIDE DEF n
        <5>3. n = added
          BY <4>2, <5>1, <5>2, Numbers DEF n
        <5> QED
          BY <5>3 DEF n
      <4>5. submitted \in Seq([job : JobNo, share : ShareNo, foundFor : JobNo])
        BY DEF TypeInv, TypeOK
      <4> QED
        BY <3>1, <4>2, <4>4, <4>5 DEF ForItsJob, JobsInv
    <3>2. CASE submitted' = submitted
      BY <3>2 DEF ForItsJob, JobsInv
    <3> QED
      BY <1>1, <3>1, <3>2 DEF GetResult
  <2> QED
    BY <2>2, <2>3, <2>4 DEF JobsInv
<1>2. CASE ~GetResult
  <2>1. Pipe' = Pipe /\ ForItsJob'
    BY <1>2, SessionPipe DEF ForItsJob, JobsInv
  <2>2. Pipe \in Seq(ForJobs')
    <3>1. CASE NoResult /\ Drained
      <4>1. Results = <<>> /\ d.result = <<>>
        BY <3>1 DEF Drained, TypeInv, JobInv
      <4>2. Pipe = <<>>
        BY <4>1 DEF Pipe
      <4> QED
        BY <4>2, ShortSeq
    <3>2. CASE AddJob
      <4>1. ASSUME NEW r \in ForJobs PROVE r \in ForJobs'
        <5>1. CASE r # HashRate /\ r.meets
          <6>1. r \in Result /\ ForJob(r)
            BY <5>1 DEF ForJobs
          <6>2. /\ added' = added + 1 /\ burst' = burst + 1 /\ ID' = GetID + 1
                /\ GetID = ID \/ (GetID = IDMin /\ ID = IDMax + 1)
            BY <3>2, GetIDType DEF AddJob
          <6>3. ForJob(r)'
            BY <5>1, <6>1, <6>2, Numbers, ShareType DEF ForJob, NumIDs
          <6> QED
            BY <6>1, <6>3 DEF ForJobs
        <5>2. CASE ~(r # HashRate /\ r.meets)
          BY <5>2 DEF ForJobs, ForJob
        <5> QED
          BY <5>1, <5>2
      <4> QED
        BY <4>1, SeqLarger DEF JobsInv
    <3>3. CASE UNCHANGED <<ID, added, burst>>
      BY <3>3 DEF ForJobs, ForJob, JobsInv
    <3> QED
      BY <1>2, <3>1, <3>2, <3>3 DEF Session, NoResult, NoJob, ClearAndCancelJobs
  <2> QED
    BY <2>1, <2>2 DEF JobsInv
<1> QED
  BY <1>1, <1>2

\* a result that is added is for the last job, or does not meet its target
LEMMA DeviceJobs ==
    ASSUME TypeInv, JobsInv, Device
    PROVE  JobsInv'
<1>1. UNCHANGED <<ID, added, burst, submitted>>
  BY DevicePipe
<1>2. ForJobs' = ForJobs /\ ForItsJob'
  BY <1>1 DEF ForJobs, ForJob, JobsInv, ForItsJob
<1>3. Pipe \in Seq(ForJobs)
  BY DEF JobsInv
<1>4. HashRate \in ForJobs
  BY DEF ForJobs, ForJob
<1>5. ASSUME NEW r \in Result, Accepts(r)
      PROVE  r \in ForJobs
  <2>1. CASE r.meets
    <3>1. r.HWCtxID = ID - 1 /\ r.job = added
      BY <1>5, <2>1 DEF Accepts, TypeInv, JobInv
    <3>2. ForJob(r)
      BY <3>1, Numbers, ShareType DEF ForJob
    <3> QED
      BY <3>2 DEF ForJobs
  <2>2. CASE ~r.meets
    BY <2>2 DEF ForJobs, ForJob
  <2> QED
    BY <2>1, <2>2
<1>6. Pipe' \in Seq(ForJobs)
  <2>1. CASE Pipe' = Pipe \/ Pipe' = Append(Pipe, HashRate)
    BY <1>3, <1>4, <2>1, SeqChange
  <2>2. CASE \E r \in Result : Accepts(r) /\ Pipe' = Append(Pipe, r)
    BY <1>3, <1>5, <2>2, SeqChange
  <2> QED
    BY <2>1, <2>2, DevicePipe
<1> QED
  BY <1>2, <1>6 DEF JobsInv

\* every step keeps the shares for their jobs
LEMMA NextJobs == TypeInv /\ JobsInv /\ [Next]_vars => JobsInv'
<1> SUFFICES ASSUME TypeInv, JobsInv, [Next]_vars PROVE JobsInv'
  OBVIOUS
<1>1. CASE UNCHANGED <<Pipe, ID, added, burst, submitted>>
  BY <1>1 DEF JobsInv, ForItsJob, ForJobs, ForJob
<1>2. CASE UNCHANGED vars
  BY <1>1, <1>2 DEF vars, Pipe
<1>3. CASE FindNonce \/ RepeatHit
  BY <1>1, <1>3, AsicPipe
<1> QED
  BY <1>2, <1>3, SessionJobs, DeviceJobs DEF Next

\* A share is sent to the pool for the job its nonce was found for, although
\* its job is looked up three times by an ID that is used again (hw-job.go,
\* device.go, stratum.go): the IDs do not come round before it is submitted.
THEOREM SharesForTheirJobs == Spec => []ForItsJob
<1>1. JobsInv => ForItsJob
  BY DEF JobsInv
<1> QED
  BY <1>1, InitType, NextType, InitJobs, NextJobs, PTL DEF Spec

-----------------------------------------------------------------------------
(* A share is submitted once.  Shares are numbered as they are found, and  *)
(* nothing overtakes on their way.                                         *)

IsShare(r) == r # HashRate

ResultsRise ==
    \A i, k \in DOMAIN Pipe :
        i < k /\ IsShare(Pipe[i]) /\ IsShare(Pipe[k]) => Pipe[i].share < Pipe[k].share
ResultsAccepted ==
    \A i \in DOMAIN Pipe : IsShare(Pipe[i]) => Pipe[i].share <= LastJobResult
SubmittedRise ==
    \A i, k \in DOMAIN submitted : i < k => submitted[i].share < submitted[k].share
SubmittedBefore ==
    \A i \in DOMAIN submitted :
        /\ submitted[i].share <= LastJobResult
        /\ \A k \in DOMAIN Pipe : IsShare(Pipe[k]) => submitted[i].share < Pipe[k].share
\* the ASICs may repeat a hit, but not an older one
HitsRise ==
    /\ LastJobResult <= reports
    /\ \A i, k \in DOMAIN HitPipe : i <= k => HitPipe[i].share <= HitPipe[k].share
    /\ \A i \in DOMAIN HitPipe :
          LastJobResult <= HitPipe[i].share /\ HitPipe[i].share <= reports

OrderInv == ResultsRise /\ ResultsAccepted /\ SubmittedRise /\ SubmittedBefore /\ HitsRise

\* the numbers of shares are numbers
LEMMA ShareNumbers ==
    ASSUME TypeInv
    PROVE  /\ \A i \in DOMAIN Pipe : IsShare(Pipe[i]) => Pipe[i].share \in Nat
           /\ \A i \in DOMAIN HitPipe : HitPipe[i].share \in Nat
           /\ \A i \in DOMAIN submitted : submitted[i].share \in Nat
           /\ LastJobResult \in Nat /\ reports \in Nat
<1>1. \A i \in DOMAIN Pipe : Pipe[i] \in Result \cup {HashRate}
  BY PipeType
<1>2. \A i \in DOMAIN HitPipe : HitPipe[i] \in Hit
  BY PipeType
<1>3. \A i \in DOMAIN submitted :
          submitted[i] \in [job : JobNo, share : ShareNo, foundFor : JobNo]
  BY SeqParts DEF TypeInv, TypeOK
<1>4. \A h \in Hit : h.share \in Nat
  BY DEF Hit, ShareNo
<1>5. \A e \in [job : JobNo, share : ShareNo, foundFor : JobNo] : e.share \in Nat
  BY DEF ShareNo
<1> QED
  BY <1>1, <1>2, <1>3, <1>4, <1>5, ShareType, Numbers DEF IsShare

\* the head of a sequence goes, or something is added
LEMMA Shift ==
    ASSUME NEW S, NEW q \in Seq(S), NEW x \in S
    PROVE  /\ q # <<>> => /\ DOMAIN q = 1 .. Len(q) /\ Len(q) \in Nat \ {0}
                          /\ DOMAIN Tail(q) = 1 .. (Len(q) - 1)
                          /\ \A i \in DOMAIN Tail(q) : i + 1 \in DOMAIN q /\ Tail(q)[i] = q[i + 1]
                          /\ 1 \in DOMAIN q /\ Head(q) = q[1]
           /\ DOMAIN q = 1 .. Len(q) /\ Len(q) \in Nat
           /\ DOMAIN Append(q, x) = 1 .. (Len(q) + 1)
           /\ \A i \in DOMAIN q : i \in DOMAIN Append(q, x) /\ Append(q, x)[i] = q[i]
           /\ Append(q, x)[Len(q) + 1] = x
OBVIOUS

\* nothing is on its way in the beginning
LEMMA InitOrder == Init => OrderInv
<1> SUFFICES ASSUME Init PROVE OrderInv
  OBVIOUS
<1>1. Pipe = <<>> /\ HitPipe = <<>> /\ submitted = <<>> /\ LastJobResult = 0 /\ reports = 0
  BY DEF Init, Pipe, HitPipe
<1> QED
  BY <1>1 DEF OrderInv, ResultsRise, ResultsAccepted, SubmittedRise, SubmittedBefore, HitsRise

\* the session submits the oldest result, which is newer than what it sent
LEMMA SessionOrder ==
    ASSUME TypeInv, OrderInv, Session
    PROVE  OrderInv'
<1>1. UNCHANGED <<HitPipe, LastJobResult, reports>>
  BY SessionPipe
<1>2. HitsRise'
  BY <1>1 DEF OrderInv, HitsRise
<1>3. CASE Pipe' = Pipe /\ UNCHANGED submitted
  BY <1>1, <1>2, <1>3
     DEF OrderInv, ResultsRise, ResultsAccepted, SubmittedRise, SubmittedBefore
<1>4. CASE Pipe # <<>> /\ Head(Pipe) = Head(Results) /\ Pipe' = Tail(Pipe) /\ GetResult
  <2> DEFINE r == Head(Pipe)
  <2>1. /\ 1 \in DOMAIN Pipe /\ r = Pipe[1]
        /\ \A i \in DOMAIN Pipe' : /\ i \in Nat \ {0} /\ i + 1 \in DOMAIN Pipe
                                   /\ Pipe'[i] = Pipe[i + 1]
    BY <1>4, PipeType, Shift
  <2>2. ResultsRise' /\ ResultsAccepted'
    BY <1>1, <2>1 DEF OrderInv, ResultsRise, ResultsAccepted
  <2>3. CASE submitted' = submitted
    BY <1>1, <1>2, <2>1, <2>2, <2>3 DEF OrderInv, SubmittedRise, SubmittedBefore
  <2>4. ASSUME NEW e, e.share = r.share, IsShare(r), submitted' = Append(submitted, e)
        PROVE  OrderInv'
    <3>1. /\ DOMAIN submitted = 1 .. Len(submitted) /\ Len(submitted) \in Nat
          /\ DOMAIN submitted' = 1 .. (Len(submitted) + 1)
          /\ \A i \in DOMAIN submitted : submitted'[i] = submitted[i]
          /\ submitted'[Len(submitted) + 1] = e
      <4>1. submitted \in Seq([job : JobNo, share : ShareNo, foundFor : JobNo])
        BY DEF TypeInv, TypeOK
      <4> QED
        BY <2>4, <4>1
    <3>2. SubmittedRise'
      BY <2>1, <2>4, <3>1 DEF OrderInv, SubmittedRise, SubmittedBefore
    <3>3. \A k \in DOMAIN Pipe' : IsShare(Pipe'[k]) => e.share < Pipe'[k].share
      BY <2>1, <2>4 DEF OrderInv, ResultsRise
    <3>4. e.share <= LastJobResult
      BY <2>1, <2>4 DEF OrderInv, ResultsAccepted
    <3>5. \A i \in DOMAIN submitted : \A k \in DOMAIN Pipe' :
              IsShare(Pipe'[k]) => submitted[i].share < Pipe'[k].share
      BY <2>1 DEF OrderInv, SubmittedBefore
    <3>6. SubmittedBefore'
      <4>1. \A i \in DOMAIN submitted' : i \in DOMAIN submitted \/ i = Len(submitted) + 1
        BY <3>1
      <4> QED
        BY <1>1, <3>1, <3>3, <3>4, <3>5, <4>1 DEF OrderInv, SubmittedBefore
    <3> QED
      BY <1>2, <2>2, <3>2, <3>6 DEF OrderInv
  <2> QED
    BY <1>4, <2>3, <2>4 DEF GetResult, IsShare
<1> QED
  BY <1>3, <1>4, SessionPipe

\* a hit that is accepted is newer than the last that was
LEMMA DeviceOrder ==
    ASSUME TypeInv, OrderInv, Device
    PROVE  OrderInv'
<1>1. UNCHANGED <<reports, submitted>>
  BY DevicePipe
<1>2. SubmittedRise'
  BY <1>1 DEF OrderInv, SubmittedRise
<1>3. CASE /\ Pipe' = Pipe \/ Pipe' = Append(Pipe, HashRate)
           /\ HitPipe' = HitPipe \/ (HitPipe # <<>> /\ HitPipe' = Tail(HitPipe))
           /\ UNCHANGED LastJobResult
  <2>1. \A i \in DOMAIN Pipe' : IsShare(Pipe'[i]) => i \in DOMAIN Pipe /\ Pipe'[i] = Pipe[i]
    <3>1. CASE Pipe' = Append(Pipe, HashRate)
      BY <3>1, PipeType DEF IsShare
    <3> QED
      BY <1>3, <3>1
  <2>2. ResultsRise' /\ ResultsAccepted' /\ SubmittedBefore'
    BY <1>1, <1>3, <2>1 DEF OrderInv, ResultsRise, ResultsAccepted, SubmittedBefore
  <2>3. HitsRise'
    <3>1. CASE HitPipe' = HitPipe
      BY <1>1, <1>3, <3>1 DEF OrderInv, HitsRise
    <3>2. CASE HitPipe # <<>> /\ HitPipe' = Tail(HitPipe)
      <4>1. \A i \in DOMAIN HitPipe' : /\ i \in Nat \ {0} /\ i + 1 \in DOMAIN HitPipe
                                       /\ HitPipe'[i] = HitPipe[i + 1]
        BY <3>2, PipeType
      <4>2. \A i, k \in DOMAIN HitPipe' : i <= k => HitPipe'[i].share <= HitPipe'[k].share
        BY <4>1 DEF OrderInv, HitsRise
      <4>3. \A i \in DOMAIN HitPipe' :
                LastJobResult <= HitPipe'[i].share /\ HitPipe'[i].share <= reports
        BY <4>1 DEF OrderInv, HitsRise
      <4> QED
        BY <1>1, <1>3, <4>2, <4>3 DEF OrderInv, HitsRise
    <3> QED
      BY <1>3, <3>1, <3>2
  <2> QED
    BY <1>2, <2>2, <2>3 DEF OrderInv
<1>4. ASSUME HitPipe # <<>>, HitPipe' = Tail(HitPipe),
             NEW r \in Result, Accepts(r), Pipe' = Append(Pipe, r)
      PROVE  OrderInv'
  <2>1. /\ 1 \in DOMAIN HitPipe /\ Head(HitPipe) = HitPipe[1]
        /\ \A i \in DOMAIN HitPipe' : /\ i \in Nat \ {0} /\ i + 1 \in DOMAIN HitPipe
                                      /\ HitPipe'[i] = HitPipe[i + 1]
    BY <1>4, PipeType
  <2>2. /\ DOMAIN Pipe = 1 .. Len(Pipe) /\ Len(Pipe) \in Nat
        /\ DOMAIN Pipe' = 1 .. (Len(Pipe) + 1)
        /\ \A i \in DOMAIN Pipe : Pipe'[i] = Pipe[i]
        /\ Pipe'[Len(Pipe) + 1] = r
    BY <1>4, PipeType
  <2>3. /\ r.share = HitPipe[1].share /\ r.share # LastJobResult
        /\ LastJobResult' = r.share
    BY <1>4, <2>1 DEF Accepts
  <2>4. LastJobResult < r.share /\ r.share <= reports /\ r.share \in Nat
    BY <2>1, <2>3, ShareNumbers DEF OrderInv, HitsRise
  <2>5. HitsRise'
    <3>1. \A i \in DOMAIN HitPipe' : r.share <= HitPipe'[i].share /\ HitPipe'[i].share <= reports
      BY <2>1, <2>3 DEF OrderInv, HitsRise
    <3>2. \A i, k \in DOMAIN HitPipe' : i <= k => HitPipe'[i].share <= HitPipe'[k].share
      BY <2>1 DEF OrderInv, HitsRise
    <3> QED
      BY <1>1, <2>3, <2>4, <3>1, <3>2 DEF HitsRise
  <2>6. \A i \in DOMAIN Pipe' : i \in DOMAIN Pipe \/ i = Len(Pipe) + 1
    BY <2>2
  <2>7. \A i \in DOMAIN Pipe : IsShare(Pipe[i]) => Pipe[i].share < r.share
    BY <2>4, ShareNumbers DEF OrderInv, ResultsAccepted
  <2>8. ResultsRise'
    BY <2>2, <2>6, <2>7 DEF OrderInv, ResultsRise
  <2>9. ResultsAccepted'
    BY <2>2, <2>3, <2>4, <2>6, <2>7, ShareNumbers DEF ResultsAccepted
  <2>10. \A i \in DOMAIN submitted : submitted[i].share < r.share
    BY <2>4, ShareNumbers DEF OrderInv, SubmittedBefore
  <2>11. SubmittedBefore'
    BY <1>1, <2>2, <2>3, <2>6, <2>10, ShareNumbers, <2>4 DEF OrderInv, SubmittedBefore
  <2> QED
    BY <1>2, <2>5, <2>8, <2>9, <2>11 DEF OrderInv
<1> QED
  BY <1>3, <1>4, DevicePipe

\* a hit that is new or repeated is not older than the others
LEMMA AsicOrder ==
    ASSUME TypeInv, OrderInv, FindNonce \/ RepeatHit
    PROVE  OrderInv'
<1>1. UNCHANGED <<Pipe, submitted, LastJobResult>> /\ reports' = reports + 1
  BY AsicPipe
<1>2. PICK h \in Hit : /\ HitPipe' = Append(HitPipe, h)
                       /\ \/ h.share = reports + 1
                          \/ HitPipe # <<>> /\ h = HitPipe[Len(HitPipe)]
  BY AsicPipe
<1>3. /\ DOMAIN HitPipe = 1 .. Len(HitPipe) /\ Len(HitPipe) \in Nat
      /\ DOMAIN HitPipe' = 1 .. (Len(HitPipe) + 1)
      /\ \A i \in DOMAIN HitPipe : HitPipe'[i] = HitPipe[i]
      /\ HitPipe'[Len(HitPipe) + 1] = h
      /\ HitPipe # <<>> => Len(HitPipe) \in DOMAIN HitPipe
  BY <1>2, PipeType
<1>4. \A i \in DOMAIN HitPipe' : i \in DOMAIN HitPipe \/ i = Len(HitPipe) + 1
  BY <1>3
<1>5. /\ \A i \in DOMAIN HitPipe : HitPipe[i].share <= h.share
      /\ LastJobResult <= h.share /\ h.share <= reports + 1 /\ h.share \in Nat
  BY <1>2, <1>3, ShareNumbers DEF OrderInv, HitsRise
<1>6. HitsRise'
  <2>1. \A i, k \in DOMAIN HitPipe' : i <= k => HitPipe'[i].share <= HitPipe'[k].share
    BY <1>3, <1>4, <1>5 DEF OrderInv, HitsRise
  <2>2. \A i \in DOMAIN HitPipe' :
            LastJobResult <= HitPipe'[i].share /\ HitPipe'[i].share <= reports + 1
    BY <1>3, <1>4, <1>5, ShareNumbers DEF OrderInv, HitsRise
  <2> QED
    BY <1>1, <2>1, <2>2, ShareNumbers DEF OrderInv, HitsRise
<1> QED
  BY <1>1, <1>6 DEF OrderInv, ResultsRise, ResultsAccepted, SubmittedRise, SubmittedBefore

\* every step keeps the order
LEMMA NextOrder == TypeInv /\ OrderInv /\ [Next]_vars => OrderInv'
<1> SUFFICES ASSUME TypeInv, OrderInv, [Next]_vars PROVE OrderInv'
  OBVIOUS
<1>1. CASE UNCHANGED vars
  <2>1. UNCHANGED <<Pipe, HitPipe, submitted, LastJobResult, reports>>
    BY <1>1 DEF vars, Pipe, HitPipe
  <2> QED
    BY <2>1 DEF OrderInv, ResultsRise, ResultsAccepted, SubmittedRise, SubmittedBefore, HitsRise
<1> QED
  BY <1>1, SessionOrder, DeviceOrder, AsicOrder DEF Next

\* No share is sent to the pool twice although the ASICs repeat hits: one
\* number remembered (LastJobResult of device.go) is enough if they repeat
\* their last hit only.
THEOREM SharesSubmittedOnce == Spec => []SubmittedOnce
<1>1. TypeInv /\ OrderInv => SubmittedOnce
  <2> SUFFICES ASSUME TypeInv, OrderInv,
                      NEW i \in DOMAIN submitted, NEW k \in DOMAIN submitted,
                      submitted[i].share = submitted[k].share
               PROVE  i = k
    BY DEF SubmittedOnce
  <2>1. i \in Nat /\ k \in Nat
    <3>1. submitted \in Seq([job : JobNo, share : ShareNo, foundFor : JobNo])
      BY DEF TypeInv, TypeOK
    <3> QED
      BY <3>1
  <2>2. ~(i < k) /\ ~(k < i)
    BY ShareNumbers DEF OrderInv, SubmittedRise
  <2> QED
    BY <2>1, <2>2
<1> QED
  BY <1>1, InitType, NextType, InitOrder, NextOrder, PTL DEF Spec
=============================================================================
