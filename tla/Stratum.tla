------------------------------- MODULE Stratum -------------------------------
(***************************************************************************)
(* One stratum session of eval_miner/pool/stratum with its connection      *)
(* (jsonrpc/client.go), job queue (job/jobQ.go) and shares waiting for     *)
(* their answers (job/share.go).  Two goroutines work on it: Stratum.Run   *)
(* sends, and RecvAndHandle receives and calls handleResponse; both assign *)
(* State without a lock.  The pool server, the network and the devices are *)
(* the environment.                                                        *)
(*                                                                         *)
(* A request is named by its method and, for a submit, by its share, which *)
(* stands for the request's ID: IDs are fresh, and a share that is sent    *)
(* again keeps its ID.  Answers to the other requests are told apart by    *)
(* State alone, as in the code.                                            *)
(***************************************************************************)
EXTENDS Naturals, Sequences

CONSTANTS
    Shares,              \* bound: the shares the devices find
    MAX_RETRY,
    MaxPush,             \* bound: what the server sends unasked
    InTime,              \* TRUE: an answer to configure takes less than 5 s
    None                 \* no share

ASSUME RetryAssumption  == MAX_RETRY \in Nat \ {0}
ASSUME PushAssumption   == MaxPush \in Nat
ASSUME InTimeAssumption == InTime \in BOOLEAN
ASSUME NoneAssumption   == None \notin Shares

VARIABLES
    State,
    err,                 \* local of Run()
    bExit, bPoolExit,
    bXnSub,              \* the pool is configured for extranonce.subscribe
    Retry,
    tx,                  \* where Run() is
    rx,                  \* where RecvAndHandle is
    Rxchan,              \* TRUE: it holds "EOF"
    conn,                \* "open", "eof" (closed by the server), "closed"
    toServer, toClient,  \* messages on the connection
    ExtraNonce1,         \* whose it is: nobody's, an old connection's, this one's
    refused,             \* history: subscribe was answered without an extranonce
    JobQ,
    idle,                \* 90 s have passed since tstart
    shmap,               \* share -> Submitted, for the shares in the map
    counted,             \* how often ShareFunc was called for each share
    fresh,               \* shares the devices have not handed over
    given,               \* ExtraNonce1 of the jobs given to the devices
    pushes

vars == <<State, err, bExit, bPoolExit, bXnSub, Retry, tx, rx, Rxchan, conn, toServer,
          toClient, ExtraNonce1, refused, JobQ, idle, shmap, counted, fresh, given, pushes>>

Methods == {"configure", "subscribe", "xnsub", "authorize", "submit"}
Pushed  == {"notify", "set_extranonce", "reconnect"}
Message == [kind : Methods \cup Pushed, share : Shares \cup {None}]

Sent(method) == CASE method = "configure" -> "CONFIGURE_SENT"
                  [] method = "subscribe" -> "SUBSCRIBE_SENT"
                  [] method = "xnsub"     -> "XNSUB_SENT"
                  [] method = "authorize" -> "AUTHORIZE_SENT"
States == {"INIT", "CONFIGURE_SENT", "CONFIGURE_DONE", "SUBSCRIBE_SENT", "SUBSCRIBE_DONE",
           "XNSUB_SENT", "XNSUB_DONE", "AUTHORIZE_SENT", "GETJOB", "DISCONNECT"}

-----------------------------------------------------------------------------
(* Client.Call: the write succeeds or fails; what is written to a          *)
(* connection the server has closed is lost.                               *)
Call(kind, share, ok) ==
    toServer' = IF ok /\ conn = "open"
                THEN Append(toServer, [kind |-> kind, share |-> share]) ELSE toServer

TxUnchanged == UNCHANGED <<bPoolExit, bXnSub, rx, toClient, ExtraNonce1, refused, counted,
                           pushes>>

MutDialForever ==
    /\ tx.pc = "dial"
    /\ \/ conn' = "open" /\ Retry' = 0 /\ tx' = [tx EXCEPT !.pc = "top"]
       \/ Retry' = Retry + 1 /\ UNCHANGED <<conn, tx>>
    /\ UNCHANGED <<State, err, bExit, Rxchan, toServer, JobQ, idle, shmap, fresh, given>>
    /\ TxUnchanged
(* Without a connection Run() dials, whatever the exit flags say.          *)
TxDial ==
    /\ tx.pc = "dial"
    /\ \/ /\ Retry >= MAX_RETRY
          /\ err' = "Unreachable"
          /\ bExit' = TRUE
          /\ tx' = [tx EXCEPT !.pc = "over"]
          /\ UNCHANGED <<Retry, conn>>
       \/ /\ Retry < MAX_RETRY
          /\ \/ conn' = "open" /\ Retry' = 0 /\ tx' = [tx EXCEPT !.pc = "top"]
             \/ Retry' = Retry + 1 /\ UNCHANGED <<conn, tx>>
          /\ UNCHANGED <<err, bExit>>
    /\ UNCHANGED <<State, Rxchan, toServer, JobQ, idle, shmap, fresh, given>>
    /\ TxUnchanged

(* The head of the loop when the session is to end.                        *)
MustExit == bExit \/ bPoolExit \/ err # "nil"
TxExit ==
    /\ tx.pc = "top"
    /\ MustExit
    /\ bExit' = TRUE
    /\ JobQ' = <<>>
    /\ conn' = "closed"
    /\ tx' = [tx EXCEPT !.pc = "over"]
    /\ UNCHANGED <<State, err, Retry, Rxchan, toServer, idle, shmap, fresh, given>>
    /\ TxUnchanged

(* Otherwise Rxchan is polled, and the state tells what to send.  State is *)
(* assigned after the call returns: the action TxAssign.                   *)
Request(method) ==
    \E ok \in BOOLEAN :
        /\ Call(method, None, ok)
        /\ err' = IF ok THEN "nil" ELSE "tx"
        /\ tx' = [tx EXCEPT !.pc = "assign", !.next = Sent(method)]
Become(state) ==
    /\ tx' = [tx EXCEPT !.pc = "assign", !.next = state]
    /\ UNCHANGED <<err, toServer>>

\* 5 s since configure was sent
ConfigureOutstanding ==
    \/ \E i \in DOMAIN toServer : toServer[i].kind = "configure"
    \/ \E i \in DOMAIN toClient : toClient[i].kind = "configure"
    \/ rx.pc = "handle" /\ rx.msg.kind = "configure"
MutNoWait == TRUE
ConfigureTimeout == InTime => ~ConfigureOutstanding

TxHandshake ==
    /\ tx.pc = "top"
    /\ ~MustExit
    /\ ~Rxchan
    /\ \/ State = "INIT" /\ Request("configure")
       \/ State = "CONFIGURE_SENT" /\ ConfigureTimeout /\ Become("CONFIGURE_DONE")
       \/ State = "CONFIGURE_DONE" /\ Request("subscribe")
       \/ State = "SUBSCRIBE_DONE" /\ ~bXnSub /\ Become("XNSUB_DONE")
       \/ State = "SUBSCRIBE_DONE" /\ bXnSub /\ Request("xnsub")
       \/ State = "XNSUB_DONE" /\ Request("authorize")
    /\ UNCHANGED <<State, bExit, Retry, Rxchan, conn, JobQ, idle, shmap, fresh, given>>
    /\ TxUnchanged
TxAssign ==
    /\ tx.pc = "assign"
    /\ State' = tx.next
    /\ idle' = (idle /\ tx.next # "AUTHORIZE_SENT")
    /\ tx' = [tx EXCEPT !.pc = "top"]
    /\ UNCHANGED <<err, bExit, Retry, Rxchan, conn, toServer, JobQ, shmap, fresh, given>>
    /\ TxUnchanged

MutEofIgnored ==
    /\ tx.pc = "top"
    /\ ~MustExit
    /\ State = "DISCONNECT"
    /\ Rxchan' = FALSE
    /\ bExit' = TRUE
    /\ UNCHANGED <<State, err, Retry, tx, conn, toServer, JobQ, idle, shmap, fresh, given>>
    /\ TxUnchanged
TxDisconnect ==
    /\ tx.pc = "top"
    /\ ~MustExit
    /\ Rxchan \/ State = "DISCONNECT"
    /\ State' = "DISCONNECT"
    /\ Rxchan' = FALSE
    /\ bExit' = TRUE
    /\ UNCHANGED <<err, Retry, tx, conn, toServer, JobQ, idle, shmap, fresh, given>>
    /\ TxUnchanged

-----------------------------------------------------------------------------
(* One pass in STATE_GETJOB: resubmit a share, drop stale ones, submit     *)
(* what the devices found, take a job.                                     *)

Pass(from, to) == tx.pc = from /\ tx' = [tx EXCEPT !.pc = to]
TxMining ==
    /\ Pass("top", "scan")
    /\ ~MustExit
    /\ ~Rxchan
    /\ State = "GETJOB"
    /\ UNCHANGED <<State, err, bExit, Retry, Rxchan, conn, toServer, JobQ, idle, shmap,
                   fresh, given>>
    /\ TxUnchanged

\* Submit: the call, and then (TxAdd) the entry in the map
Submit(share, then) ==
    \E ok \in BOOLEAN :
        /\ Call("submit", share, ok)
        /\ tx' = [pc |-> "add", next |-> then, share |-> share, ok |-> ok]

MutScanAll == DOMAIN shmap
Scan4Resubmit == {s \in DOMAIN shmap : ~shmap[s]}
TxResubmit ==
    /\ tx.pc = "scan"
    /\ \/ /\ Scan4Resubmit = {}
          /\ tx' = [tx EXCEPT !.pc = "stale"]
          /\ UNCHANGED toServer
       \/ \E s \in Scan4Resubmit : Submit(s, "stale")
    /\ UNCHANGED <<State, err, bExit, Retry, Rxchan, conn, JobQ, idle, shmap, fresh, given>>
    /\ TxUnchanged

\* a share's two minutes may be over at any time
RemoveStale ==
    /\ Pass("stale", "results")
    /\ \E kept \in SUBSET DOMAIN shmap : shmap' = [s \in kept |-> shmap[s]]
    /\ UNCHANGED <<State, err, bExit, Retry, Rxchan, conn, toServer, JobQ, idle, fresh, given>>
    /\ TxUnchanged

\* The devices have a share that meets the target, or nothing more, or a message
\* or a stale result, which ends the loop too.  A result that does not meet the
\* target changes nothing.
TxResult ==
    /\ tx.pc = "results"
    /\ \/ \E s \in fresh : Submit(s, "results") /\ fresh' = fresh \ {s}
       \/ tx' = [tx EXCEPT !.pc = "getjob"] /\ UNCHANGED <<toServer, fresh>>
    /\ UNCHANGED <<State, err, bExit, Retry, Rxchan, conn, JobQ, idle, shmap, given>>
    /\ TxUnchanged

(* Shares.Add, and Submit returns.                                         *)
TxAdd ==
    /\ tx.pc = "add"
    /\ shmap' = [s \in DOMAIN shmap \cup {tx.share} |->
                    IF s # tx.share THEN shmap[s]
                    ELSE tx.ok \/ (s \in DOMAIN shmap /\ shmap[s])]
    /\ err' = IF tx.ok THEN "nil" ELSE "tx"
    /\ tx' = [pc |-> tx.next, next |-> "INIT", share |-> None, ok |-> FALSE]
    /\ UNCHANGED <<State, bExit, Retry, Rxchan, conn, toServer, JobQ, idle, fresh, given>>
    /\ TxUnchanged

(* GetJob, the check that the pool sends jobs, and AddJob.  The job is     *)
(* given the extranonce of the moment.                                     *)
TxGetJob ==
    /\ Pass("getjob", "top")
    /\ JobQ' = IF JobQ = <<>> THEN JobQ ELSE Tail(JobQ)
    /\ IF idle
       THEN err' = "NoJob" /\ bExit' = TRUE /\ UNCHANGED <<idle, given>>
       ELSE /\ given' = IF JobQ = <<>> THEN given ELSE given \cup {ExtraNonce1}
            /\ UNCHANGED <<err, bExit, idle>>
    /\ UNCHANGED <<State, Retry, Rxchan, conn, toServer, shmap, fresh>>
    /\ TxUnchanged

-----------------------------------------------------------------------------
(* RecvAndHandle and handleResponse.  A response is interpreted by the     *)
(* State it finds, and the State it leads to is assigned after that.       *)
RxUnchanged == UNCHANGED <<err, bExit, bPoolExit, bXnSub, Retry, toServer, idle, fresh, given,
                           pushes>>

\* handleNotifyMethod: bClearJobQ is always set
Notify == JobQ' = <<"job">>
RxRead ==
    /\ rx.pc = "read"
    /\ toClient # <<>>
    /\ toClient' = Tail(toClient)
    /\ LET msg == Head(toClient) IN
        /\ rx' = IF msg.kind = "reconnect" THEN [rx EXCEPT !.pc = "reconnect"]
                 ELSE IF msg.kind \in Methods
                 THEN [pc |-> "handle", msg |-> msg, seen |-> State]
                 ELSE rx
        /\ IF msg.kind = "notify" THEN Notify ELSE UNCHANGED JobQ
        /\ ExtraNonce1' = IF msg.kind = "set_extranonce" THEN "this" ELSE ExtraNonce1
    /\ UNCHANGED <<State, Rxchan, conn, refused, shmap, counted>>
    /\ UNCHANGED tx
    /\ RxUnchanged

\* hanleClientReconnect: to another domain it is ignored; it may sleep first
RxReconnect ==
    /\ rx.pc = "reconnect"
    /\ State' \in {State, "DISCONNECT"}
    /\ rx' = [rx EXCEPT !.pc = "read"]
    /\ UNCHANGED <<Rxchan, conn, toClient, ExtraNonce1, refused, JobQ, shmap, counted>>
    /\ UNCHANGED tx
    /\ RxUnchanged

MutSubscribeKeeps(kind) ==
    \/ /\ kind = "subscribe"
       /\ ExtraNonce1' = IF ExtraNonce1 = "nobody" THEN "this" ELSE ExtraNonce1
       /\ UNCHANGED refused
    \/ refused' = TRUE /\ UNCHANGED ExtraNonce1
(* An array is taken to have three entries, of which the second is the     *)
(* extranonce; an error, null or another value leaves ExtraNonce1 alone.   *)
SubscribeResult(kind) ==
    \/ kind = "subscribe" /\ ExtraNonce1' = "this" /\ UNCHANGED refused
    \/ refused' = TRUE /\ UNCHANGED ExtraNonce1

\* AuthorizeResult panics on a result that is not a boolean, which ends the process
Panics == rx.seen = "AUTHORIZE_SENT" /\ rx.msg.kind \in {"configure", "subscribe"}
SubmitResult(msg) ==
    IF msg.kind = "submit" /\ msg.share \in DOMAIN shmap
    THEN /\ shmap' = [s \in DOMAIN shmap \ {msg.share} |-> shmap[s]]
         /\ counted' = [counted EXCEPT ![msg.share] = @ + 1]
    ELSE UNCHANGED <<shmap, counted>>
RxHandle ==
    /\ rx.pc = "handle"
    /\ State' = CASE rx.seen = "CONFIGURE_SENT" -> "CONFIGURE_DONE"
                  [] rx.seen = "SUBSCRIBE_SENT" -> "SUBSCRIBE_DONE"
                  [] rx.seen = "XNSUB_SENT"     -> "XNSUB_DONE"
                  [] rx.seen = "AUTHORIZE_SENT" -> "GETJOB"
                  [] OTHER                      -> State
    /\ IF rx.seen = "SUBSCRIBE_SENT" THEN SubscribeResult(rx.msg.kind)
       ELSE UNCHANGED <<ExtraNonce1, refused>>
    /\ IF rx.seen = "GETJOB" THEN SubmitResult(rx.msg) ELSE UNCHANGED <<shmap, counted>>
    /\ IF Panics
       THEN rx' = [rx EXCEPT !.pc = "panic"] /\ tx' = [tx EXCEPT !.pc = "panic"]
       ELSE rx' = [rx EXCEPT !.pc = "read"] /\ UNCHANGED tx
    /\ UNCHANGED <<Rxchan, conn, toClient, JobQ>>
    /\ RxUnchanged

RxEnd ==
    /\ rx.pc = "read"
    /\ \/ conn = "eof" /\ toClient = <<>>
       \/ conn = "closed"
    /\ Rxchan' = TRUE
    /\ rx' = [rx EXCEPT !.pc = "ended"]
    /\ UNCHANGED <<State, conn, toClient, ExtraNonce1, refused, JobQ, shmap, counted>>
    /\ UNCHANGED tx
    /\ RxUnchanged

-----------------------------------------------------------------------------
(* The environment: the server takes the requests in order and answers     *)
(* each, except that it may not know configure (what it answers is chosen  *)
(* where that is looked at); it sends notifications and may close the      *)
(* connection.  The pool is stopped; time passes.                          *)
EnvUnchanged == UNCHANGED <<State, err, bXnSub, Retry, tx, rx, Rxchan, ExtraNonce1, refused,
                            JobQ, shmap, counted, fresh, given>>
ServerAnswer ==
    /\ toServer # <<>>
    /\ conn = "open"
    /\ toServer' = Tail(toServer)
    /\ \/ toClient' = Append(toClient, Head(toServer))
       \/ Head(toServer).kind = "configure" /\ UNCHANGED toClient
    /\ UNCHANGED <<bExit, bPoolExit, conn, idle, pushes>>
    /\ EnvUnchanged
ServerPush(kind) ==
    /\ conn = "open"
    /\ pushes < MaxPush
    /\ pushes' = pushes + 1
    /\ toClient' = Append(toClient, [kind |-> kind, share |-> None])
    /\ UNCHANGED <<bExit, bPoolExit, conn, toServer, idle>>
    /\ EnvUnchanged
ServerClose ==
    /\ conn = "open"
    /\ conn' = "eof"
    /\ toServer' = <<>>
    /\ UNCHANGED <<bExit, bPoolExit, toClient, idle, pushes>>
    /\ EnvUnchanged
PoolStop ==
    /\ ~bPoolExit
    /\ bPoolExit' = TRUE
    /\ bExit' = TRUE
    /\ UNCHANGED <<conn, toServer, toClient, idle, pushes>>
    /\ EnvUnchanged
Idle ==
    /\ ~idle
    /\ idle' = TRUE
    /\ UNCHANGED <<bExit, bPoolExit, conn, toServer, toClient, pushes>>
    /\ EnvUnchanged

-----------------------------------------------------------------------------
(* NewClient has dialled once; a second session of the same pool begins    *)
(* with the extranonce of the first; the pool may be stopped already.      *)
Init ==
    /\ State = "INIT"
    /\ err = "nil"
    /\ bExit = FALSE
    /\ bPoolExit \in BOOLEAN
    /\ bXnSub \in BOOLEAN
    /\ Retry = 0
    /\ conn \in {"none", "open"}
    /\ tx = [pc |-> IF conn = "open" THEN "top" ELSE "dial", next |-> "INIT",
             share |-> None, ok |-> FALSE]
    /\ rx = [pc |-> "read", msg |-> [kind |-> "notify", share |-> None], seen |-> "INIT"]
    /\ Rxchan = FALSE
    /\ toServer = <<>>
    /\ toClient = <<>>
    /\ ExtraNonce1 \in {"nobody", "old"}
    /\ refused = FALSE
    /\ JobQ = <<>>
    /\ idle = TRUE
    /\ shmap = <<>>
    /\ counted = [s \in Shares |-> 0]
    /\ fresh = Shares
    /\ given = {}
    /\ pushes = 0

Tx ==
    \/ TxDial
    \/ TxExit
    \/ TxHandshake
    \/ TxAssign
    \/ TxDisconnect
    \/ TxMining
    \/ TxResubmit
    \/ RemoveStale
    \/ TxResult
    \/ TxAdd
    \/ TxGetJob
Rx == RxRead \/ RxReconnect \/ RxHandle \/ RxEnd
Server == ServerAnswer \/ ServerClose \/ \E kind \in Pushed : ServerPush(kind)

Next == Tx \/ Rx \/ Server \/ PoolStop \/ Idle

(* Both goroutines are scheduled, a write returns, the server answers, and *)
(* time passes.  The server need not send jobs nor close the connection.   *)
Fairness ==
    /\ WF_vars(Tx)
    /\ WF_vars(Rx)
    /\ WF_vars(ServerAnswer)
    /\ WF_vars(Idle)

Spec     == Init /\ [][Next]_vars
FairSpec == Spec /\ Fairness

-----------------------------------------------------------------------------
(* Every variable has its type.                                            *)
TypeOK ==
    /\ State \in States
    /\ err \in {"nil", "tx", "NoJob", "Unreachable"}
    /\ {bExit, bPoolExit, bXnSub, Rxchan, idle, refused} \subseteq BOOLEAN
    /\ Retry \in 0 .. MAX_RETRY
    /\ conn \in {"none", "open", "eof", "closed"}
    /\ tx \in [pc : {"dial", "top", "assign", "scan", "stale", "results", "add", "getjob", "over",
                    "panic"},
               next : States \cup {"stale", "results"}, share : Shares \cup {None}, ok : BOOLEAN]
    /\ rx \in [pc : {"read", "reconnect", "handle", "ended", "panic"}, msg : Message, seen : States]
    /\ toServer \in Seq([kind : Methods, share : Shares \cup {None}])
    /\ toClient \in Seq(Message)
    /\ ExtraNonce1 \in {"nobody", "old", "this"}
    /\ JobQ \in Seq({"job"})
    /\ DOMAIN shmap \subseteq Shares /\ \A s \in DOMAIN shmap : shmap[s] \in BOOLEAN
    /\ counted \in [Shares -> Nat]
    /\ fresh \subseteq Shares
    /\ given \subseteq {"nobody", "old", "this"}
    /\ pushes \in 0 .. MaxPush

(* handleResponse tells answers apart by State alone.  If the answer to    *)
(* configure is not late, each is still taken for what it answers, however *)
(* the two goroutines race for State (an answer that comes too early is    *)
(* dropped); so AuthorizeResult does not panic.                            *)
AnswersMatch ==
    InTime /\ rx.pc = "handle" =>
        \A m \in Methods \ {"submit"} : rx.seen = Sent(m) => rx.msg.kind = m

(* Unless the server answered subscribe without an extranonce, every job   *)
(* given to the devices has the extranonce of this connection, also when   *)
(* the session was begun with that of the last one.  After such an answer  *)
(* (an error, null) the session goes on with what it was begun with, until *)
(* the server sends another by set_extranonce.                             *)
JobsOfThisConnection == InTime /\ ~refused => given \subseteq {"this"}

(* A share is counted as accepted or rejected at most once, although it    *)
(* may be sent twice, answered before it is in the map, and removed as     *)
(* stale.                                                                  *)
CountedOnce == \A s \in Shares : counted[s] <= 1

Sess == INSTANCE Session WITH
    phase  <- IF tx.pc \in {"dial", "over"} THEN tx.pc ELSE "conn",
    result <- IF tx.pc # "over" \/ err = "nil" THEN "nil"
              ELSE IF err = "Unreachable" THEN err ELSE "other",
    closed <- conn = "eof"

(* The session does what the pool manager relies on: it returns            *)
(* ErrUnreachable only if it never connected, and it returns, in whatever  *)
(* state it is, once it was stopped or the server closed the connection.   *)
ImplementsSession == Sess!Spec

(* What "First tstart set from authorize in case we do not ever receive a  *)
(* job" says: a session that has asked for authorization and gets no job   *)
(* for 90 s ends.                                                          *)
IdleSessionEnds == (State = "AUTHORIZE_SENT" /\ idle) ~> (tx.pc = "over" \/ ~idle)
=============================================================================
