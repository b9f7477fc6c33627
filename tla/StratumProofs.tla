----------------------------- MODULE StratumProofs -----------------------------
(***************************************************************************)
(* Theorems about Stratum for all values of its constants: its types, and, *)
(* if answers to configure are not late, that each answer is taken for     *)
(* what it answers, that jobs carry this connection's extranonce if        *)
(* subscribe brought one, and that every step of a session is one that     *)
(* Session allows; and, late or not, that a share is counted at most once. *)
(***************************************************************************)
EXTENDS Stratum, TLAPS

Handshake == Methods \ {"submit"}
Requested == {"CONFIGURE_SENT", "SUBSCRIBE_SENT", "XNSUB_SENT", "AUTHORIZE_SENT"}

-----------------------------------------------------------------------------
(* Types, in parts.                                                        *)

TxRecord == [pc : {"dial", "top", "assign", "scan", "stale", "results", "add", "getjob", "over",
                   "panic"},
             next : States \cup {"stale", "results"}, share : Shares \cup {None}, ok : BOOLEAN]
RxRecord == [pc : {"read", "reconnect", "handle", "ended", "panic"}, msg : Message, seen : States]
Requests == [kind : Methods, share : Shares \cup {None}]

Scalars ==
    /\ State \in States
    /\ err \in {"nil", "tx", "NoJob", "Unreachable"}
    /\ bExit \in BOOLEAN /\ bPoolExit \in BOOLEAN /\ bXnSub \in BOOLEAN
    /\ Rxchan \in BOOLEAN /\ idle \in BOOLEAN /\ refused \in BOOLEAN
    /\ Retry \in 0 .. MAX_RETRY
    /\ conn \in {"none", "open", "eof", "closed"}
    /\ ExtraNonce1 \in {"nobody", "old", "this"}
    /\ fresh \subseteq Shares
    /\ given \subseteq {"nobody", "old", "this"}
    /\ pushes \in 0 .. MaxPush

\* with what Run() will assign to State, and the share that it will add
TxOK ==
    /\ tx \in TxRecord
    /\ tx.pc = "assign" => tx.next \in Requested \cup {"CONFIGURE_DONE", "XNSUB_DONE"}
    /\ tx.pc = "add" => tx.next \in {"stale", "results"} /\ tx.share \in Shares
RxOK   == rx \in RxRecord
Queues == toServer \in Seq(Requests) /\ toClient \in Seq(Message) /\ JobQ \in Seq({"job"})
Map ==
    /\ DOMAIN shmap \subseteq Shares /\ \A s \in DOMAIN shmap : shmap[s] \in BOOLEAN
    /\ counted \in [Shares -> Nat]

TypeInv == Scalars /\ TxOK /\ RxOK /\ Queues /\ Map

\* the parts are what TypeOK says, and more
LEMMA TypesOK == TypeInv => TypeOK
<1> SUFFICES ASSUME TypeInv
             PROVE  TypeOK
  OBVIOUS
<1>1. /\ State \in States
      /\ err \in {"nil", "tx", "NoJob", "Unreachable"}
      /\ {bExit, bPoolExit, bXnSub, Rxchan, idle, refused} \subseteq BOOLEAN
      /\ Retry \in 0 .. MAX_RETRY
      /\ conn \in {"none", "open", "eof", "closed"}
      /\ ExtraNonce1 \in {"nobody", "old", "this"}
      /\ fresh \subseteq Shares
      /\ given \subseteq {"nobody", "old", "this"}
      /\ pushes \in 0 .. MaxPush
  BY DEF TypeInv, Scalars
<1>2. tx \in TxRecord /\ rx \in RxRecord /\ Queues /\ Map
  BY DEF TypeInv, TxOK, RxOK
<1> QED
  BY <1>1, <1>2, Zenon DEF TypeOK, TxRecord, RxRecord, Queues, Requests, Map

\* what does not change keeps its type
LEMMA Same ==
    /\ TxOK /\ UNCHANGED tx => TxOK'
    /\ RxOK /\ UNCHANGED rx => RxOK'
    /\ Queues /\ UNCHANGED <<toServer, toClient, JobQ>> => Queues'
    /\ Map /\ UNCHANGED <<shmap, counted>> => Map'
<1>1. TxOK /\ UNCHANGED tx => TxOK'
  BY DEF TxOK
<1>2. RxOK /\ UNCHANGED rx => RxOK'
  BY DEF RxOK
<1>3. Queues /\ UNCHANGED <<toServer, toClient, JobQ>> => Queues'
  BY DEF Queues
<1>4. Map /\ UNCHANGED <<shmap, counted>> => Map'
  BY DEF Map
<1> QED
  BY <1>1, <1>2, <1>3, <1>4

\* the names of the states in which an answer is awaited
LEMMA SentStates ==
    /\ Sent("configure") = "CONFIGURE_SENT" /\ Sent("subscribe") = "SUBSCRIBE_SENT"
    /\ Sent("xnsub") = "XNSUB_SENT" /\ Sent("authorize") = "AUTHORIZE_SENT"
BY DEF Sent

\* the queue of requests keeps its type
LEMMA CallType ==
    ASSUME toServer \in Seq(Requests), NEW kind \in Methods, NEW share \in Shares \cup {None},
           NEW ok, Call(kind, share, ok)
    PROVE  toServer' \in Seq(Requests)
<1> DEFINE request == [kind |-> kind, share |-> share]
<1>1. request \in Requests
  BY DEF Requests
<1>2. toServer' = toServer \/ toServer' = Append(toServer, request)
  BY DEF Call
<1> HIDE DEF request
<1> QED
  BY <1>1, <1>2

\* Run() goes on elsewhere
LEMMA GoesOn ==
    ASSUME TxOK, NEW pc \in {"top", "scan", "stale", "results", "getjob", "over", "panic"},
           tx' = [tx EXCEPT !.pc = pc]
    PROVE  TxOK'
BY DEF TxOK, TxRecord

\* the steps of Run() keep the types
LEMMA TxType == TypeInv /\ Tx => TypeInv'
<1> SUFFICES ASSUME Scalars, TxOK, RxOK, Queues, Map, Tx
             PROVE  TypeInv'
  BY DEF TypeInv
<1>t. TxUnchanged
  BY DEF Tx, TxDial, TxExit, TxHandshake, TxAssign, TxDisconnect, TxMining, TxResubmit,
         RemoveStale, TxResult, TxAdd, TxGetJob
<1>u. RxOK'
  BY <1>t, Same DEF TxUnchanged
<1>1. CASE TxDial
  <2>1. Queues' /\ Map'
    BY <1>1, <1>t, Same DEF TxDial, TxUnchanged
  <2>2. TxOK'
    BY <1>1, Same, GoesOn DEF TxDial
  <2>3. Retry' \in 0 .. MAX_RETRY
    <3>1. Retry' \in {Retry, 0} \/ (Retry < MAX_RETRY /\ Retry' = Retry + 1)
      BY <1>1 DEF TxDial
    <3> QED
      BY <3>1, RetryAssumption DEF Scalars
  <2>4. UNCHANGED <<State, Rxchan, idle, fresh, given>> /\ conn' \in {conn, "open"}
    BY <1>1 DEF TxDial
  <2>5. err' \in {err, "Unreachable"} /\ bExit' \in {bExit, TRUE}
    BY <1>1 DEF TxDial
  <2>6. Scalars'
    <3>1. UNCHANGED <<bPoolExit, bXnSub, ExtraNonce1, refused, pushes>>
      BY <1>t DEF TxUnchanged
    <3>2. /\ State' \in States /\ err' \in {"nil", "tx", "NoJob", "Unreachable"}
          /\ bExit' \in BOOLEAN /\ conn' \in {"none", "open", "eof", "closed"}
      BY <2>4, <2>5 DEF Scalars
    <3> QED
      BY <2>3, <2>4, <3>1, <3>2 DEF Scalars
  <2> QED
    BY <1>u, <2>1, <2>2, <2>6 DEF TypeInv
<1>2. CASE TxExit
  <2>1. Map'
    BY <1>2, <1>t, Same DEF TxExit, TxUnchanged
  <2>2. TxOK'
    BY <1>2, GoesOn DEF TxExit
  <2>3. Queues'
    BY <1>2, <1>t DEF TxExit, TxUnchanged, Queues
  <2>4. Scalars'
    BY <1>2, <1>t DEF TxExit, TxUnchanged, Scalars
  <2> QED
    BY <1>u, <2>1, <2>2, <2>3, <2>4 DEF TypeInv
<1>3. CASE TxHandshake
  <2>1. UNCHANGED <<State, bExit, Retry, Rxchan, conn, JobQ, idle, shmap, fresh, given>>
    BY <1>3 DEF TxHandshake
  <2>2. ASSUME NEW method \in Handshake, Request(method)
        PROVE  toServer' \in Seq(Requests) /\ err' \in {"nil", "tx"} /\ TxOK'
    <3>1. PICK ok \in BOOLEAN : /\ Call(method, None, ok)
                                /\ err' = IF ok THEN "nil" ELSE "tx"
                                /\ tx' = [tx EXCEPT !.pc = "assign", !.next = Sent(method)]
      BY <2>2 DEF Request
    <3>2. Sent(method) \in Requested
      BY SentStates DEF Handshake, Methods, Requested
    <3>3. TxOK'
      BY <3>1, <3>2 DEF TxOK, TxRecord, Requested, States
    <3> QED
      BY <3>1, <3>3, CallType DEF Handshake, Queues
  <2>3. ASSUME NEW state \in {"CONFIGURE_DONE", "XNSUB_DONE"}, Become(state)
        PROVE  toServer' = toServer /\ err' = err /\ TxOK'
    BY <2>3 DEF Become, TxOK, TxRecord, States
  <2>4. \/ \E method \in Handshake : Request(method)
        \/ \E state \in {"CONFIGURE_DONE", "XNSUB_DONE"} : Become(state)
    BY <1>3 DEF TxHandshake, Handshake, Methods
  <2>5. toServer' \in Seq(Requests) /\ err' \in {err, "nil", "tx"} /\ TxOK'
    BY <2>2, <2>3, <2>4 DEF Queues
  <2>6. Queues' /\ Map'
    BY <1>t, <2>1, <2>5, Same DEF TxUnchanged, Queues
  <2>7. Scalars'
    BY <1>t, <2>1, <2>5 DEF TxUnchanged, Scalars
  <2> QED
    BY <1>u, <2>5, <2>6, <2>7 DEF TypeInv
<1>4. CASE TxAssign
  <2>1. Queues' /\ Map'
    BY <1>4, <1>t, Same DEF TxAssign, TxUnchanged
  <2>2. TxOK'
    BY <1>4, GoesOn DEF TxAssign
  <2>3. tx.next \in States
    BY <1>4 DEF TxAssign, TxOK, Requested, States
  <2>4. Scalars'
    BY <1>4, <1>t, <2>3 DEF TxAssign, TxUnchanged, Scalars
  <2> QED
    BY <1>u, <2>1, <2>2, <2>4 DEF TypeInv
<1>5. CASE TxDisconnect
  <2>1. Queues' /\ Map' /\ TxOK'
    BY <1>5, <1>t, Same DEF TxDisconnect, TxUnchanged
  <2>2. Scalars'
    BY <1>5, <1>t DEF TxDisconnect, TxUnchanged, Scalars, States
  <2> QED
    BY <1>u, <2>1, <2>2 DEF TypeInv
<1>6. CASE TxMining
  <2>1. Queues' /\ Map' /\ TxOK'
    BY <1>6, <1>t, Same, GoesOn DEF TxMining, Pass, TxUnchanged
  <2>2. Scalars'
    BY <1>6, <1>t DEF TxMining, TxUnchanged, Scalars
  <2> QED
    BY <1>u, <2>1, <2>2 DEF TypeInv
<1>7. ASSUME NEW share \in Shares, NEW then \in {"stale", "results"}, Submit(share, then)
      PROVE  toServer' \in Seq(Requests) /\ TxOK'
  <2>1. PICK ok \in BOOLEAN :
           /\ Call("submit", share, ok)
           /\ tx' = [pc |-> "add", next |-> then, share |-> share, ok |-> ok]
    BY <1>7 DEF Submit
  <2>2. TxOK'
    BY <2>1 DEF TxOK, TxRecord
  <2> QED
    BY <2>1, <2>2, CallType DEF Methods, Queues
<1>8. CASE TxResubmit
  <2>1. UNCHANGED <<State, err, bExit, Retry, Rxchan, conn, JobQ, idle, shmap, fresh, given>>
    BY <1>8 DEF TxResubmit
  <2>2. toServer' \in Seq(Requests) /\ TxOK'
    BY <1>7, <1>8, GoesOn DEF TxResubmit, Scan4Resubmit, Map, Queues
  <2>3. Queues' /\ Map'
    BY <1>t, <2>1, <2>2, Same DEF TxUnchanged, Queues
  <2>4. Scalars'
    BY <1>t, <2>1 DEF TxUnchanged, Scalars
  <2> QED
    BY <1>u, <2>2, <2>3, <2>4 DEF TypeInv
<1>9. CASE RemoveStale
  <2>1. Queues' /\ TxOK'
    BY <1>9, <1>t, Same, GoesOn DEF RemoveStale, Pass, TxUnchanged
  <2>2. Map'
    BY <1>9, <1>t DEF RemoveStale, TxUnchanged, Map
  <2>3. Scalars'
    BY <1>9, <1>t DEF RemoveStale, TxUnchanged, Scalars
  <2> QED
    BY <1>u, <2>1, <2>2, <2>3 DEF TypeInv
<1>10. CASE TxResult
  <2>1. UNCHANGED <<State, err, bExit, Retry, Rxchan, conn, JobQ, idle, shmap, given>>
    BY <1>10 DEF TxResult
  <2>2. toServer' \in Seq(Requests) /\ TxOK' /\ fresh' \subseteq Shares
    BY <1>7, <1>10, GoesOn DEF TxResult, Scalars, Queues
  <2>3. Queues' /\ Map'
    BY <1>t, <2>1, <2>2, Same DEF TxUnchanged, Queues
  <2>4. Scalars'
    BY <1>t, <2>1, <2>2 DEF TxUnchanged, Scalars
  <2> QED
    BY <1>u, <2>2, <2>3, <2>4 DEF TypeInv
<1>11. CASE TxAdd
  <2>1. TxOK' /\ err' \in {"nil", "tx"}
    BY <1>11 DEF TxAdd, TxOK, TxRecord, States
  <2>2. DOMAIN shmap' \subseteq Shares /\ \A s \in DOMAIN shmap' : shmap'[s] \in BOOLEAN
    <3>1. DOMAIN shmap' = DOMAIN shmap \cup {tx.share} /\ tx.share \in Shares
      BY <1>11 DEF TxAdd, TxOK
    <3>2. ASSUME NEW s \in DOMAIN shmap'
          PROVE  shmap'[s] \in BOOLEAN
      <4>1. shmap'[s] = IF s # tx.share THEN shmap[s]
                        ELSE tx.ok \/ (s \in DOMAIN shmap /\ shmap[s])
        BY <1>11, <3>1, <3>2 DEF TxAdd
      <4> QED
        BY <3>1, <3>2, <4>1 DEF Map
    <3> QED
      BY <3>1, <3>2 DEF Map
  <2>3. UNCHANGED <<State, bExit, Retry, Rxchan, conn, toServer, JobQ, idle, fresh, given>>
    BY <1>11 DEF TxAdd
  <2>4. Queues' /\ Map'
    BY <1>t, <2>2, <2>3, Same DEF TxUnchanged, Map
  <2>5. Scalars'
    BY <1>t, <2>1, <2>3 DEF TxUnchanged, Scalars
  <2> QED
    BY <1>u, <2>1, <2>4, <2>5 DEF TypeInv
<1>12. CASE TxGetJob
  <2>1. JobQ' \in Seq({"job"}) /\ UNCHANGED <<toServer, shmap>>
    BY <1>12 DEF TxGetJob, Queues
  <2>2. TxOK'
    BY <1>12, GoesOn DEF TxGetJob, Pass
  <2>3. Scalars'
    BY <1>12, <1>t DEF TxGetJob, TxUnchanged, Scalars
  <2>4. Queues' /\ Map'
    BY <1>t, <2>1, Same DEF TxUnchanged, Queues
  <2> QED
    BY <1>u, <2>2, <2>3, <2>4 DEF TypeInv
<1> QED
  BY <1>1, <1>2, <1>3, <1>4, <1>5, <1>6, <1>8, <1>9, <1>10, <1>11, <1>12 DEF Tx

\* the steps of the receiving goroutine keep the types
LEMMA RxType == TypeInv /\ Rx => TypeInv'
<1> SUFFICES ASSUME Scalars, TxOK, RxOK, Queues, Map, Rx
             PROVE  TypeInv'
  BY DEF TypeInv
<1>u. RxUnchanged
  BY DEF Rx, RxRead, RxReconnect, RxHandle, RxEnd
<1>1. CASE RxRead
  <2>1. Head(toClient) \in Message /\ toClient' \in Seq(Message)
    BY <1>1 DEF RxRead, Queues
  <2>2. RxOK'
    <3> DEFINE msg == Head(toClient)
    <3>1. \/ rx' = [rx EXCEPT !.pc = "reconnect"]
          \/ rx' = [pc |-> "handle", msg |-> msg, seen |-> State]
          \/ rx' = rx
      BY <1>1 DEF RxRead
    <3>2. msg \in Message /\ State \in States
      BY <2>1 DEF Scalars
    <3> HIDE DEF msg
    <3> QED
      BY <3>1, <3>2 DEF RxOK, RxRecord
  <2>3. JobQ' \in {JobQ, <<"job">>} /\ ExtraNonce1' \in {ExtraNonce1, "this"}
    BY <1>1 DEF RxRead, Notify
  <2>4. UNCHANGED <<State, Rxchan, conn, refused, shmap, counted, tx>>
    BY <1>1 DEF RxRead
  <2>5. <<"job">> \in Seq({"job"})
    OBVIOUS
  <2>6. Queues'
    BY <1>u, <2>1, <2>3, <2>5 DEF RxUnchanged, Queues
  <2>7. Scalars'
    BY <1>u, <2>3, <2>4 DEF RxUnchanged, Scalars
  <2> QED
    BY <2>2, <2>4, <2>6, <2>7, Same DEF TypeInv
<1>2. CASE RxReconnect
  <2>1. RxOK'
    BY <1>2 DEF RxReconnect, RxOK, RxRecord
  <2>2. Queues' /\ Map' /\ TxOK'
    BY <1>2, <1>u, Same DEF RxReconnect, RxUnchanged
  <2>3. Scalars'
    BY <1>2, <1>u DEF RxReconnect, RxUnchanged, Scalars, States
  <2> QED
    BY <2>1, <2>2, <2>3 DEF TypeInv
<1>3. CASE RxHandle
  <2>1. State' \in States
    BY <1>3 DEF RxHandle, Scalars, States
  <2>2. ExtraNonce1' \in {"this", ExtraNonce1}
    BY <1>3 DEF RxHandle, SubscribeResult
  <2>9. refused' \in BOOLEAN
    <3>1. refused' = TRUE \/ refused' = refused
      BY <1>3 DEF RxHandle, SubscribeResult
    <3> QED
      BY <3>1 DEF Scalars
  <2>3. Map'
    BY <1>3 DEF RxHandle, SubmitResult, Map
  <2>4. RxOK'
    BY <1>3 DEF RxHandle, RxOK, RxRecord
  <2>5. TxOK'
    BY <1>3, GoesOn, Same DEF RxHandle
  <2>6. UNCHANGED <<Rxchan, conn, toClient, JobQ>>
    BY <1>3 DEF RxHandle
  <2>7. Queues'
    BY <1>u, <2>6, Same DEF RxUnchanged
  <2>8. Scalars'
    BY <1>u, <2>1, <2>2, <2>6, <2>9 DEF RxUnchanged, Scalars
  <2> QED
    BY <2>3, <2>4, <2>5, <2>7, <2>8 DEF TypeInv
<1>4. CASE RxEnd
  <2>1. RxOK'
    BY <1>4 DEF RxEnd, RxOK, RxRecord
  <2>2. Queues' /\ Map' /\ TxOK'
    BY <1>4, <1>u, Same DEF RxEnd, RxUnchanged
  <2>3. Scalars'
    BY <1>4, <1>u DEF RxEnd, RxUnchanged, Scalars
  <2> QED
    BY <2>1, <2>2, <2>3 DEF TypeInv
<1> QED
  BY <1>1, <1>2, <1>3, <1>4 DEF Rx

\* the steps of the environment keep the types
LEMMA EnvType == TypeInv /\ (Server \/ PoolStop \/ Idle) => TypeInv'
<1> SUFFICES ASSUME Scalars, TxOK, RxOK, Queues, Map, Server \/ PoolStop \/ Idle
             PROVE  TypeInv'
  BY DEF TypeInv
<1>u. EnvUnchanged
  BY DEF Server, ServerAnswer, ServerPush, ServerClose, PoolStop, Idle
<1>v. TxOK' /\ RxOK' /\ Map'
  BY <1>u, Same DEF EnvUnchanged
<1>1. CASE ServerAnswer
  <2>1. Head(toServer) \in Requests /\ toServer' \in Seq(Requests)
    BY <1>1 DEF ServerAnswer, Queues
  <2>2. Head(toServer) \in Message
    BY <2>1 DEF Requests, Message
  <2>3. toClient' \in Seq(Message)
    <3> DEFINE request == Head(toServer)
    <3>1. toClient' = toClient \/ toClient' = Append(toClient, request)
      BY <1>1 DEF ServerAnswer
    <3>2. request \in Message
      BY <2>2
    <3>3. toClient \in Seq(Message)
      BY DEF Queues
    <3> HIDE DEF request
    <3> QED
      BY <3>1, <3>2, <3>3
  <2>4. Queues'
    BY <1>u, <2>1, <2>3 DEF EnvUnchanged, Queues
  <2>5. Scalars'
    BY <1>1, <1>u DEF ServerAnswer, EnvUnchanged, Scalars
  <2> QED
    BY <1>v, <2>4, <2>5 DEF TypeInv
<1>2. ASSUME NEW kind \in Pushed, ServerPush(kind)
      PROVE  TypeInv'
  <2> DEFINE msg == [kind |-> kind, share |-> None]
  <2>1. msg \in Message
    BY DEF Message
  <2>2. toClient' = Append(toClient, msg)
    BY <1>2 DEF ServerPush
  <2> HIDE DEF msg
  <2>3. toClient' \in Seq(Message)
    BY <2>1, <2>2 DEF Queues
  <2>4. Queues'
    BY <1>2, <1>u, <2>3 DEF ServerPush, EnvUnchanged, Queues
  <2>5. Scalars'
    BY <1>2, <1>u, PushAssumption DEF ServerPush, EnvUnchanged, Scalars
  <2> QED
    BY <1>v, <2>4, <2>5 DEF TypeInv
<1>3. CASE ServerClose
  <2>1. Queues'
    BY <1>3, <1>u DEF ServerClose, EnvUnchanged, Queues
  <2>2. Scalars'
    BY <1>3, <1>u DEF ServerClose, EnvUnchanged, Scalars
  <2> QED
    BY <1>v, <2>1, <2>2 DEF TypeInv
<1>4. CASE PoolStop \/ Idle
  <2>1. Queues'
    BY <1>4, <1>u, Same DEF PoolStop, Idle, EnvUnchanged
  <2>2. Scalars'
    <3>1. UNCHANGED <<State, err, bXnSub, Retry, Rxchan, ExtraNonce1, refused, fresh, given>>
      BY <1>u DEF EnvUnchanged
    <3>2. CASE PoolStop
      BY <3>1, <3>2 DEF PoolStop, Scalars
    <3>3. CASE Idle
      BY <3>1, <3>3 DEF Idle, Scalars
    <3> QED
      BY <1>4, <3>2, <3>3
  <2> QED
    BY <1>v, <2>1, <2>2 DEF TypeInv
<1> QED
  BY <1>1, <1>2, <1>3, <1>4 DEF Server

\* every step keeps the types
LEMMA NextType == TypeInv /\ [Next]_vars => TypeInv'
<1>1. ASSUME TypeInv, UNCHANGED vars
      PROVE  TypeInv'
  <2>1. Scalars'
    BY <1>1 DEF TypeInv, Scalars, vars
  <2> QED
    BY <1>1, <2>1, Same DEF TypeInv, vars
<1> QED
  BY <1>1, TxType, RxType, EnvType DEF Next

\* a session begins with all its types right
LEMMA InitType == Init => TypeInv
<1> SUFFICES ASSUME Init
             PROVE  TypeInv
  OBVIOUS
<1>1. TxOK
  <2>1. (IF conn = "open" THEN "top" ELSE "dial") \in {"top", "dial"}
    OBVIOUS
  <2> QED
    BY <2>1 DEF Init, TxOK, TxRecord, States
<1>2. RxOK
  BY DEF Init, RxOK, RxRecord, Message, Pushed, States
<1>3. Queues
  BY DEF Init, Queues
<1>4. Map
  <2>1. DOMAIN shmap = {}
    <3>1. shmap = <<>> /\ DOMAIN <<>> = 1 .. Len(<<>>) /\ Len(<<>>) = 0
      BY DEF Init
    <3> QED
      BY <3>1
  <2>2. counted \in [Shares -> Nat]
    BY DEF Init
  <2> QED
    BY <2>1, <2>2 DEF Map
<1>5. Scalars
  <2>1. Retry \in 0 .. MAX_RETRY /\ pushes \in 0 .. MaxPush
    BY RetryAssumption, PushAssumption DEF Init
  <2>2. State \in States /\ conn \in {"none", "open", "eof", "closed"}
    BY DEF Init, States
  <2> QED
    BY <2>1, <2>2 DEF Init, Scalars
<1> QED
  BY <1>1, <1>2, <1>3, <1>4, <1>5 DEF TypeInv

\* Every variable keeps its type, whatever the server sends and whenever the
\* session is stopped.
THEOREM TypeCorrect == Spec => []TypeOK
BY InitType, NextType, TypesOK, PTL DEF Spec

-----------------------------------------------------------------------------
(* The requests of the handshake are made one after the other: while one   *)
(* is on its way there is no other message that answers a request.         *)

NoAnswer(q) == \A i \in DOMAIN q : q[i].kind \notin Methods

Quiet == toServer = <<>> /\ NoAnswer(toClient) /\ rx.pc # "handle"

\* a request of kind k, or its answer, is all there is, if there is any
AtServer(k) == /\ Len(toServer) = 1 /\ toServer[1].kind = k
               /\ NoAnswer(toClient) /\ rx.pc # "handle"
AtClient(k) == /\ toServer = <<>> /\ rx.pc # "handle"
               /\ \E j \in DOMAIN toClient :
                    /\ toClient[j].kind = k
                    /\ \A i \in DOMAIN toClient \ {j} : toClient[i].kind \notin Methods
InHand(k)   == toServer = <<>> /\ NoAnswer(toClient) /\ rx.pc = "handle" /\ rx.msg.kind = k
Only(k)     == Quiet \/ AtServer(k) \/ AtClient(k) \/ InHand(k)

Before == {"INIT", "CONFIGURE_DONE", "SUBSCRIBE_DONE", "XNSUB_DONE"}
Work   == {"scan", "stale", "results", "add", "getjob"}
\* the states that follow the answer to subscribe
Known  == {"SUBSCRIBE_DONE", "XNSUB_SENT", "XNSUB_DONE", "AUTHORIZE_SENT", "GETJOB"}

Expected == \A k \in Handshake :
    State = Sent(k) \/ (tx.pc = "assign" /\ tx.next = Sent(k)) => Only(k)
Silence ==
    /\ tx.pc = "top" /\ ~MustExit /\ State \in Before => Quiet
    /\ tx.pc = "assign" /\ tx.next \in {"CONFIGURE_DONE", "XNSUB_DONE"} => Quiet
\* an answer that will be taken for the answer to k is that, and Run() waits for it
Awaited == \A k \in Handshake :
    rx.pc = "handle" /\ rx.seen = Sent(k) =>
        /\ rx.msg.kind = k
        /\ tx.pc \in {"top", "over"} /\ Only(k)
        /\ State = Sent(k) \/ (State = "DISCONNECT" /\ bExit)
Places ==
    /\ tx.pc = "assign" => State \in Before \cup {"DISCONNECT"} \/ tx.next = "CONFIGURE_DONE"
    /\ tx.pc \in Work => State \in {"GETJOB", "DISCONNECT"}
    /\ tx.pc = "dial" => /\ State = "INIT" /\ Quiet
                         /\ toClient = <<>> /\ conn = "none" /\ rx.pc = "read"
    /\ tx.pc # "panic"
ThisNonce == ~refused =>
    /\ State \in Known \/ (tx.pc = "assign" /\ tx.next \in Known) \/ tx.pc \in Work
         => ExtraNonce1 = "this"
    /\ rx.pc = "handle" /\ rx.seen \in {"XNSUB_SENT", "AUTHORIZE_SENT"} => ExtraNonce1 = "this"
    /\ given \subseteq {"this"}

Conversation == Expected /\ Silence /\ Awaited /\ Places /\ ThisNonce
IInv         == TypeInv /\ (InTime => Conversation)

\* each request has a state of its own in which it is awaited
LEMMA SentDiffer ==
    /\ \A k \in Handshake : Sent(k) \in Requested /\ k \in Methods
    /\ \A j, k \in Handshake : Sent(j) = Sent(k) => j = k
    /\ "configure" \in Handshake /\ "subscribe" \in Handshake
    /\ "xnsub" \in Handshake /\ "authorize" \in Handshake
    /\ \A r \in Requested : \E k \in Handshake : r = Sent(k)
BY SentStates DEF Handshake, Methods, Requested

\* what is on its way is the same after a step that leaves the connection alone
LEMMA SameTraffic ==
    ASSUME UNCHANGED <<toServer, toClient, rx>>
    PROVE  (Quiet => Quiet') /\ (\A k : Only(k) => Only(k)')
BY DEF Quiet, Only, AtServer, AtClient, InHand, NoAnswer

\* reading keeps what is on its way, and brings it into hand
LEMMA ReadTraffic ==
    ASSUME TypeInv, RxRead
    PROVE  (Quiet => Quiet') /\ (\A k \in Methods : Only(k) => Only(k)')
<1>t. toClient \in Seq(Message) /\ toClient # <<>>
  BY DEF TypeInv, Queues, RxRead
<1>r. rx.pc = "read" /\ rx \in RxRecord /\ toServer' = toServer
  BY DEF TypeInv, RxOK, RxRead, RxUnchanged
<1> DEFINE msg == Head(toClient)
<1>1. /\ toClient' = Tail(toClient) /\ msg = toClient[1] /\ 1 \in DOMAIN toClient
      /\ \A i \in DOMAIN toClient' : i + 1 \in DOMAIN toClient /\ i + 1 # 1
                                     /\ toClient'[i] = toClient[i + 1]
      /\ \A i \in DOMAIN toClient : i = 1 \/ (i - 1 \in DOMAIN toClient' /\ i = (i - 1) + 1)
  BY <1>t DEF RxRead
<1>2. /\ msg.kind \in Methods => rx'.pc = "handle" /\ rx'.msg = msg
      /\ msg.kind \notin Methods => rx'.pc # "handle"
  <2>1. msg.kind # "reconnect" \/ msg.kind \notin Methods
    BY DEF Methods
  <2> QED
    BY <1>r, <2>1 DEF RxRead, RxRecord
<1> HIDE DEF msg
<1>3. NoAnswer(toClient) => NoAnswer(toClient') /\ msg.kind \notin Methods
  BY <1>1 DEF NoAnswer
<1>4. Quiet => Quiet'
  BY <1>2, <1>3, <1>r DEF Quiet
<1>5. ASSUME NEW k \in Methods, AtServer(k)
      PROVE  AtServer(k)'
  BY <1>2, <1>3, <1>5, <1>r DEF AtServer
<1>6. ASSUME NEW k \in Methods, AtClient(k)
      PROVE  AtClient(k)' \/ InHand(k)'
  <2>1. PICK j \in DOMAIN toClient :
           /\ toClient[j].kind = k
           /\ \A i \in DOMAIN toClient \ {j} : toClient[i].kind \notin Methods
    BY <1>6 DEF AtClient
  <2>2. CASE j = 1
    <3>1. rx'.pc = "handle" /\ rx'.msg.kind = k
      BY <1>1, <1>2, <2>1, <2>2
    <3>2. NoAnswer(toClient')
      BY <1>1, <2>1, <2>2 DEF NoAnswer
    <3> QED
      BY <1>6, <1>r, <3>1, <3>2 DEF AtClient, InHand
  <2>3. CASE j # 1
    <3>1. rx'.pc # "handle"
      BY <1>1, <1>2, <2>1, <2>3
    <3>2. j - 1 \in DOMAIN toClient' /\ toClient'[j - 1].kind = k
      BY <1>1, <2>1, <2>3
    <3>3. ASSUME NEW i \in DOMAIN toClient' \ {j - 1}
          PROVE  toClient'[i].kind \notin Methods
      <4>1. i + 1 \in DOMAIN toClient /\ i + 1 # j /\ toClient'[i] = toClient[i + 1]
        BY <1>1, <1>t, <2>3, <3>3
      <4> QED
        BY <2>1, <4>1
    <3> QED
      BY <1>6, <1>r, <3>1, <3>2, <3>3 DEF AtClient
  <2> QED
    BY <2>2, <2>3
<1> QED
  BY <1>4, <1>5, <1>6, <1>r DEF Only, InHand

\* what is in hand is gone when it was handled
LEMMA HandledTraffic ==
    ASSUME TypeInv, RxHandle
    PROVE  (\A k : Only(k) => Quiet') /\ ~Quiet
<1>1. rx.pc = "handle" /\ rx'.pc # "handle" /\ UNCHANGED <<toServer, toClient>>
  BY DEF RxHandle, RxUnchanged, TypeInv, RxOK, RxRecord
<1> QED
  BY <1>1 DEF Only, Quiet, AtServer, AtClient, InHand, NoAnswer

\* a step of the receiver between two messages keeps what is on its way
LEMMA BetweenTraffic ==
    ASSUME rx.pc # "handle", rx'.pc # "handle", UNCHANGED <<toServer, toClient>>
    PROVE  (Quiet => Quiet') /\ (\A k : Only(k) => Only(k)')
BY DEF Quiet, Only, AtServer, AtClient, InHand, NoAnswer

\* the server answers, sends something else or closes the connection
LEMMA ServerTraffic ==
    ASSUME TypeInv, Server
    PROVE  (Quiet => Quiet') /\ (\A k \in Methods : Only(k) => Only(k)')
<1>r. rx' = rx
  BY DEF Server, ServerAnswer, ServerPush, ServerClose, EnvUnchanged
<1>t. toClient \in Seq(Message) /\ toServer \in Seq(Requests)
  BY DEF TypeInv, Queues
<1>1. CASE ServerAnswer
  <2> DEFINE request == Head(toServer)
  <2>1. toServer # <<>> /\ request = toServer[1] /\ toServer' = Tail(toServer)
    BY <1>1, <1>t DEF ServerAnswer
  <2>2. toClient' = toClient \/ toClient' = Append(toClient, request)
    BY <1>1 DEF ServerAnswer
  <2> HIDE DEF request
  <2>3. ASSUME NEW k \in Methods, AtServer(k)
        PROVE  Quiet' \/ AtClient(k)'
    <3>1. toServer' = <<>> /\ request.kind = k
      BY <1>t, <2>1, <2>3 DEF AtServer
    <3>2. CASE toClient' = toClient
      BY <1>r, <2>3, <3>1, <3>2 DEF AtServer, Quiet, NoAnswer
    <3>3. CASE toClient' = Append(toClient, request)
      <4>1. /\ Len(toClient) + 1 \in DOMAIN toClient'
            /\ toClient'[Len(toClient) + 1] = request
            /\ \A i \in DOMAIN toClient' \ {Len(toClient) + 1} :
                  i \in DOMAIN toClient /\ toClient'[i] = toClient[i]
        BY <1>t, <3>3
      <4>2. \A i \in DOMAIN toClient' \ {Len(toClient) + 1} : toClient'[i].kind \notin Methods
        BY <2>3, <4>1 DEF AtServer, NoAnswer
      <4> QED
        BY <1>r, <2>3, <3>1, <4>1, <4>2 DEF AtServer, AtClient
    <3> QED
      BY <2>2, <3>2, <3>3
  <2> QED
    BY <2>1, <2>3 DEF Only, Quiet, AtClient, InHand
<1>2. ASSUME NEW kind \in Pushed, ServerPush(kind)
      PROVE  (Quiet => Quiet') /\ (\A k \in Methods : Only(k) => Only(k)')
  <2> DEFINE msg == [kind |-> kind, share |-> None]
  <2>1. msg.kind \notin Methods
    BY DEF Pushed, Methods
  <2>2. toClient' = Append(toClient, msg) /\ toServer' = toServer
    BY <1>2 DEF ServerPush
  <2> HIDE DEF msg
  <2>3. \A i \in DOMAIN toClient' : \/ i \in DOMAIN toClient /\ toClient'[i] = toClient[i]
                                    \/ toClient'[i] = msg
    BY <1>t, <2>2
  <2>4. \A i \in DOMAIN toClient : i \in DOMAIN toClient' /\ toClient'[i] = toClient[i]
    BY <1>t, <2>2
  <2>5. NoAnswer(toClient) => NoAnswer(toClient')
    BY <2>1, <2>3 DEF NoAnswer
  <2>6. ASSUME NEW k \in Methods, AtClient(k)
        PROVE  AtClient(k)'
    <3>1. PICK j \in DOMAIN toClient :
             /\ toClient[j].kind = k
             /\ \A i \in DOMAIN toClient \ {j} : toClient[i].kind \notin Methods
      BY <2>6 DEF AtClient
    <3>2. j \in DOMAIN toClient' /\ toClient'[j].kind = k
      BY <2>4, <3>1
    <3>3. \A i \in DOMAIN toClient' \ {j} : toClient'[i].kind \notin Methods
      BY <2>1, <2>3, <3>1
    <3> QED
      BY <1>r, <2>2, <2>6, <3>2, <3>3 DEF AtClient
  <2> QED
    BY <1>r, <2>2, <2>5, <2>6 DEF Only, Quiet, AtServer, InHand
<1>3. CASE ServerClose
  <2>1. toServer' = <<>> /\ toClient' = toClient
    BY <1>3 DEF ServerClose
  <2> QED
    BY <1>r, <2>1 DEF Only, Quiet, AtServer, AtClient, InHand, NoAnswer
<1> QED
  BY <1>1, <1>2, <1>3 DEF Server

-----------------------------------------------------------------------------
(* Each step keeps the conversation in order.                              *)

\* the handshake goes on: the next request, or none
LEMMA HandshakeStep ==
    ASSUME InTime, TypeInv, Conversation, TxHandshake
    PROVE  Conversation'
<1>u. /\ tx.pc = "top" /\ ~MustExit /\ State' = State /\ rx' = rx /\ toClient' = toClient
      /\ ExtraNonce1' = ExtraNonce1 /\ refused' = refused /\ given' = given /\ conn' = conn
      /\ tx \in TxRecord
  BY DEF TxHandshake, TxUnchanged, TypeInv, TxOK
<1>1. ASSUME NEW k \in Handshake, Request(k), State \in Before
      PROVE  Expected' /\ Silence' /\ Awaited' /\ tx'.pc = "assign" /\ tx'.next = Sent(k)
  <2>1. Quiet
    BY <1>1, <1>u DEF Conversation, Silence
  <2>2. PICK ok \in BOOLEAN : /\ Call(k, None, ok)
                              /\ tx' = [tx EXCEPT !.pc = "assign", !.next = Sent(k)]
    BY <1>1 DEF Request
  <2>3. tx'.pc = "assign" /\ tx'.next = Sent(k)
    BY <1>u, <2>2 DEF TxRecord
  <2>4. Only(k)'
    <3> DEFINE request == [kind |-> k, share |-> None]
    <3>1. toServer' = toServer \/ toServer' = Append(toServer, request)
      BY <2>2 DEF Call
    <3>2. request.kind = k
      OBVIOUS
    <3> HIDE DEF request
    <3>3. CASE toServer' = toServer
      BY <1>u, <2>1, <3>3 DEF Only, Quiet, NoAnswer
    <3>4. CASE toServer' = Append(toServer, request)
      <4>1. Len(toServer') = 1 /\ toServer'[1] = request
        BY <2>1, <3>4 DEF Quiet
      <4> QED
        BY <1>u, <2>1, <3>2, <4>1 DEF Only, AtServer, Quiet, NoAnswer
    <3> QED
      BY <3>1, <3>3, <3>4
  <2>5. \A j \in Handshake : State # Sent(j)
    BY <1>1, SentDiffer DEF Before, Requested
  <2>6. Expected'
    BY <1>u, <2>3, <2>4, <2>5, SentDiffer DEF Expected
  <2>7. Silence'
    BY <2>3, SentDiffer DEF Silence, Requested
  <2>8. Awaited'
    BY <1>u, <2>1 DEF Awaited, Quiet
  <2> QED
    BY <2>3, <2>6, <2>7, <2>8
<1>2. ASSUME NEW state \in {"CONFIGURE_DONE", "XNSUB_DONE"}, Become(state), Quiet,
             State \in Before \/ state = "CONFIGURE_DONE"
      PROVE  Expected' /\ Silence' /\ Awaited' /\ tx'.pc = "assign" /\ tx'.next = state
  <2>1. tx'.pc = "assign" /\ tx'.next = state /\ toServer' = toServer
    BY <1>2, <1>u DEF Become, TxRecord
  <2>2. Quiet' /\ \A k : Only(k)'
    BY <1>u, <1>2, <2>1, SameTraffic DEF Only
  <2>3. Awaited'
    BY <1>u, <1>2 DEF Awaited, Quiet
  <2> QED
    BY <2>1, <2>2, <2>3 DEF Expected, Silence
<1>3. CASE State = "CONFIGURE_SENT" /\ ConfigureTimeout /\ Become("CONFIGURE_DONE")
  <2>1. Only("configure")
    BY <1>3, SentStates, SentDiffer DEF Conversation, Expected
  <2>2. ~ConfigureOutstanding
    BY <1>3 DEF ConfigureTimeout
  <2>3. Quiet
    <3>1. ~AtServer("configure")
      BY <2>2 DEF AtServer, ConfigureOutstanding, TypeInv, Queues
    <3>2. ~AtClient("configure") /\ ~InHand("configure")
      BY <2>2 DEF AtClient, InHand, ConfigureOutstanding
    <3> QED
      BY <2>1, <3>1, <3>2 DEF Only
  <2>4. Expected' /\ Silence' /\ Awaited' /\ tx'.pc = "assign" /\ tx'.next = "CONFIGURE_DONE"
    BY <1>2, <1>3, <2>3
  <2> QED
    BY <1>u, <2>4 DEF Conversation, Places, ThisNonce, Known, Work
<1>4. CASE /\ State = "SUBSCRIBE_DONE" /\ Become("XNSUB_DONE")
  <2>1. Quiet
    BY <1>4, <1>u DEF Conversation, Silence, Before
  <2>2. Expected' /\ Silence' /\ Awaited' /\ tx'.pc = "assign" /\ tx'.next = "XNSUB_DONE"
    BY <1>2, <1>4, <2>1 DEF Before
  <2> QED
    BY <1>u, <1>4, <2>2 DEF Conversation, Places, ThisNonce, Known, Work, Before
<1>5. ASSUME NEW k \in Handshake, Request(k), State \in Before,
             Sent(k) \in Known => State \in Known
      PROVE  Conversation'
  <2>1. Expected' /\ Silence' /\ Awaited' /\ tx'.pc = "assign" /\ tx'.next = Sent(k)
    BY <1>1, <1>5
  <2> QED
    BY <1>u, <1>5, <2>1 DEF Conversation, Places, ThisNonce, Work
<1>6. \/ State = "INIT" /\ Request("configure")
      \/ State = "CONFIGURE_DONE" /\ Request("subscribe")
      \/ State = "SUBSCRIBE_DONE" /\ Request("xnsub")
      \/ State = "XNSUB_DONE" /\ Request("authorize")
      => Conversation'
  BY <1>5, SentStates, SentDiffer DEF Before, Known
<1> QED
  BY <1>3, <1>4, <1>6 DEF TxHandshake

\* in STATE_GETJOB requests may pile up; State stays or is DISCONNECT
LEMMA WorkStep ==
    ASSUME TypeInv, Conversation, tx.pc \in Work, tx'.pc \in Work \cup {"top"},
           UNCHANGED <<State, rx, ExtraNonce1, refused>>, given' \subseteq given \cup {ExtraNonce1}
    PROVE  Conversation'
<1>1. State \in {"GETJOB", "DISCONNECT"} /\ (refused \/ ExtraNonce1 = "this")
  BY DEF Conversation, Places, ThisNonce
<1>2. tx.pc \notin {"top", "over"} /\ tx'.pc \notin {"assign", "dial", "panic"}
  BY DEF Work
<1>3. \A k \in Handshake : State # Sent(k)
  BY <1>1, SentDiffer DEF Requested
<1>4. Expected'
  BY <1>2, <1>3 DEF Expected
<1>5. Silence'
  BY <1>1, <1>2 DEF Silence, Before
<1>6. Awaited'
  BY <1>2 DEF Conversation, Awaited
<1>7. Places' /\ ThisNonce'
  BY <1>1, <1>2 DEF Conversation, Places, ThisNonce
<1> QED
  BY <1>4, <1>5, <1>6, <1>7 DEF Conversation

\* every step of Run() keeps the conversation in order
LEMMA TxStep ==
    ASSUME InTime, TypeInv, Conversation, Tx
    PROVE  Conversation'
<1>t. tx \in TxRecord
  BY DEF TypeInv, TxOK
<1>u. TxUnchanged
  BY DEF Tx, TxDial, TxExit, TxHandshake, TxAssign, TxDisconnect, TxMining, TxResubmit,
         RemoveStale, TxResult, TxAdd, TxGetJob
<1>1. CASE TxDial
  <2>1. /\ tx.pc = "dial" /\ State = "INIT" /\ Quiet
        /\ toClient = <<>> /\ conn = "none" /\ rx.pc = "read"
    BY <1>1 DEF TxDial, Conversation, Places
  <2>2. \/ tx'.pc \in {"top", "over"}
        \/ tx' = tx /\ conn' = conn
    BY <1>1, <1>t DEF TxDial, TxRecord
  <2>3. UNCHANGED <<State, toServer, toClient, rx, ExtraNonce1, refused, given>>
    BY <1>1, <1>u DEF TxDial, TxUnchanged
  <2>4. Quiet'
    BY <2>1, <2>3, SameTraffic
  <2>5. Expected' /\ Silence' /\ Awaited'
    BY <2>1, <2>2, <2>3, <2>4, SentDiffer DEF Expected, Silence, Awaited, Only
  <2>6. Places' /\ ThisNonce'
    BY <2>1, <2>2, <2>3, <2>4 DEF Conversation, Places, ThisNonce, Known, Work
  <2> QED
    BY <2>5, <2>6 DEF Conversation
<1>2. CASE TxExit
  <2>1. tx.pc = "top" /\ tx'.pc = "over" /\ bExit'
    BY <1>2, <1>t DEF TxExit, TxRecord
  <2>2. UNCHANGED <<State, toServer, toClient, rx, ExtraNonce1, refused, given>>
    BY <1>2, <1>u DEF TxExit, TxUnchanged
  <2>3. \A k : Only(k) => Only(k)'
    BY <2>2, SameTraffic
  <2> QED
    BY <2>1, <2>2, <2>3
       DEF Conversation, Expected, Silence, Awaited, Places, ThisNonce, Work
<1>3. CASE TxHandshake
  BY <1>3, HandshakeStep
<1>4. CASE TxAssign
  <2>1. tx.pc = "assign" /\ tx'.pc = "top" /\ State' = tx.next
    BY <1>4, <1>t DEF TxAssign, TxRecord
  <2>2. UNCHANGED <<toServer, toClient, rx, ExtraNonce1, refused, given>>
    BY <1>4, <1>u DEF TxAssign, TxUnchanged
  <2>3. (Quiet => Quiet') /\ \A k : Only(k) => Only(k)'
    BY <2>2, SameTraffic
  <2>4. tx.next \in Requested \cup {"CONFIGURE_DONE", "XNSUB_DONE"}
    BY <2>1 DEF TypeInv, TxOK
  <2>5. Expected'
    BY <2>1, <2>3 DEF Conversation, Expected
  <2>6. Silence'
    BY <2>1, <2>3, <2>4 DEF Conversation, Silence, Before, Requested
  <2>7. Awaited'
    BY <2>1, <2>2 DEF Conversation, Awaited
  <2>8. Places' /\ ThisNonce'
    BY <2>1, <2>2 DEF Conversation, Places, ThisNonce, Work
  <2> QED
    BY <2>5, <2>6, <2>7, <2>8 DEF Conversation
<1>5. CASE TxDisconnect
  <2>1. tx.pc = "top" /\ State' = "DISCONNECT" /\ bExit'
    BY <1>5 DEF TxDisconnect
  <2>2. UNCHANGED <<tx, toServer, toClient, rx, ExtraNonce1, refused, given>>
    BY <1>5, <1>u DEF TxDisconnect, TxUnchanged
  <2>3. \A k : Only(k) => Only(k)'
    BY <2>2, SameTraffic
  <2>4. Expected' /\ Silence'
    BY <2>1, <2>2, SentDiffer DEF Expected, Silence, Requested, MustExit
  <2>5. Awaited' /\ Places' /\ ThisNonce'
    BY <2>1, <2>2, <2>3 DEF Conversation, Awaited, Places, ThisNonce, Known, Work
  <2> QED
    BY <2>4, <2>5 DEF Conversation
<1>6. CASE TxMining
  <2>1. tx.pc = "top" /\ tx'.pc = "scan" /\ State = "GETJOB"
    BY <1>6, <1>t DEF TxMining, Pass, TxRecord
  <2>2. UNCHANGED <<State, toServer, toClient, rx, ExtraNonce1, refused, given>>
    BY <1>6, <1>u DEF TxMining, TxUnchanged
  <2>3. \A k \in Handshake : State # Sent(k)
    BY <2>1, SentDiffer DEF Requested
  <2>4. Expected' /\ Silence' /\ Awaited'
    BY <2>1, <2>2, <2>3 DEF Conversation, Expected, Silence, Awaited
  <2>5. Places' /\ ThisNonce'
    BY <2>1, <2>2 DEF Conversation, Places, ThisNonce, Known, Work
  <2> QED
    BY <2>4, <2>5 DEF Conversation
<1>7. CASE TxResubmit \/ RemoveStale \/ TxResult \/ TxAdd \/ TxGetJob
  <2>1. tx.pc \in Work /\ tx'.pc \in Work \cup {"top"}
    <3>1. CASE TxResubmit
      BY <3>1, <1>t DEF TxResubmit, Submit, TxRecord, Work
    <3>2. CASE RemoveStale
      BY <3>2, <1>t DEF RemoveStale, Pass, TxRecord, Work
    <3>3. CASE TxResult
      BY <3>3, <1>t DEF TxResult, Submit, TxRecord, Work
    <3>4. CASE TxAdd
      BY <3>4 DEF TxAdd, TypeInv, TxOK, Work
    <3>5. CASE TxGetJob
      BY <3>5, <1>t DEF TxGetJob, Pass, TxRecord, Work
    <3> QED
      BY <1>7, <3>1, <3>2, <3>3, <3>4, <3>5
  <2>2. given' \subseteq given \cup {ExtraNonce1} /\ State' = State
    BY <1>7 DEF TxResubmit, RemoveStale, TxResult, TxAdd, TxGetJob
  <2> QED
    BY <1>u, <2>1, <2>2, WorkStep DEF TxUnchanged
<1> QED
  BY <1>1, <1>2, <1>3, <1>4, <1>5, <1>6, <1>7 DEF Tx

\* every step of the receiving goroutine keeps the conversation in order
LEMMA RxStep ==
    ASSUME InTime, TypeInv, Conversation, Rx
    PROVE  Conversation'
<1>t. rx \in RxRecord /\ tx \in TxRecord
  BY DEF TypeInv, RxOK, TxOK
<1>u. UNCHANGED <<err, bExit, bPoolExit, toServer, given>>
  BY DEF Rx, RxRead, RxReconnect, RxHandle, RxEnd, RxUnchanged
<1>m. MustExit' = MustExit
  BY <1>u DEF MustExit
<1>1. CASE RxRead
  <2>1. (Quiet => Quiet') /\ \A k \in Methods : Only(k) => Only(k)'
    BY <1>1, ReadTraffic
  <2>2. /\ UNCHANGED <<State, conn, tx, refused>> /\ toClient # <<>>
        /\ ExtraNonce1' \in {ExtraNonce1, "this"}
    BY <1>1 DEF RxRead
  <2>3. Expected' /\ Silence'
    BY <1>m, <2>1, <2>2, SentDiffer DEF Conversation, Expected, Silence
  <2>4. rx'.pc = "handle" => rx'.seen = State /\ rx'.msg.kind \in Methods
    BY <1>1, <1>t DEF RxRead, RxRecord
  <2>5. ASSUME NEW k \in Handshake, rx'.pc = "handle", rx'.seen = Sent(k)
        PROVE  /\ rx'.msg.kind = k
               /\ tx'.pc \in {"top", "over"} /\ Only(k)'
               /\ State' = Sent(k)
    <3>1. State = Sent(k) /\ k \in Methods
      BY <2>4, <2>5, SentDiffer
    <3>2. Only(k)' /\ ~Quiet'
      BY <2>1, <2>5, <3>1 DEF Conversation, Expected, Quiet
    <3>3. rx'.msg.kind = k
      BY <2>5, <3>2 DEF Only, AtServer, AtClient, InHand
    <3>4. tx.pc # "assign"
      <4>1. State \notin Before \cup {"DISCONNECT"}
        BY <3>1, SentDiffer DEF Before, Requested
      <4> QED
        BY <2>1, <3>2, <4>1 DEF Conversation, Places, Silence
    <3>5. tx.pc \notin Work \cup {"dial", "panic"}
      BY <3>1, SentDiffer DEF Conversation, Places, Requested
    <3> QED
      BY <1>t, <2>2, <3>1, <3>2, <3>3, <3>4, <3>5 DEF TxRecord, Work
  <2>6. Awaited'
    BY <2>5 DEF Awaited
  <2>7. Places'
    BY <2>2 DEF Conversation, Places
  <2>8. ThisNonce'
    BY <1>u, <2>2, <2>4 DEF Conversation, ThisNonce, Known
  <2> QED
    BY <2>3, <2>6, <2>7, <2>8 DEF Conversation
<1>2. CASE RxReconnect
  <2>1. rx.pc = "reconnect" /\ rx'.pc = "read" /\ State' \in {State, "DISCONNECT"}
    BY <1>2, <1>t DEF RxReconnect, RxRecord
  <2>2. UNCHANGED <<tx, toClient, conn, ExtraNonce1, refused>>
    BY <1>2 DEF RxReconnect
  <2>3. (Quiet => Quiet') /\ \A k : Only(k) => Only(k)'
    BY <1>u, <2>1, <2>2, BetweenTraffic
  <2>4. Expected' /\ Silence' /\ Awaited'
    BY <1>m, <2>1, <2>2, <2>3, SentDiffer
       DEF Conversation, Expected, Silence, Awaited, Before, Requested
  <2>5. Places' /\ ThisNonce'
    BY <1>u, <2>1, <2>2, <2>3 DEF Conversation, Places, ThisNonce, Known
  <2> QED
    BY <2>4, <2>5 DEF Conversation
<1>3. CASE RxHandle
  <2>1. \A k : Only(k) => Quiet' /\ Only(k)'
    BY <1>3, HandledTraffic DEF Only
  <2>2. rx.pc = "handle" /\ UNCHANGED <<conn, toClient>>
    BY <1>3 DEF RxHandle
  <2>3. ~Panics
    BY <2>2, SentStates, SentDiffer DEF Panics, Conversation, Awaited
  <2>4. rx'.pc = "read" /\ tx' = tx
    BY <1>3, <1>t, <2>3 DEF RxHandle, RxRecord
  <2>5. CASE rx.seen \in Requested
    <3>1. PICK k \in Handshake : rx.seen = Sent(k)
      BY <2>5, SentDiffer
    <3>2. /\ rx.msg.kind = k /\ tx.pc \in {"top", "over"} /\ Only(k)
      BY <2>2, <3>1 DEF Conversation, Awaited
    <3>3. Quiet'
      BY <2>1, <3>2
    <3>4. /\ rx.seen = "CONFIGURE_SENT" => State' = "CONFIGURE_DONE"
          /\ rx.seen = "SUBSCRIBE_SENT" => /\ State' = "SUBSCRIBE_DONE"
                                           /\ refused' \/ ExtraNonce1' = "this"
          /\ rx.seen = "XNSUB_SENT" => /\ State' = "XNSUB_DONE"
                                       /\ UNCHANGED <<ExtraNonce1, refused>>
          /\ rx.seen = "AUTHORIZE_SENT" => /\ State' = "GETJOB"
                                           /\ UNCHANGED <<ExtraNonce1, refused>>
          /\ refused => refused'
      <4>1. rx.seen = "SUBSCRIBE_SENT" => rx.msg.kind = "subscribe"
        BY <3>1, <3>2, SentStates, SentDiffer
      <4> QED
        BY <1>3, <4>1 DEF RxHandle, SubscribeResult
    <3>5. State' \notin Requested
      BY <2>5, <3>4 DEF Requested
    <3>6. Expected' /\ Silence' /\ Awaited'
      BY <2>4, <3>2, <3>3, <3>5, SentDiffer DEF Expected, Silence, Awaited
    <3>7. Places' /\ ThisNonce'
      BY <1>u, <2>2, <2>4, <2>5, <3>2, <3>4
         DEF Conversation, Places, ThisNonce, Known, Work, Requested
    <3> QED
      BY <3>6, <3>7 DEF Conversation
  <2>6. CASE rx.seen \notin Requested
    <3>1. UNCHANGED <<State, ExtraNonce1, refused>>
      BY <1>3, <2>6 DEF RxHandle, Requested
    <3>2. ~Quiet
      BY <2>2 DEF Quiet
    <3>3. Expected' /\ Silence' /\ Awaited'
      BY <1>m, <2>1, <2>4, <3>1, <3>2 DEF Conversation, Expected, Silence, Awaited
    <3>4. Places' /\ ThisNonce'
      BY <1>u, <2>2, <2>4, <3>1 DEF Conversation, Places, ThisNonce
    <3> QED
      BY <3>3, <3>4 DEF Conversation
  <2> QED
    BY <2>5, <2>6
<1>4. CASE RxEnd
  <2>1. rx.pc = "read" /\ rx'.pc = "ended" /\ conn # "none"
    BY <1>4, <1>t DEF RxEnd, RxRecord
  <2>2. UNCHANGED <<State, conn, toClient, ExtraNonce1, refused, tx>>
    BY <1>4 DEF RxEnd
  <2>3. (Quiet => Quiet') /\ \A k : Only(k) => Only(k)'
    BY <1>u, <2>1, <2>2, BetweenTraffic
  <2>4. Expected' /\ Silence' /\ Awaited'
    BY <1>m, <2>1, <2>2, <2>3 DEF Conversation, Expected, Silence, Awaited
  <2>5. Places' /\ ThisNonce'
    BY <1>u, <2>1, <2>2, <2>3 DEF Conversation, Places, ThisNonce
  <2> QED
    BY <2>4, <2>5 DEF Conversation
<1> QED
  BY <1>1, <1>2, <1>3, <1>4 DEF Rx

\* every step of the environment keeps the conversation in order
LEMMA EnvStep ==
    ASSUME TypeInv, Conversation, Server \/ PoolStop \/ Idle \/ UNCHANGED vars
    PROVE  Conversation'
<1>1. UNCHANGED <<State, err, tx, rx, ExtraNonce1, refused, given>>
  BY DEF Server, ServerAnswer, ServerPush, ServerClose, PoolStop, Idle, EnvUnchanged, vars
<1>2. (bExit => bExit') /\ (MustExit => MustExit')
  <2>1. CASE PoolStop
    BY <1>1, <2>1 DEF PoolStop, MustExit
  <2>2. CASE Server \/ Idle \/ UNCHANGED vars
    <3>1. UNCHANGED <<bExit, bPoolExit>>
      BY <2>2 DEF Server, ServerAnswer, ServerPush, ServerClose, Idle, vars
    <3> QED
      BY <1>1, <3>1 DEF MustExit
  <2> QED
    BY <2>1, <2>2
<1>3. (Quiet => Quiet') /\ \A k \in Methods : Only(k) => Only(k)'
  <2>1. CASE PoolStop \/ Idle \/ UNCHANGED vars
    BY <1>1, <2>1, SameTraffic DEF PoolStop, Idle, vars
  <2> QED
    BY <2>1, ServerTraffic
<1>4. tx.pc = "dial" => UNCHANGED <<toServer, toClient, conn>>
  BY DEF Conversation, Places, Server, ServerAnswer, ServerPush, ServerClose, PoolStop, Idle, vars
<1>5. Expected' /\ Silence' /\ Awaited'
  BY <1>1, <1>2, <1>3, SentDiffer DEF Conversation, Expected, Silence, Awaited
<1>6. Places' /\ ThisNonce'
  BY <1>1, <1>3, <1>4 DEF Conversation, Places, ThisNonce
<1> QED
  BY <1>5, <1>6 DEF Conversation

\* the conversation begins in order
LEMMA InitConversation == Init => Conversation
<1> SUFFICES ASSUME Init
             PROVE  Conversation
  OBVIOUS
<1>1. State = "INIT" /\ given = {} /\ rx.pc = "read" /\ toServer = <<>> /\ toClient = <<>>
  BY DEF Init
<1>2. tx.pc = "top" \/ (tx.pc = "dial" /\ conn = "none")
  BY DEF Init
<1>3. Quiet
  <2>1. DOMAIN toClient = {}
    <3>1. DOMAIN <<>> = 1 .. Len(<<>>) /\ Len(<<>>) = 0
      OBVIOUS
    <3> QED
      BY <1>1, <3>1
  <2> QED
    BY <1>1, <2>1 DEF Quiet, NoAnswer
<1>4. Expected /\ Silence /\ Awaited
  BY <1>1, <1>2, <1>3 DEF Expected, Silence, Awaited, Only
<1>5. Places /\ ThisNonce
  BY <1>1, <1>2, <1>3 DEF Places, ThisNonce, Known, Work
<1> QED
  BY <1>4, <1>5 DEF Conversation

\* the invariant is inductive
LEMMA NextIInv == IInv /\ [Next]_vars => IInv'
<1>1. ASSUME TypeInv, [Next]_vars, InTime, Conversation
      PROVE  Conversation'
  BY <1>1, TxStep, RxStep, EnvStep DEF Next
<1> QED
  BY <1>1, NextType DEF IInv

\* If answers to configure are not late, every answer is taken for what it
\* answers: for any number of shares, retries and messages of the server.
THEOREM AnswersTaken == Spec => []AnswersMatch
<1>1. Init => IInv
  BY InitType, InitConversation DEF IInv
<1>2. IInv => AnswersMatch
  BY DEF IInv, Conversation, Awaited, AnswersMatch, Handshake
<1> QED
  BY <1>1, <1>2, NextIInv, PTL DEF Spec

\* Then, unless the server answered subscribe without an extranonce, every job
\* given to the devices has this connection's, also when the session was begun
\* with that of the last one.
THEOREM JobsAreThisConnections == Spec => []JobsOfThisConnection
<1>1. Init => IInv
  BY InitType, InitConversation DEF IInv
<1>2. IInv => JobsOfThisConnection
  BY DEF IInv, Conversation, ThisNonce, JobsOfThisConnection
<1> QED
  BY <1>1, <1>2, NextIInv, PTL DEF Spec

-----------------------------------------------------------------------------
(* The refinement of Session, its safety part.                             *)

\* Run() gives a pool up as unreachable only instead of connecting to it, and
\* a session that is over has no open connection.
Outcome ==
    /\ err = "Unreachable" => tx.pc = "over"
    /\ tx.pc = "dial" => conn = "none"
    /\ tx.pc = "over" => conn \in {"none", "closed"}

\* where Run() goes while the session lasts
LEMMA TxPlaces ==
    ASSUME TypeInv, Tx, ~TxDial, ~TxExit
    PROVE  /\ tx.pc \notin {"dial", "over", "panic"} /\ tx'.pc \notin {"dial", "over", "panic"}
           /\ UNCHANGED <<conn, bPoolExit>>
           /\ err' \in {err, "nil", "tx", "NoJob"}
<1>t. tx \in TxRecord
  BY DEF TypeInv, TxOK
<1>u. TxUnchanged
  BY DEF Tx, TxDial, TxExit, TxHandshake, TxAssign, TxDisconnect, TxMining, TxResubmit,
         RemoveStale, TxResult, TxAdd, TxGetJob
<1>b. bPoolExit' = bPoolExit
  BY <1>u DEF TxUnchanged
<1>1. CASE TxHandshake
  <2>1. PICK next : tx' = [tx EXCEPT !.pc = "assign", !.next = next]
    BY <1>1 DEF TxHandshake, Request, Become
  <2>2. err' \in {err, "nil", "tx"} /\ conn' = conn /\ tx.pc = "top"
    BY <1>1 DEF TxHandshake, Request, Become
  <2> QED
    BY <1>b, <1>t, <2>1, <2>2 DEF TxRecord
<1>2. CASE TxAssign \/ TxDisconnect \/ TxMining \/ TxGetJob \/ RemoveStale
  BY <1>2, <1>b, <1>t DEF TxAssign, TxDisconnect, TxMining, TxGetJob, RemoveStale, Pass, TxRecord
<1>3. CASE TxResubmit \/ TxResult
  BY <1>3, <1>b, <1>t DEF TxResubmit, TxResult, Submit, TxRecord
<1>4. CASE TxAdd
  <2>1. tx.next \in {"stale", "results"}
    BY <1>4 DEF TxAdd, TypeInv, TxOK
  <2> QED
    BY <1>4, <1>b, <2>1 DEF TxAdd
<1> QED
  BY <1>1, <1>2, <1>3, <1>4 DEF Tx

\* without a late answer the receiving goroutine leaves Run() alone
LEMMA RxLeaves ==
    ASSUME InTime, IInv, Rx
    PROVE  UNCHANGED <<tx, err, conn, bPoolExit>>
<1>1. ~(RxHandle /\ Panics)
  BY SentStates, SentDiffer DEF RxHandle, Panics, IInv, Conversation, Awaited
<1>2. UNCHANGED <<err, bPoolExit>>
  BY DEF Rx, RxRead, RxReconnect, RxHandle, RxEnd, RxUnchanged
<1>3. UNCHANGED <<tx, conn>>
  BY <1>1 DEF Rx, RxRead, RxReconnect, RxHandle, RxEnd
<1> QED
  BY <1>2, <1>3

\* every step but those of Dial, Return, Stop and Close stutters, and the
\* outcome is kept
LEMMA SessionStep ==
    ASSUME InTime, IInv, Outcome, [Next]_vars
    PROVE  Outcome' /\ [Sess!Next]_(Sess!vars)
<1>t. tx \in TxRecord /\ TypeInv
  BY DEF IInv, TypeInv, TxOK
<1>1. CASE TxDial
  <2>1. tx.pc = "dial" /\ conn = "none" /\ err # "Unreachable" /\ bPoolExit' = bPoolExit
    BY <1>1 DEF TxDial, TxUnchanged, Outcome
  <2>2. \/ err' = "Unreachable" /\ tx'.pc = "over" /\ conn' = conn
        \/ err' = err /\ conn' = "open" /\ tx'.pc = "top"
        \/ UNCHANGED <<err, conn, tx>>
    BY <1>1, <1>t DEF TxDial, TxRecord
  <2> QED
    BY <2>1, <2>2 DEF Outcome, Sess!Next, Sess!Dial, Sess!vars
<1>2. CASE TxExit
  <2>1. tx.pc = "top" /\ tx'.pc = "over" /\ conn' = "closed" /\ UNCHANGED <<err, bPoolExit>>
    BY <1>2, <1>t DEF TxExit, TxUnchanged, TxRecord
  <2>2. err # "Unreachable"
    BY <2>1 DEF Outcome
  <2> QED
    BY <2>1, <2>2 DEF Outcome, Sess!Next, Sess!Return
<1>3. CASE Tx /\ ~TxDial /\ ~TxExit
  BY <1>t, <1>3, TxPlaces DEF Outcome, Sess!vars
<1>4. CASE Rx
  BY <1>4, RxLeaves DEF Outcome, Sess!vars
<1>5. CASE ServerClose
  <2>1. conn = "open" /\ conn' = "eof" /\ UNCHANGED <<tx, err, bPoolExit>>
    BY <1>5 DEF ServerClose, EnvUnchanged
  <2>2. tx.pc \notin {"dial", "over"}
    BY <2>1 DEF Outcome
  <2> QED
    BY <2>1, <2>2 DEF Outcome, Sess!Next, Sess!Close
<1>6. CASE PoolStop
  BY <1>6 DEF PoolStop, EnvUnchanged, Outcome, Sess!Next, Sess!Stop
<1>7. CASE ServerAnswer \/ (\E kind \in Pushed : ServerPush(kind)) \/ Idle \/ UNCHANGED vars
  <2>1. UNCHANGED <<tx, err, conn, bPoolExit>>
    BY <1>7 DEF ServerAnswer, ServerPush, Idle, EnvUnchanged, vars
  <2> QED
    BY <2>1 DEF Outcome, Sess!vars
<1> QED
  BY <1>1, <1>2, <1>3, <1>4, <1>5, <1>6, <1>7 DEF Next, Server

\* If answers to configure are not late, a session does only what the pool
\* manager relies on: it dials, connects or gives up as unreachable, and what
\* it returns once it was connected is never ErrUnreachable.
THEOREM SessionSteps == InTime /\ Spec => Sess!Init /\ [][Sess!Next]_(Sess!vars)
<1> SUFFICES ASSUME InTime
             PROVE  Spec => Sess!Init /\ [][Sess!Next]_(Sess!vars)
  OBVIOUS
<1>1. Init => IInv /\ Outcome /\ Sess!Init
  <2>1. Init => Outcome /\ Sess!Init
    BY DEF Init, Outcome, Sess!Init
  <2> QED
    BY <2>1, InitType, InitConversation DEF IInv
<1>2. IInv /\ Outcome /\ [Next]_vars => IInv' /\ Outcome' /\ [Sess!Next]_(Sess!vars)
  BY NextIInv, SessionStep
<1> QED
  BY <1>1, <1>2, PTL DEF Spec

-----------------------------------------------------------------------------
(* A share is counted at most once: for any number of shares and whatever  *)
(* the server does, late answers to configure included.  There is never    *)
(* more than one copy of a share on its way, as a request or as its        *)
(* answer, because it is sent again only if it was not sent before.        *)

\* the copies of a share: requests, answers, and the answer being handled
Asked(s)    == {i \in DOMAIN toServer : toServer[i].share = s}
Answered(s) == {i \in DOMAIN toClient : toClient[i].share = s}
Held(s)     == rx.pc = "handle" /\ rx.msg.share = s

NoCopy(s)  == Asked(s) = {} /\ Answered(s) = {} /\ ~Held(s)
OneCopy(s) ==
    /\ \A i, j \in Asked(s) : i = j
    /\ \A i, j \in Answered(s) : i = j
    /\ Asked(s) = {} \/ Answered(s) = {}
    /\ Held(s) => Asked(s) = {} /\ Answered(s) = {}

\* no attempt to send the share has succeeded
Unsent(s) ==
    \/ s \in fresh
    \/ s \in DOMAIN shmap /\ ~shmap[s] /\ ~(tx.share = s /\ tx.ok)
    \/ tx.share = s /\ ~tx.ok

ShareOK(s) ==
    /\ OneCopy(s)
    /\ counted[s] \in {0, 1}
    /\ counted[s] = 1 => NoCopy(s)
    /\ Unsent(s) => NoCopy(s) /\ counted[s] = 0
    /\ s \in fresh => s \notin DOMAIN shmap /\ tx.share # s
SharesOK == \A s \in Shares : ShareOK(s)

-----------------------------------------------------------------------------
(* What steps do to the copies.                                            *)

\* nothing changes for a share whose copies, entry and count do not
LEMMA ShareSame ==
    ASSUME NEW s \in Shares, ShareOK(s),
           UNCHANGED <<toServer, toClient, rx, counted, shmap, fresh>>,
           tx'.share = tx.share /\ tx'.ok = tx.ok
    PROVE  ShareOK(s)'
BY DEF ShareOK, OneCopy, NoCopy, Asked, Answered, Held, Unsent

\* fewer copies are as good
LEMMA FewerCopies ==
    ASSUME NEW s \in Shares, ShareOK(s), UNCHANGED <<counted, shmap, fresh>>,
           tx'.share = tx.share /\ tx'.ok = tx.ok,
           OneCopy(s) => OneCopy(s)', NoCopy(s) => NoCopy(s)'
    PROVE  ShareOK(s)'
BY DEF ShareOK, Unsent

\* a request without a share is no copy
LEMMA OtherRequest ==
    ASSUME TypeInv, NEW s \in Shares, NEW kind \in Methods, NEW share \in Shares \cup {None},
           share # s, NEW ok, Call(kind, share, ok)
    PROVE  Asked(s)' = Asked(s)
<1> DEFINE request == [kind |-> kind, share |-> share]
<1>1. toServer' = toServer \/ toServer' = Append(toServer, request)
  BY DEF Call
<1>2. request.share # s /\ toServer \in Seq(Requests)
  BY DEF TypeInv, Queues
<1> HIDE DEF request
<1>3. CASE toServer' = Append(toServer, request)
  <2>1. /\ DOMAIN toServer' = DOMAIN toServer \cup {Len(toServer) + 1}
        /\ \A i \in DOMAIN toServer : toServer'[i] = toServer[i]
        /\ toServer'[Len(toServer) + 1] = request
    BY <1>2, <1>3
  <2> QED
    BY <1>2, <2>1 DEF Asked
<1> QED
  BY <1>1, <1>3 DEF Asked

\* a request for a share without copies is the only one
LEMMA FirstCopy ==
    ASSUME TypeInv, NEW s \in Shares, NoCopy(s), NEW ok, Call("submit", s, ok),
           UNCHANGED <<toClient, rx>>
    PROVE  OneCopy(s)' /\ (~ok => NoCopy(s)')
<1> DEFINE request == [kind |-> "submit", share |-> s]
<1>1. toServer' = toServer \/ (ok /\ toServer' = Append(toServer, request))
  BY DEF Call
<1>2. toServer \in Seq(Requests)
  BY DEF TypeInv, Queues
<1> HIDE DEF request
<1>3. CASE toServer' = toServer
  BY <1>3 DEF NoCopy, OneCopy, Asked, Answered, Held
<1>4. CASE ok /\ toServer' = Append(toServer, request)
  <2>1. /\ DOMAIN toServer' = DOMAIN toServer \cup {Len(toServer) + 1}
        /\ \A i \in DOMAIN toServer : toServer'[i] = toServer[i]
    BY <1>2, <1>4
  <2>2. \A i \in Asked(s)' : i = Len(toServer) + 1
    BY <2>1 DEF NoCopy, Asked
  <2> QED
    BY <1>4, <2>2 DEF NoCopy, OneCopy, Answered, Held
<1> QED
  BY <1>1, <1>3, <1>4

\* a share that was not sent is submitted
LEMMA SubmitStep ==
    ASSUME TypeInv, NEW s \in Shares, NEW share \in Shares, NEW then, SharesOK,
           Submit(share, then), tx.share = None, Unsent(share),
           UNCHANGED <<toClient, rx, counted, shmap>>, fresh' = fresh \ {share}
    PROVE  ShareOK(s)'
<1>1. PICK ok \in BOOLEAN : /\ Call("submit", share, ok)
                            /\ tx' = [pc |-> "add", next |-> then, share |-> share, ok |-> ok]
  BY DEF Submit
<1>2. tx'.share = share /\ tx'.ok = ok
  BY <1>1
<1>3. ShareOK(s) /\ ShareOK(share)
  BY DEF SharesOK
<1>4. CASE s = share
  <2>1. NoCopy(s) /\ counted[s] = 0
    BY <1>3, <1>4 DEF ShareOK
  <2>2. OneCopy(s)' /\ (~ok => NoCopy(s)')
    BY <1>1, <1>4, <2>1, FirstCopy
  <2> QED
    BY <1>2, <1>3, <1>4, <2>1, <2>2 DEF ShareOK, Unsent
<1>5. CASE s # share
  <2>1. Asked(s)' = Asked(s)
    BY <1>1, <1>5, OtherRequest DEF Methods
  <2>2. (OneCopy(s) => OneCopy(s)') /\ (NoCopy(s) => NoCopy(s)')
    BY <2>1 DEF OneCopy, NoCopy, Answered, Held
  <2>3. Unsent(s)' => Unsent(s)
    BY <1>2, <1>5, NoneAssumption DEF Unsent
  <2> QED
    BY <1>2, <1>3, <1>5, <2>2, <2>3 DEF ShareOK
<1> QED
  BY <1>4, <1>5

\* except while it submits a share Run() has none in hand
NoneInHand == tx.pc # "add" /\ tx.pc # "panic" => tx.share = None
CountInv   == TypeInv /\ NoneInHand /\ SharesOK

-----------------------------------------------------------------------------
(* Each step.                                                              *)

\* Run() does not touch shares and copies in most of its steps
LEMMA TxOther ==
    ASSUME CountInv, TxDial \/ TxExit \/ TxAssign \/ TxDisconnect \/ TxMining \/ TxGetJob
    PROVE  SharesOK' /\ NoneInHand'
<1>1. UNCHANGED <<toServer, toClient, rx, counted, shmap, fresh>>
  BY DEF TxDial, TxExit, TxAssign, TxDisconnect, TxMining, TxGetJob, TxUnchanged
<1>2. tx'.share = tx.share /\ tx'.ok = tx.ok /\ tx.pc # "add" /\ tx.pc # "panic"
  BY DEF TxDial, TxExit, TxAssign, TxDisconnect, TxMining, TxGetJob, Pass, CountInv, TypeInv,
         TxOK, TxRecord
<1> QED
  BY <1>1, <1>2, ShareSame DEF CountInv, SharesOK, NoneInHand

\* the requests of the handshake carry no share
LEMMA TxRequests ==
    ASSUME CountInv, TxHandshake
    PROVE  SharesOK' /\ NoneInHand'
<1>1. UNCHANGED <<toClient, rx, counted, shmap, fresh>>
  BY DEF TxHandshake, TxUnchanged
<1>2. tx'.share = tx.share /\ tx'.ok = tx.ok /\ tx.pc = "top"
  BY DEF TxHandshake, Request, Become, CountInv, TypeInv, TxOK, TxRecord
<1>3. toServer' = toServer \/ \E kind \in Methods, ok \in BOOLEAN : Call(kind, None, ok)
  BY DEF TxHandshake, Request, Become, Methods
<1>4. ASSUME NEW s \in Shares
      PROVE  ShareOK(s)'
  <2>1. Asked(s)' = Asked(s)
    BY <1>3, OtherRequest, NoneAssumption DEF Asked, CountInv
  <2> QED
    BY <1>1, <1>2, <2>1, FewerCopies
       DEF CountInv, SharesOK, OneCopy, NoCopy, Answered, Held
<1> QED
  BY <1>2, <1>4 DEF CountInv, SharesOK, NoneInHand

\* a share whose submission failed is submitted again, or a new one is
LEMMA TxSubmits ==
    ASSUME CountInv, TxResubmit \/ TxResult
    PROVE  SharesOK' /\ NoneInHand'
<1>1. UNCHANGED <<toClient, rx, counted, shmap>>
  BY DEF TxResubmit, TxResult, TxUnchanged
<1>2. tx.pc \in {"scan", "results"} /\ tx.share = None
  BY DEF TxResubmit, TxResult, CountInv, NoneInHand
<1>3. CASE /\ UNCHANGED <<toServer, fresh>>
            /\ \E pc \in {"stale", "getjob"} : tx' = [tx EXCEPT !.pc = pc]
  <2>1. tx'.share = tx.share /\ tx'.ok = tx.ok
    BY <1>3 DEF CountInv, TypeInv, TxOK, TxRecord
  <2> QED
    BY <1>1, <1>2, <1>3, <2>1, ShareSame DEF CountInv, SharesOK, NoneInHand
<1>4. ASSUME NEW share \in Scan4Resubmit, Submit(share, "stale"), UNCHANGED fresh
      PROVE  SharesOK' /\ NoneInHand'
  <2>1. share \in Shares /\ Unsent(share) /\ share \notin fresh
    BY <1>2, <1>4, NoneAssumption
       DEF Scan4Resubmit, CountInv, TypeInv, Map, Unsent, SharesOK, ShareOK
  <2>2. fresh' = fresh \ {share}
    BY <1>4, <2>1
  <2>3. ASSUME NEW s \in Shares
        PROVE  ShareOK(s)'
    BY <1>1, <1>2, <1>4, <2>1, <2>2, SubmitStep DEF CountInv
  <2>4. tx'.pc = "add"
    BY <1>4 DEF Submit
  <2> QED
    BY <2>3, <2>4 DEF SharesOK, NoneInHand
<1>5. ASSUME NEW share \in fresh, Submit(share, "results"), fresh' = fresh \ {share}
      PROVE  SharesOK' /\ NoneInHand'
  <2>1. share \in Shares /\ Unsent(share)
    BY <1>5 DEF CountInv, TypeInv, Scalars, Unsent
  <2>2. ASSUME NEW s \in Shares
        PROVE  ShareOK(s)'
    BY <1>1, <1>2, <1>5, <2>1, SubmitStep DEF CountInv
  <2>3. tx'.pc = "add"
    BY <1>5 DEF Submit
  <2> QED
    BY <2>2, <2>3 DEF SharesOK, NoneInHand
<1> QED
  BY <1>3, <1>4, <1>5 DEF TxResubmit, TxResult

\* Shares.Add: a share that was sent is not sent again
LEMMA TxAdds ==
    ASSUME CountInv, TxAdd
    PROVE  SharesOK' /\ NoneInHand'
<1>1. UNCHANGED <<toServer, toClient, rx, counted, fresh>>
  BY DEF TxAdd, TxUnchanged
<1>2. /\ tx'.share = None /\ tx'.ok = FALSE
      /\ tx.share \in Shares /\ tx.ok \in BOOLEAN
      /\ DOMAIN shmap' = DOMAIN shmap \cup {tx.share}
      /\ \A s \in DOMAIN shmap \ {tx.share} : shmap'[s] = shmap[s]
      /\ shmap'[tx.share] = (tx.ok \/ (tx.share \in DOMAIN shmap /\ shmap[tx.share]))
  BY DEF TxAdd, CountInv, TypeInv, TxOK, TxRecord
<1>3. ASSUME NEW s \in Shares
      PROVE  ShareOK(s)'
  <2>1. ShareOK(s)
    BY DEF CountInv, SharesOK
  <2>2. (OneCopy(s) => OneCopy(s)') /\ (NoCopy(s) => NoCopy(s)')
    BY <1>1 DEF OneCopy, NoCopy, Asked, Answered, Held
  <2>3. s \in fresh' => s \notin DOMAIN shmap' /\ tx'.share # s
    BY <1>1, <1>2, <2>1, NoneAssumption DEF ShareOK
  <2>4. Unsent(s)' => Unsent(s)
    <3>1. CASE s = tx.share
      BY <1>1, <1>2, <3>1, NoneAssumption DEF Unsent
    <3>2. CASE s # tx.share
      BY <1>1, <1>2, <3>2, NoneAssumption DEF Unsent
    <3> QED
      BY <3>1, <3>2
  <2> QED
    BY <1>1, <2>1, <2>2, <2>3, <2>4 DEF ShareOK
<1> QED
  BY <1>2, <1>3 DEF SharesOK, NoneInHand

\* stale shares are forgotten
LEMMA TxStale ==
    ASSUME CountInv, RemoveStale
    PROVE  SharesOK' /\ NoneInHand'
<1>1. UNCHANGED <<toServer, toClient, rx, counted, fresh>>
  BY DEF RemoveStale, TxUnchanged
<1>2. tx'.share = tx.share /\ tx'.ok = tx.ok /\ tx.pc = "stale"
  BY DEF RemoveStale, Pass, CountInv, TypeInv, TxOK, TxRecord
<1>3. DOMAIN shmap' \subseteq DOMAIN shmap /\ \A s \in DOMAIN shmap' : shmap'[s] = shmap[s]
  BY DEF RemoveStale
<1>4. ASSUME NEW s \in Shares
      PROVE  ShareOK(s)'
  <2>1. (OneCopy(s) => OneCopy(s)') /\ (NoCopy(s) => NoCopy(s)')
    BY <1>1 DEF OneCopy, NoCopy, Asked, Answered, Held
  <2>2. Unsent(s)' => Unsent(s)
    BY <1>1, <1>2, <1>3 DEF Unsent
  <2> QED
    BY <1>1, <1>2, <1>3, <2>1, <2>2 DEF CountInv, SharesOK, ShareOK
<1> QED
  BY <1>2, <1>4 DEF CountInv, SharesOK, NoneInHand

\* the receiver takes a message: a copy goes from the connection into its hand
LEMMA RxReads ==
    ASSUME CountInv, RxRead
    PROVE  SharesOK' /\ NoneInHand'
<1>1. UNCHANGED <<toServer, tx, counted, shmap, fresh>> /\ rx.pc = "read"
  BY DEF RxRead, RxUnchanged
<1>t. toClient \in Seq(Message) /\ toClient # <<>> /\ rx \in RxRecord
  BY DEF CountInv, TypeInv, Queues, RxOK, RxRead
<1> DEFINE msg == Head(toClient)
<1>2. /\ msg = toClient[1] /\ 1 \in DOMAIN toClient
      /\ \A i \in DOMAIN toClient' : i + 1 \in DOMAIN toClient /\ i + 1 # 1
                                     /\ toClient'[i] = toClient[i + 1]
  BY <1>t DEF RxRead
<1>3. rx'.pc = "handle" => rx'.msg = msg
  <2>1. msg.kind # "reconnect" \/ msg.kind \notin Methods
    BY DEF Methods
  <2> QED
    BY <1>t, <1>1, <2>1 DEF RxRead, RxRecord
<1> HIDE DEF msg
<1>4. ASSUME NEW s \in Shares
      PROVE  ShareOK(s)'
  <2>1. ASSUME NEW i \in Answered(s)'
        PROVE  i + 1 \in Answered(s) /\ i + 1 # 1 /\ i \in Nat
    <3>1. i \in DOMAIN toClient' /\ toClient' = Tail(toClient)
      BY <2>1 DEF Answered, RxRead
    <3>2. i \in Nat
      BY <1>t, <3>1
    <3> QED
      BY <1>2, <2>1, <3>2 DEF Answered
  <2>2. Held(s)' => 1 \in Answered(s)
    BY <1>2, <1>3 DEF Held, Answered
  <2>3. Asked(s)' = Asked(s) /\ ~Held(s)
    BY <1>1 DEF Asked, Held
  <2>4. NoCopy(s) => NoCopy(s)'
    BY <2>1, <2>2, <2>3 DEF NoCopy
  <2>5. ASSUME OneCopy(s)
        PROVE  OneCopy(s)'
    <3>1. \A i, j \in Answered(s)' : i = j
      BY <2>1, <2>5 DEF OneCopy
    <3>2. Held(s)' => Asked(s)' = {} /\ Answered(s)' = {}
      BY <2>1, <2>2, <2>3, <2>5 DEF OneCopy
    <3>3. Asked(s)' = {} \/ Answered(s)' = {}
      BY <2>1, <2>3, <2>5 DEF OneCopy
    <3> QED
      BY <2>3, <2>5, <3>1, <3>2, <3>3 DEF OneCopy
  <2> QED
    BY <1>1, <2>4, <2>5, FewerCopies DEF CountInv, SharesOK
<1> QED
  BY <1>1, <1>4 DEF CountInv, SharesOK, NoneInHand

\* the receiver handles an answer: the copy is gone, and may be counted
LEMMA RxHandles ==
    ASSUME CountInv, RxHandle
    PROVE  SharesOK' /\ NoneInHand'
<1>1. UNCHANGED <<toServer, toClient, fresh>> /\ rx.pc = "handle" /\ rx'.pc # "handle"
  BY DEF RxHandle, RxUnchanged, CountInv, TypeInv, RxOK, RxRecord
<1>2. tx'.share = tx.share /\ tx'.ok = tx.ok /\ tx'.pc \in {tx.pc, "panic"}
  BY DEF RxHandle, CountInv, TypeInv, TxOK, TxRecord
<1>3. UNCHANGED <<shmap, counted>> \/ SubmitResult(rx.msg)
  BY DEF RxHandle
<1>4. ASSUME NEW s \in Shares
      PROVE  ShareOK(s)'
  <2>1. ShareOK(s)
    BY DEF CountInv, SharesOK
  <2>2. (OneCopy(s) => OneCopy(s)') /\ (NoCopy(s) \/ (OneCopy(s) /\ Held(s)) => NoCopy(s)')
    BY <1>1 DEF OneCopy, NoCopy, Asked, Answered, Held
  <2>3. CASE /\ counted'[s] = counted[s]
             /\ s \in DOMAIN shmap' => s \in DOMAIN shmap /\ shmap'[s] = shmap[s]
    BY <1>1, <1>2, <2>1, <2>2, <2>3 DEF ShareOK, Unsent
  <2>4. CASE /\ rx.msg.share = s
             /\ s \in DOMAIN shmap /\ s \notin DOMAIN shmap'
             /\ counted'[s] = counted[s] + 1
    <3>1. Held(s) /\ ~NoCopy(s)
      BY <1>1, <2>4 DEF Held, NoCopy
    <3>2. counted[s] = 0 /\ ~Unsent(s)
      BY <2>1, <3>1 DEF ShareOK
    <3>3. NoCopy(s)' /\ OneCopy(s)'
      BY <2>1, <2>2, <3>1 DEF ShareOK
    <3>4. ~Unsent(s)' /\ s \notin fresh'
      BY <1>1, <1>2, <2>4, <3>2 DEF Unsent
    <3> QED
      BY <2>4, <3>2, <3>3, <3>4 DEF ShareOK
  <2>5. counted \in [Shares -> Nat]
    BY DEF CountInv, TypeInv, Map
  <2> QED
    BY <1>3, <2>3, <2>4, <2>5 DEF SubmitResult
<1> QED
  BY <1>2, <1>4 DEF CountInv, SharesOK, NoneInHand

\* the receiver between two messages
LEMMA RxOther ==
    ASSUME CountInv, RxReconnect \/ RxEnd
    PROVE  SharesOK' /\ NoneInHand'
<1>1. UNCHANGED <<toServer, toClient, tx, counted, shmap, fresh>>
  BY DEF RxReconnect, RxEnd, RxUnchanged
<1>2. rx.pc # "handle" /\ rx'.pc # "handle"
  BY DEF RxReconnect, RxEnd, CountInv, TypeInv, RxOK, RxRecord
<1>3. ASSUME NEW s \in Shares
      PROVE  ShareOK(s)'
  BY <1>1, <1>2, FewerCopies DEF CountInv, SharesOK, OneCopy, NoCopy, Asked, Answered, Held
<1> QED
  BY <1>1, <1>3 DEF CountInv, SharesOK, NoneInHand

\* the server turns a request into its answer, or drops it
LEMMA EnvSteps ==
    ASSUME CountInv, Server \/ PoolStop \/ Idle \/ UNCHANGED vars
    PROVE  SharesOK' /\ NoneInHand'
<1>1. UNCHANGED <<rx, tx, counted, shmap, fresh>>
  BY DEF Server, ServerAnswer, ServerPush, ServerClose, PoolStop, Idle, EnvUnchanged, vars
<1>t. toClient \in Seq(Message) /\ toServer \in Seq(Requests)
  BY DEF CountInv, TypeInv, Queues
<1>2. ASSUME NEW s \in Shares
      PROVE  (OneCopy(s) => OneCopy(s)') /\ (NoCopy(s) => NoCopy(s)')
  <2>1. CASE ServerAnswer
    <3> DEFINE request == Head(toServer)
    <3>1. /\ toServer # <<>> /\ request = toServer[1] /\ 1 \in DOMAIN toServer
          /\ \A i \in DOMAIN toServer' : i + 1 \in DOMAIN toServer /\ i + 1 # 1 /\ i \in Nat
                                         /\ toServer'[i] = toServer[i + 1]
      BY <2>1, <1>t DEF ServerAnswer
    <3>2. toClient' = toClient \/ toClient' = Append(toClient, request)
      BY <2>1 DEF ServerAnswer
    <3> HIDE DEF request
    <3>3. \A i \in Asked(s)' : i + 1 \in Asked(s) /\ i + 1 # 1 /\ i \in Nat
      BY <3>1 DEF Asked
    <3>4. request.share = s => 1 \in Asked(s)
      BY <3>1 DEF Asked
    <3>5. \/ Answered(s)' = Answered(s)
          \/ request.share = s /\ Answered(s)' = Answered(s) \cup {Len(toClient) + 1}
      <4>1. CASE toClient' = toClient
        BY <4>1 DEF Answered
      <4>2. CASE toClient' = Append(toClient, request)
        <5>1. /\ DOMAIN toClient' = DOMAIN toClient \cup {Len(toClient) + 1}
              /\ \A i \in DOMAIN toClient : toClient'[i] = toClient[i] /\ i # Len(toClient) + 1
              /\ toClient'[Len(toClient) + 1] = request
          BY <1>t, <4>2
        <5> QED
          BY <5>1 DEF Answered
      <4> QED
        BY <3>2, <4>1, <4>2
    <3>6. ASSUME OneCopy(s)
          PROVE  OneCopy(s)'
      <4>1. \A i, j \in Asked(s)' : i = j
        BY <3>3, <3>6 DEF OneCopy
      <4>2. CASE Answered(s)' = Answered(s)
        BY <1>1, <3>3, <3>6, <4>1, <4>2 DEF OneCopy, Held
      <4>3. CASE request.share = s /\ Answered(s)' = Answered(s) \cup {Len(toClient) + 1}
        <5>1. Asked(s)' = {}
          BY <3>3, <3>4, <3>6, <4>3 DEF OneCopy
        <5>2. Answered(s) = {} /\ ~Held(s)
          BY <3>4, <3>6, <4>3 DEF OneCopy
        <5> QED
          BY <1>1, <4>3, <5>1, <5>2 DEF OneCopy, Held
      <4> QED
        BY <3>5, <4>2, <4>3
    <3>7. NoCopy(s) => NoCopy(s)'
      BY <1>1, <3>3, <3>4, <3>5 DEF NoCopy, Held
    <3> QED
      BY <3>6, <3>7
  <2>2. ASSUME NEW kind \in Pushed, ServerPush(kind)
        PROVE  (OneCopy(s) => OneCopy(s)') /\ (NoCopy(s) => NoCopy(s)')
    <3> DEFINE push == [kind |-> kind, share |-> None]
    <3>1. push.share # s
      BY NoneAssumption
    <3>2. toServer' = toServer /\ toClient' = Append(toClient, push)
      BY <2>2 DEF ServerPush
    <3> HIDE DEF push
    <3>3. /\ DOMAIN toClient' = DOMAIN toClient \cup {Len(toClient) + 1}
          /\ \A i \in DOMAIN toClient : toClient'[i] = toClient[i]
          /\ toClient'[Len(toClient) + 1] = push
      BY <1>t, <3>2
    <3>4. Answered(s)' = Answered(s) /\ Asked(s)' = Asked(s)
      BY <3>1, <3>2, <3>3 DEF Answered, Asked
    <3> QED
      BY <1>1, <3>4 DEF OneCopy, NoCopy, Held
  <2>3. CASE ServerClose
    BY <1>1, <2>3 DEF ServerClose, OneCopy, NoCopy, Asked, Answered, Held
  <2>4. CASE PoolStop \/ Idle \/ UNCHANGED vars
    BY <1>1, <2>4 DEF PoolStop, Idle, vars, OneCopy, NoCopy, Asked, Answered, Held
  <2> QED
    BY <2>1, <2>2, <2>3, <2>4 DEF Server
<1> QED
  BY <1>1, <1>2, FewerCopies DEF CountInv, SharesOK, NoneInHand

-----------------------------------------------------------------------------
\* the invariant is inductive
LEMMA NextCount == CountInv /\ [Next]_vars => CountInv'
<1> SUFFICES ASSUME CountInv, [Next]_vars
             PROVE  SharesOK' /\ NoneInHand'
  BY NextType DEF CountInv
<1>1. CASE Tx
  BY <1>1, TxOther, TxRequests, TxSubmits, TxAdds, TxStale DEF Tx
<1>2. CASE Rx
  BY <1>2, RxReads, RxHandles, RxOther DEF Rx
<1> QED
  BY <1>1, <1>2, EnvSteps DEF Next

\* no share was sent or counted at the beginning
LEMMA InitCount == Init => CountInv
<1> SUFFICES ASSUME Init
             PROVE  SharesOK /\ NoneInHand
  BY InitType DEF CountInv
<1>1. tx.share = None /\ rx.pc = "read" /\ toServer = <<>> /\ toClient = <<>> /\ shmap = <<>>
  BY DEF Init
<1>2. DOMAIN <<>> = {}
  <2>1. DOMAIN <<>> = 1 .. Len(<<>>) /\ Len(<<>>) = 0
    OBVIOUS
  <2> QED
    BY <2>1
<1>3. ASSUME NEW s \in Shares
      PROVE  ShareOK(s)
  <2>1. NoCopy(s) /\ OneCopy(s)
    BY <1>1, <1>2 DEF NoCopy, OneCopy, Asked, Answered, Held
  <2>2. counted[s] = 0
    BY DEF Init
  <2> QED
    BY <1>1, <1>2, <2>1, <2>2, NoneAssumption DEF ShareOK
<1> QED
  BY <1>1, <1>3 DEF SharesOK, NoneInHand

\* A share is counted as accepted or rejected at most once, for any number of
\* shares, failed submissions and late answers.
THEOREM SharesCountedOnce == Spec => []CountedOnce
<1>1. CountInv => CountedOnce
  <2> SUFFICES ASSUME CountInv, NEW s \in Shares
               PROVE  counted[s] <= 1
    BY DEF CountedOnce
  <2>1. counted[s] \in {0, 1}
    BY DEF CountInv, SharesOK, ShareOK
  <2> QED
    BY <2>1
<1> QED
  BY <1>1, InitCount, NextCount, PTL DEF Spec
=============================================================================
