------------------------------ MODULE AsicIOProofs ------------------------------
(***************************************************************************)
(* The types of AsicIO, its maps and its promise to callers, for any       *)
(* number of callers, commands and payloads and whatever is lost: the two  *)
(* maps agree, and no caller is forgotten.  A command is new, queued or in *)
(* cmdwriter's hands, or it is in use; it is never both, because an object *)
(* is taken again only when nobody refers to it.  And, as long as no       *)
(* answer was lost or overtaken by a timeout, every answer in flight is    *)
(* owed to one command, in the order in which they were registered.        *)
(***************************************************************************)
EXTENDS AsicIO, FiniteSetTheorems, TLAPS

\* the goroutines hold commands and payloads where their code uses them
Hands ==
    /\ writer.pc \in {"register", "history", "write"} => writer.cmd \in Objs
    /\ reader.pc = "lookup" => reader.payload \in Payload
    /\ reader.pc = "credit" => reader.payload \in Payload
    /\ reader.pc \in {"credit", "unhist", "unreg"} => reader.cmd \in Objs
    /\ checker.pc = "idle" => checker.left = {}
TypeInv == TypeOK /\ Hands

New  == (ToSet(chinput) \ {None}) \cup (IF writer.pc = "register" THEN {writer.cmd} ELSE {})
Used == cmdReverseRegReadMap \cup cmdHistory \cup checker.left \cup ({reader.cmd} \ {None})
            \cup (IF writer.pc \in {"history", "write"} THEN {writer.cmd} ELSE {})

NewInv ==
    /\ New \cap Used = {}
    /\ \A i, j \in DOMAIN chinput : chinput[i] = chinput[j] /\ chinput[i] # None => i = j
    /\ writer.pc = "register" => /\ writer.cmd \notin ToSet(chinput)
                                 /\ writer.left = cmds[writer.cmd].want
WaitInv ==
    /\ \A o \in New \cup cmdReverseRegReadMap : Waiting(o) # {}
    /\ \A o \in Objs : cmds[o].completed => Waiting(o) = {}

IInv == TypeInv /\ MapsAgree /\ NewInv /\ WaitInv /\ CallerNotForgotten

-----------------------------------------------------------------------------
(* Lists of commands.                                                      *)

\* RemoveFirst takes a command out of a list in which none stands twice,
\* and leaves the others in their order
LEMMA RemoveOnce ==
    ASSUME NEW S, NEW q \in Seq(S), NEW o,
           \A i, j \in DOMAIN q : q[i] = q[j] => i = j
    PROVE  /\ RemoveFirst(q, o) \in Seq(S)
           /\ ToSet(RemoveFirst(q, o)) = ToSet(q) \ {o}
           /\ \A i, j \in DOMAIN RemoveFirst(q, o) :
                 RemoveFirst(q, o)[i] = RemoveFirst(q, o)[j] => i = j
           /\ \A i, j \in DOMAIN RemoveFirst(q, o) : i < j =>
                 \E k, l \in DOMAIN q :
                    k < l /\ q[k] = RemoveFirst(q, o)[i] /\ q[l] = RemoveFirst(q, o)[j]
<1>1. CASE \A i \in 1 .. Len(q) : q[i] # o
  <2>1. RemoveFirst(q, o) = q
    BY <1>1 DEF RemoveFirst
  <2>2. o \notin ToSet(q)
    BY <1>1 DEF ToSet
  <2> QED
    BY <2>1, <2>2
<1>2. ASSUME NEW n \in 1 .. Len(q), q[n] = o
      PROVE  /\ RemoveFirst(q, o) \in Seq(S)
             /\ ToSet(RemoveFirst(q, o)) = ToSet(q) \ {o}
             /\ \A i, j \in DOMAIN RemoveFirst(q, o) :
                   RemoveFirst(q, o)[i] = RemoveFirst(q, o)[j] => i = j
             /\ \A i, j \in DOMAIN RemoveFirst(q, o) : i < j =>
                   \E k, l \in DOMAIN q :
                      k < l /\ q[k] = RemoveFirst(q, o)[i] /\ q[l] = RemoveFirst(q, o)[j]
  <2>1. {i \in 1 .. Len(q) : q[i] = o} = {n}
    BY <1>2
  <2>2. Min({n}) = n
    BY DEF Min
  <2>3. SelectInSeq(q, LAMBDA v : v = o) = n
    BY <2>1, <2>2 DEF SelectInSeq
  <2>4. RemoveFirst(q, o) = SubSeq(q, 1, n - 1) \o SubSeq(q, n + 1, Len(q))
    BY <1>2, <2>3 DEF RemoveFirst, RemoveAt
  <2> DEFINE r == SubSeq(q, 1, n - 1) \o SubSeq(q, n + 1, Len(q))
  <2>5. /\ r \in Seq(S) /\ Len(r) = Len(q) - 1
        /\ \A i \in 1 .. (Len(q) - 1) : r[i] = IF i < n THEN q[i] ELSE q[i + 1]
    <3> DEFINE before == SubSeq(q, 1, n - 1)
               after  == SubSeq(q, n + 1, Len(q))
    <3>1. /\ before \in Seq(S) /\ Len(before) = n - 1
          /\ \A i \in 1 .. (n - 1) : before[i] = q[i]
      OBVIOUS
    <3>2. /\ after \in Seq(S) /\ Len(after) = Len(q) - n
          /\ \A i \in 1 .. (Len(q) - n) : after[i] = q[i + n]
      OBVIOUS
    <3>3. r = before \o after
      OBVIOUS
    <3> HIDE DEF before, after, r
    <3>4. r \in Seq(S) /\ Len(r) = Len(q) - 1
      <4>0. before \in Seq(S) /\ after \in Seq(S)
        BY <3>1, <3>2
      <4>1. before \o after \in Seq(S) /\ Len(before \o after) = Len(before) + Len(after)
        BY <4>0
      <4>2. Len(before) + Len(after) = Len(q) - 1
        BY <3>1, <3>2
      <4> QED
        BY <3>3, <4>1, <4>2
    <3>5. ASSUME NEW i \in 1 .. (Len(q) - 1)
          PROVE  r[i] = IF i < n THEN q[i] ELSE q[i + 1]
      <4>1. CASE i < n
        BY <3>1, <3>2, <3>3, <4>1
      <4>2. CASE i >= n
        <5>1. i - (n - 1) \in 1 .. (Len(q) - n) /\ r[i] = after[i - (n - 1)]
          BY <3>1, <3>2, <3>3, <4>2
        <5>2. after[i - (n - 1)] = q[i - (n - 1) + n]
          BY <3>2, <5>1
        <5>3. i - (n - 1) + n = i + 1
          OBVIOUS
        <5> QED
          BY <4>2, <5>1, <5>2, <5>3
      <4> QED
        BY <4>1, <4>2
    <3> QED
      BY <3>4, <3>5
  <2> HIDE DEF r
  <2> DEFINE from(i) == IF i < n THEN i ELSE i + 1
  <2>6. /\ \A i \in DOMAIN r : from(i) \in DOMAIN q /\ r[i] = q[from(i)] /\ from(i) # n
        /\ \A i, j \in DOMAIN r : i < j => from(i) < from(j)
        /\ \A i, j \in DOMAIN r : from(i) = from(j) => i = j
        /\ \A k \in DOMAIN q : k # n => \E i \in DOMAIN r : from(i) = k
    <3>1. DOMAIN r = 1 .. (Len(q) - 1) /\ DOMAIN q = 1 .. Len(q) /\ Len(q) \in Nat
      BY <2>5
    <3>2. ASSUME NEW k \in DOMAIN q, k # n PROVE \E i \in DOMAIN r : from(i) = k
      <4>1. CASE k < n
        <5>1. k \in DOMAIN r /\ from(k) = k
          BY <3>1, <4>1
        <5> QED
          BY <5>1
      <4>2. CASE k > n
        <5>1. k - 1 \in DOMAIN r /\ from(k - 1) = k
          BY <3>1, <4>2
        <5> QED
          BY <5>1
      <4> QED
        BY <3>1, <3>2, <4>1, <4>2
    <3>3. \A i \in DOMAIN r : from(i) \in DOMAIN q /\ from(i) # n
      BY <3>1
    <3>4. \A i \in DOMAIN r : r[i] = q[from(i)]
      BY <2>5, <3>1
    <3>5. \A i, j \in DOMAIN r : (i < j => from(i) < from(j)) /\ (from(i) = from(j) => i = j)
      BY <3>1
    <3> QED
      BY <3>2, <3>3, <3>4, <3>5
  <2> HIDE DEF from
  <2>7. ToSet(r) = ToSet(q) \ {o}
    <3>1. \A i \in DOMAIN r : r[i] \in ToSet(q) \ {o}
      BY <1>2, <2>6 DEF ToSet
    <3>2. \A k \in DOMAIN q : q[k] # o => \E i \in DOMAIN r : r[i] = q[k]
      BY <1>2, <2>6
    <3> QED
      BY <3>1, <3>2 DEF ToSet
  <2>8. \A i, j \in DOMAIN r : r[i] = r[j] => i = j
    BY <2>6
  <2>9. \A i, j \in DOMAIN r : i < j =>
            \E k, l \in DOMAIN q : k < l /\ q[k] = r[i] /\ q[l] = r[j]
    BY <2>6
  <2> QED
    <3>1. RemoveFirst(q, o) = r /\ r \in Seq(S)
      BY <2>4, <2>5 DEF r
    <3> QED
      BY <2>7, <2>8, <2>9, <3>1
<1> QED
  BY <1>1, <1>2

\* a command is appended to a list in which it does not stand
LEMMA AppendOnce ==
    ASSUME NEW S, NEW q \in Seq(S), NEW o \in S
    PROVE  /\ Append(q, o) \in Seq(S)
           /\ ToSet(Append(q, o)) = ToSet(q) \cup {o}
           /\ (\A i, j \in DOMAIN q : q[i] = q[j] => i = j) /\ o \notin ToSet(q)
                 => \A i, j \in DOMAIN Append(q, o) : Append(q, o)[i] = Append(q, o)[j] => i = j
<1>1. /\ Append(q, o) \in Seq(S) /\ DOMAIN q = 1 .. Len(q) /\ Len(q) \in Nat
      /\ DOMAIN Append(q, o) = 1 .. (Len(q) + 1)
      /\ \A i \in 1 .. Len(q) : Append(q, o)[i] = q[i]
      /\ Append(q, o)[Len(q) + 1] = o
  OBVIOUS
<1>2. \A i \in DOMAIN Append(q, o) : i \in DOMAIN q \/ i = Len(q) + 1
  BY <1>1
<1>3. ToSet(Append(q, o)) = ToSet(q) \cup {o}
  BY <1>1, <1>2 DEF ToSet
<1>4. ASSUME \A i, j \in DOMAIN q : q[i] = q[j] => i = j, o \notin ToSet(q)
      PROVE  \A i, j \in DOMAIN Append(q, o) : Append(q, o)[i] = Append(q, o)[j] => i = j
  BY <1>1, <1>2, <1>4 DEF ToSet
<1> QED
  BY <1>1, <1>3, <1>4

\* the head of a queue, and what is left of it
LEMMA TakeHead ==
    ASSUME NEW S, NEW q \in Seq(S), q # <<>>
    PROVE  /\ Head(q) \in S /\ Tail(q) \in Seq(S)
           /\ Head(q) \in ToSet(q) /\ ToSet(Tail(q)) \subseteq ToSet(q)
           /\ ToSet(q) = ToSet(Tail(q)) \cup {Head(q)}
           /\ \A i \in DOMAIN Tail(q) : i + 1 \in DOMAIN q /\ i + 1 # 1 /\ Tail(q)[i] = q[i + 1]
           /\ 1 \in DOMAIN q /\ Head(q) = q[1]
<1>1. /\ Head(q) \in S /\ Tail(q) \in Seq(S) /\ 1 \in DOMAIN q /\ Head(q) = q[1]
      /\ DOMAIN q = 1 .. Len(q) /\ DOMAIN Tail(q) = 1 .. (Len(q) - 1) /\ Len(q) \in Nat
      /\ \A i \in DOMAIN Tail(q) : i + 1 \in DOMAIN q /\ i + 1 # 1 /\ Tail(q)[i] = q[i + 1]
  OBVIOUS
<1>2. ASSUME NEW k \in DOMAIN q, k # 1 PROVE \E i \in DOMAIN Tail(q) : Tail(q)[i] = q[k]
  <2>1. k - 1 \in DOMAIN Tail(q) /\ (k - 1) + 1 = k
    BY <1>1, <1>2
  <2> QED
    BY <1>1, <2>1
<1>3. ToSet(q) = ToSet(Tail(q)) \cup {Head(q)}
  <2>1. ToSet(Tail(q)) \cup {Head(q)} \subseteq ToSet(q)
    BY <1>1 DEF ToSet
  <2>2. ToSet(q) \subseteq ToSet(Tail(q)) \cup {Head(q)}
    <3>1. \A k \in DOMAIN q : q[k] = Head(q) \/ q[k] \in ToSet(Tail(q))
      BY <1>1, <1>2 DEF ToSet
    <3> QED
      BY <3>1 DEF ToSet
  <2> QED
    BY <2>1, <2>2
<1> QED
  BY <1>1, <1>3

-----------------------------------------------------------------------------
(* Types.                                                                  *)

\* everything starts as the invariant has it
LEMMA InitIInv == Init => IInv
<1> SUFFICES ASSUME Init PROVE IInv
  OBVIOUS
<1>1. newAsicCmd({}) \in asicCmd
  BY DEF newAsicCmd, asicCmd, Fresh, Due, Over
<1>2. TypeInv
  <2>1. cmds \in [Objs -> asicCmd] /\ calls \in 0 .. MaxCalls
    BY <1>1, MaxCallsAssumption DEF Init
  <2>2. call \in [Callers -> [cmd : Objs \cup {None}, val : {0, 1}, whole : BOOLEAN]]
    BY DEF Init
  <2>3. /\ writer \in [pc : {"poll", "select", "register", "history", "write", "hit"},
                       cmd : Objs \cup {None}, left : SUBSET Payload]
        /\ reader \in [pc : {"top", "select", "lookup", "credit", "unhist", "unreg", "stuck"},
                       cmd : Objs \cup {None}, payload : Payload \cup {Hit}]
        /\ checker \in [pc : {"idle", "expire", "stuck"}, left : SUBSET Objs]
    BY DEF Init, NextAnswer
  <2>4. /\ chinput0 \in Seq({Hit}) /\ chinput \in Seq(Objs \cup {None})
        /\ wire \in Seq(Payload \cup {Hit}) /\ chResp \in Seq(Payload)
        /\ cmdRegReadMap \in [Payload -> Seq(Objs)]
    BY DEF Init
  <2>5. Hands
    BY DEF Init, Hands, NextAnswer
  <2> QED
    BY <2>1, <2>2, <2>3, <2>4, <2>5 DEF Init, TypeInv, TypeOK, Active, Slow, Idle
<1>3. ToSet(chinput) = {} /\ \A p \in Payload : ToSet(cmdRegReadMap[p]) = {}
  BY DEF Init, ToSet
<1>4. MapsAgree
  BY <1>3 DEF Init, MapsAgree
<1>5. New = {} /\ Used = {}
  BY <1>3 DEF Init, New, Used, NextAnswer
<1>6. NewInv /\ WaitInv
  BY <1>5, NoneAssumption DEF Init, NewInv, WaitInv, Waiting, newAsicCmd
<1>7. CallerNotForgotten
  BY DEF Init, CallerNotForgotten
<1> QED
  BY <1>2, <1>4, <1>6, <1>7 DEF IInv

\* what a caller waits for is replaced
LEMMA CallRecord ==
    ASSUME NEW d \in [cmd : Objs \cup {None}, val : {0, 1}, whole : BOOLEAN], NEW o \in Objs
    PROVE  [d EXCEPT !.cmd = o] \in [cmd : Objs \cup {None}, val : {0, 1}, whole : BOOLEAN]
OBVIOUS

\* callers keep the types
LEMMA CallerType ==
    ASSUME TypeInv,
           (\E c \in Callers, want \in Requests : NonBlockingRead(c, want))
             \/ NonBlockingWrite \/ ReqestHitResult
    PROVE  TypeInv'
<1> USE DEF TypeInv, TypeOK
<1>1. ASSUME NEW c \in Callers, NEW want \in Requests, NonBlockingRead(c, want)
      PROVE  TypeInv'
  <2>1. PICK o \in Objs \ Referenced :
            /\ cmds' = [cmds EXCEPT ![o] = newAsicCmd(want)]
            /\ chinput' = Append(chinput, o)
            /\ call' = [call EXCEPT ![c].cmd = o]
    BY <1>1 DEF NonBlockingRead
  <2>2. newAsicCmd(want) \in asicCmd
    BY RequestAssumption DEF newAsicCmd, asicCmd, Fresh, Due, Over
  <2>3. cmds' \in [Objs -> asicCmd]
    BY <2>1, <2>2
  <2>4. chinput' \in Seq(Objs \cup {None})
    BY <2>1, AppendOnce
  <2>5. call' \in [Callers -> [cmd : Objs \cup {None}, val : {0, 1}, whole : BOOLEAN]]
    <3>1. call \in [Callers -> [cmd : Objs \cup {None}, val : {0, 1}, whole : BOOLEAN]]
      OBVIOUS
    <3>2. [call[c] EXCEPT !.cmd = o] \in [cmd : Objs \cup {None}, val : {0, 1}, whole : BOOLEAN]
      BY <3>1, CallRecord
    <3>3. call' = [call EXCEPT ![c] = [call[c] EXCEPT !.cmd = o]]
      BY <2>1
    <3> QED
      BY <3>1, <3>2, <3>3
  <2>6. calls' \in 0 .. MaxCalls
    BY <1>1, MaxCallsAssumption DEF NonBlockingRead
  <2>7. UNCHANGED <<chinput0, writer, wire, chResp, reader, quiet, cmdRegReadMap,
                    cmdReverseRegReadMap, cmdHistory, checker, late>>
    BY <1>1 DEF NonBlockingRead, maps
  <2> QED
    BY <2>3, <2>4, <2>5, <2>6, <2>7 DEF Hands
<1>2. CASE NonBlockingWrite
  <2>1. chinput' \in Seq(Objs \cup {None})
    BY <1>2, AppendOnce DEF NonBlockingWrite
  <2>2. calls' \in 0 .. MaxCalls
    BY <1>2, MaxCallsAssumption DEF NonBlockingWrite
  <2>3. UNCHANGED <<cmds, call, chinput0, writer, wire, chResp, reader, quiet, cmdRegReadMap,
                    cmdReverseRegReadMap, cmdHistory, checker, late>>
    BY <1>2 DEF NonBlockingWrite, maps
  <2> QED
    BY <2>1, <2>2, <2>3 DEF Hands
<1>3. CASE ReqestHitResult
  <2>1. chinput0' \in Seq({Hit})
    BY <1>3, AppendOnce DEF ReqestHitResult
  <2>2. calls' \in 0 .. MaxCalls
    BY <1>3, MaxCallsAssumption DEF ReqestHitResult
  <2>3. UNCHANGED <<cmds, call, chinput, writer, wire, chResp, reader, quiet, cmdRegReadMap,
                    cmdReverseRegReadMap, cmdHistory, checker, late>>
    BY <1>3 DEF ReqestHitResult, maps
  <2> QED
    BY <2>1, <2>2, <2>3 DEF Hands
<1> QED
  BY <1>1, <1>2, <1>3

\* what cmdwriter does with an entry is one of three things
LEMMA DispatchType ==
    ASSUME TypeInv, NEW entry \in Objs \cup {None, Hit}, Dispatch(entry)
    PROVE  /\ writer' \in [pc : {"poll", "select", "register", "history", "write", "hit"},
                           cmd : Objs \cup {None}, left : SUBSET Payload]
           /\ writer'.pc = "register" =>
                 entry \in Objs /\ writer'.cmd = entry /\ writer'.left = cmds[entry].want
           /\ writer'.pc \in {"poll", "hit", "register"}
           /\ entry \in Objs => writer'.pc = "register"
<1>1. CASE entry = Hit
  BY <1>1, NoneAssumption DEF Dispatch
<1>2. CASE entry = None /\ entry # Hit
  BY <1>2, NoneAssumption DEF Dispatch
<1>3. CASE entry # None /\ entry # Hit
  <2>1. entry \in Objs /\ cmds[entry].want \in SUBSET Payload
    BY <1>3 DEF TypeInv, TypeOK, asicCmd
  <2>2. writer' = [pc |-> "register", cmd |-> entry, left |-> cmds[entry].want]
    BY <1>3 DEF Dispatch
  <2> QED
    BY <2>1, <2>2
<1> QED
  BY <1>1, <1>2, <1>3

\* cmdwriter keeps the types
LEMMA WriterType ==
    ASSUME TypeInv, Writer
    PROVE  TypeInv'
<1> USE DEF TypeInv, TypeOK
<1> DEFINE WriterOK == writer' \in [pc : {"poll", "select", "register", "history", "write", "hit"},
                                    cmd : Objs \cup {None}, left : SUBSET Payload]
<1>1. CASE WriterPoll
  <2>1. UNCHANGED <<cmds, call, chinput, wire, chResp, reader, quiet, cmdRegReadMap,
                    cmdReverseRegReadMap, cmdHistory, checker, calls, late>>
    BY <1>1 DEF WriterPoll, maps
  <2>2. CASE chinput0 # <<>>
    <3>1. Head(chinput0) \in {Hit} /\ chinput0' \in Seq({Hit}) /\ Dispatch(Head(chinput0))
      <4>1. Head(chinput0) \in {Hit} /\ Tail(chinput0) \in Seq({Hit})
        BY <2>2, TakeHead
      <4> QED
        BY <1>1, <2>2, <4>1 DEF WriterPoll
    <3>2. WriterOK /\ writer'.pc # "history" /\ writer'.pc # "write"
          /\ (writer'.pc = "register" => writer'.cmd \in Objs)
      BY <3>1, DispatchType
    <3> QED
      BY <2>1, <3>1, <3>2 DEF Hands
  <2>3. CASE chinput0 = <<>>
    <3>1. WriterOK /\ writer'.pc = "select" /\ chinput0' = chinput0
      BY <1>1, <2>3 DEF WriterPoll
    <3> QED
      BY <2>1, <3>1 DEF Hands
  <2> QED
    BY <2>2, <2>3
<1>2. CASE WriterSelect
  <2>1. UNCHANGED <<cmds, call, wire, chResp, reader, quiet, cmdRegReadMap,
                    cmdReverseRegReadMap, cmdHistory, checker, calls, late>>
    BY <1>2 DEF WriterSelect, maps
  <2>2. ASSUME NEW entry \in Objs \cup {None, Hit}, Dispatch(entry)
        PROVE  WriterOK /\ (writer'.pc \in {"register", "history", "write"} => writer'.cmd \in Objs)
    BY <2>2, DispatchType
  <2>3. CASE chinput0 # <<>> /\ Dispatch(Head(chinput0)) /\ chinput0' = Tail(chinput0)
             /\ UNCHANGED chinput
    <3>1. Head(chinput0) \in {Hit} /\ chinput0' \in Seq({Hit})
      BY <2>3, TakeHead
    <3> QED
      BY <2>1, <2>2, <2>3, <3>1 DEF Hands
  <2>4. CASE chinput # <<>> /\ Dispatch(Head(chinput)) /\ chinput' = Tail(chinput)
             /\ UNCHANGED chinput0
    <3>1. Head(chinput) \in Objs \cup {None} /\ chinput' \in Seq(Objs \cup {None})
      BY <2>4, TakeHead
    <3> QED
      BY <2>1, <2>2, <2>4, <3>1 DEF Hands
  <2> QED
    BY <1>2, <2>3, <2>4 DEF WriterSelect
<1>3. CASE WriterRegister
  <2>1. UNCHANGED <<cmds, call, chinput0, chinput, wire, chResp, reader, quiet, cmdHistory,
                    checker, calls, late>>
    BY <1>3 DEF WriterRegister, queues
  <2>2. writer.cmd \in Objs /\ writer' = [writer EXCEPT !.pc = "history"]
    BY <1>3 DEF WriterRegister, Hands
  <2>3. cmdRegReadMap' \in [Payload -> Seq(Objs)]
    <3>1. \A p \in Payload : Append(cmdRegReadMap[p], writer.cmd) \in Seq(Objs)
      BY <2>2, AppendOnce
    <3> QED
      BY <1>3, <3>1 DEF WriterRegister
  <2>4. cmdReverseRegReadMap' \in SUBSET Objs
    BY <1>3, <2>2 DEF WriterRegister
  <2>5. WriterOK
    BY <2>2
  <2>6. Hands'
    BY <2>1, <2>2 DEF Hands
  <2> QED
    BY <2>1, <2>3, <2>4, <2>5, <2>6
<1>4. CASE WriterHistory
  <2>1. UNCHANGED <<call, chinput0, chinput, wire, chResp, reader, quiet, cmdRegReadMap,
                    cmdReverseRegReadMap, checker, calls, late>>
    BY <1>4 DEF WriterHistory, queues, maps
  <2>2. writer.cmd \in Objs /\ writer' = [writer EXCEPT !.pc = "write"]
    BY <1>4 DEF WriterHistory, Hands
  <2>3. cmds' \in [Objs -> asicCmd]
    <3>1. cmds[writer.cmd] \in asicCmd
      BY <2>2
    <3>2. [cmds[writer.cmd] EXCEPT !.age = Fresh, !.seen = FALSE, !.dark = FALSE] \in asicCmd
      BY <3>1 DEF asicCmd
    <3> QED
      BY <1>4, <3>2 DEF WriterHistory
  <2>4. cmdHistory' \in SUBSET Objs
    BY <1>4, <2>2 DEF WriterHistory
  <2>5. WriterOK
    BY <2>2
  <2>6. Hands'
    BY <2>1, <2>2 DEF Hands
  <2> QED
    BY <2>1, <2>3, <2>4, <2>5, <2>6
<1>5. CASE WriterWrite \/ WriterHit
  <2>1. UNCHANGED <<cmds, call, chinput0, chinput, chResp, reader, quiet, cmdRegReadMap,
                    cmdReverseRegReadMap, cmdHistory, checker, calls>>
    BY <1>5 DEF WriterWrite, WriterHit, queues, maps
  <2>2. WriterOK /\ (writer'.pc = "write" => writer.pc = "write" /\ writer'.cmd = writer.cmd)
        /\ writer'.pc # "register" /\ writer'.pc # "history"
    <3>1. \/ writer' = [pc |-> "poll", cmd |-> None, left |-> {}]
          \/ writer' = [writer EXCEPT !.pc = "poll"]
          \/ writer.pc = "write" /\ \E p \in writer.left :
                writer' = [writer EXCEPT !.left = @ \ {p}]
      BY <1>5 DEF WriterWrite, WriterHit
    <3> QED
      BY <3>1
  <2>3. wire' \in Seq(Payload \cup {Hit})
    <3>1. wire' = wire \/ \E frame \in Payload \cup {Hit} : wire' = Append(wire, frame)
      BY <1>5 DEF WriterWrite, WriterHit, Answer
    <3>2. \A frame \in Payload \cup {Hit} : Append(wire, frame) \in Seq(Payload \cup {Hit})
      BY AppendOnce
    <3>3. wire \in Seq(Payload \cup {Hit})
      OBVIOUS
    <3> HIDE DEF TypeInv, TypeOK
    <3> QED
      BY <3>1, <3>2, <3>3
  <2>4. late' \in BOOLEAN
    BY <1>5 DEF WriterWrite, WriterHit
  <2> QED
    BY <2>1, <2>2, <2>3, <2>4 DEF Hands
<1> QED
  BY <1>1, <1>2, <1>3, <1>4, <1>5 DEF Writer

\* the end of a command keeps the types: it leaves the maps and answers
LEMMA ReleaseType ==
    ASSUME TypeInv, MapsAgree, NEW o \in Objs, NEW cmd \in asicCmd, NEW val \in {0, 1},
           Unregister(o), releaseCommand(o, cmd, val)
    PROVE  /\ cmds' \in [Objs -> asicCmd]
           /\ call' \in [Callers -> [cmd : Objs \cup {None}, val : {0, 1}, whole : BOOLEAN]]
           /\ cmdRegReadMap' \in [Payload -> Seq(Objs)]
           /\ cmdReverseRegReadMap' \in SUBSET Objs
<1> USE DEF TypeInv, TypeOK
<1>1. [cmd EXCEPT !.completed = @ \/ (cmd.responded /\ cmd.finished)] \in asicCmd
  BY DEF asicCmd
<1>2. cmds' \in [Objs -> asicCmd]
  BY <1>1 DEF releaseCommand
<1>3. call' \in [Callers -> [cmd : Objs \cup {None}, val : {0, 1}, whole : BOOLEAN]]
  <2>1. [cmd |-> None, val |-> val, whole |-> cmd.data = cmd.want]
          \in [cmd : Objs \cup {None}, val : {0, 1}, whole : BOOLEAN]
    OBVIOUS
  <2>2. \A c \in Callers : call[c] \in [cmd : Objs \cup {None}, val : {0, 1}, whole : BOOLEAN]
    OBVIOUS
  <2> QED
    BY <2>1, <2>2 DEF releaseCommand
<1>4. cmdRegReadMap' \in [Payload -> Seq(Objs)]
  <2>1. \A p \in Payload : RemoveFirst(cmdRegReadMap[p], o) \in Seq(Objs)
    BY RemoveOnce DEF MapsAgree
  <2> QED
    BY <2>1 DEF Unregister
<1>5. cmdReverseRegReadMap' \in SUBSET Objs
  BY DEF Unregister
<1> QED
  BY <1>2, <1>3, <1>4, <1>5

\* asicRead and cmdreader keep the types
LEMMA ReaderType ==
    ASSUME TypeInv, MapsAgree, asicRead \/ Reader
    PROVE  TypeInv'
<1> USE DEF TypeInv, TypeOK
<1> DEFINE ReaderSet == [pc : {"top", "select", "lookup", "credit", "unhist", "unreg", "stuck"},
                         cmd : Objs \cup {None}, payload : Payload \cup {Hit}]
<1>0. NextAnswer \in ReaderSet /\ NextAnswer.pc = "top"
  BY DEF NextAnswer
<1>1. CASE asicRead
  <2>1. UNCHANGED <<cmds, call, chinput0, chinput, writer, reader, quiet, cmdRegReadMap,
                    cmdReverseRegReadMap, cmdHistory, checker, calls, late>>
    BY <1>1 DEF asicRead, queues, maps
  <2>2. wire' \in Seq(Payload \cup {Hit}) /\ Head(wire) \in Payload \cup {Hit}
    BY <1>1, TakeHead DEF asicRead
  <2>3. chResp' \in Seq(Payload)
    <3>1. CASE Head(wire) = Hit
      BY <1>1, <3>1 DEF asicRead
    <3>2. CASE Head(wire) # Hit
      <4>1. Head(wire) \in Payload /\ chResp' = Append(chResp, Head(wire))
        BY <1>1, <2>2, <3>2 DEF asicRead
      <4> QED
        BY <4>1, AppendOnce
    <3> QED
      BY <3>1, <3>2
  <2> QED
    BY <2>1, <2>2, <2>3 DEF Hands
<1>2. CASE ReaderTop
  <2>1. UNCHANGED <<call, chinput0, chinput, writer, wire, chResp, cmdRegReadMap,
                    cmdReverseRegReadMap, cmdHistory, checker, calls, late>>
    BY <1>2 DEF ReaderTop, queues, maps
  <2>2. cmds' \in [Objs -> asicCmd]
    <3>1. PICK blackout \in BOOLEAN :
            cmds' = [o \in Objs |->
                       IF o \in cmdHistory
                       THEN [cmds[o] EXCEPT !.seen = TRUE,
                               !.dark = IF blackout THEN cmds[o].seen ELSE @]
                       ELSE cmds[o]]
      BY <1>2 DEF ReaderTop
    <3>2. ASSUME NEW o \in Objs
          PROVE  [cmds[o] EXCEPT !.seen = TRUE, !.dark = IF blackout THEN cmds[o].seen ELSE @]
                    \in asicCmd
      <4>1. cmds[o] \in asicCmd
        OBVIOUS
      <4> QED
        BY <4>1 DEF asicCmd
    <3> QED
      BY <3>1, <3>2
  <2>3. reader' \in ReaderSet /\ reader'.pc = "select" /\ quiet' = Active
    BY <1>2 DEF ReaderTop
  <2> QED
    BY <2>1, <2>2, <2>3 DEF Hands
<1>3. CASE ReaderTake
  <2>1. UNCHANGED <<cmds, call, chinput0, chinput, writer, wire, quiet, cmdRegReadMap,
                    cmdReverseRegReadMap, cmdHistory, checker, calls, late>>
    BY <1>3 DEF ReaderTake, queues, maps
  <2>2. chResp' \in Seq(Payload) /\ Head(chResp) \in Payload
    BY <1>3, TakeHead DEF ReaderTake
  <2>3. reader' = [pc |-> "lookup", cmd |-> None, payload |-> Head(chResp)]
    BY <1>3 DEF ReaderTake
  <2> QED
    BY <2>1, <2>2, <2>3 DEF Hands
<1>4. CASE ReaderLookup
  <2>1. UNCHANGED <<cmds, call, chinput0, chinput, writer, wire, chResp, quiet, cmdRegReadMap,
                    cmdReverseRegReadMap, cmdHistory, checker, calls, late>>
    BY <1>4 DEF ReaderLookup, queues, maps
  <2>2. reader.payload \in Payload /\ cmdRegReadMap[reader.payload] \in Seq(Objs)
    BY <1>4 DEF ReaderLookup, Hands
  <2>3. reader' \in ReaderSet /\ (reader'.pc = "top" \/ (/\ reader'.pc = "credit"
                                                         /\ reader'.payload \in Payload
                                                         /\ reader'.cmd \in Objs))
    <3>1. CASE cmdRegReadMap[reader.payload] = <<>>
      BY <1>0, <1>4, <3>1 DEF ReaderLookup
    <3>2. CASE cmdRegReadMap[reader.payload] # <<>>
      <4>1. Head(cmdRegReadMap[reader.payload]) \in Objs
        BY <2>2, <3>2, TakeHead
      <4>2. reader' = [reader EXCEPT !.pc = "credit", !.cmd = Head(cmdRegReadMap[reader.payload])]
        BY <1>4, <3>2 DEF ReaderLookup
      <4> QED
        BY <2>2, <4>1, <4>2
    <3> QED
      BY <3>1, <3>2
  <2> QED
    BY <2>1, <2>3 DEF Hands
<1>5. CASE ReaderCredit
  <2>1. UNCHANGED <<call, chinput0, chinput, writer, wire, chResp, quiet, cmdRegReadMap,
                    cmdReverseRegReadMap, cmdHistory, checker, calls, late>>
    BY <1>5 DEF ReaderCredit, queues, maps
  <2>2. reader.cmd \in Objs /\ reader.payload \in Payload
    BY <1>5 DEF ReaderCredit, Hands
  <2>3. cmds' \in [Objs -> asicCmd]
    <3> DEFINE old  == cmds[reader.cmd]
               last == old.resps + 1 = Cardinality(old.want)
               gone == Released(reader.cmd)
    <3>1. old \in asicCmd /\ old.resps + 1 \in Nat /\ last \in BOOLEAN /\ gone \in BOOLEAN
      BY <2>2 DEF asicCmd, Released
    <3> DEFINE new == [old EXCEPT !.data = old.data \cup {reader.payload}, !.responded = TRUE,
                                  !.resps = old.resps + 1, !.finished = old.finished \/ last,
                                  !.stale = old.stale \/ gone]
    <3>2. cmds' = [cmds EXCEPT ![reader.cmd] = new]
      BY <1>5 DEF ReaderCredit
    <3> HIDE DEF last, gone
    <3>3. new \in asicCmd
      BY <2>2, <3>1 DEF asicCmd
    <3> HIDE DEF new
    <3> QED
      BY <3>2, <3>3
  <2>4. reader' = NextAnswer \/ reader' = [reader EXCEPT !.pc = "unhist"]
    BY <1>5 DEF ReaderCredit
  <2>5. reader' \in ReaderSet /\ (reader'.pc = "top" \/ (reader'.pc = "unhist"
                                                         /\ reader'.cmd \in Objs))
    BY <1>0, <2>2, <2>4
  <2> QED
    BY <2>1, <2>3, <2>5 DEF Hands
<1>6. CASE ReaderUnhist
  <2>1. UNCHANGED <<cmds, call, chinput0, chinput, writer, wire, chResp, quiet, cmdRegReadMap,
                    cmdReverseRegReadMap, checker, calls, late>>
    BY <1>6 DEF ReaderUnhist, queues, maps
  <2>2. reader' \in ReaderSet /\ reader'.pc = "unreg" /\ reader'.cmd \in Objs
        /\ cmdHistory' \in SUBSET Objs
    BY <1>6 DEF ReaderUnhist, Hands
  <2> QED
    BY <2>1, <2>2 DEF Hands
<1>7. CASE ReaderUnreg
  <2>1. UNCHANGED <<chinput0, chinput, writer, wire, chResp, quiet, cmdHistory, checker, calls,
                    late>>
    BY <1>7 DEF ReaderUnreg, queues
  <2>2. reader.cmd \in Objs /\ cmds[reader.cmd] \in asicCmd
    BY <1>7 DEF ReaderUnreg, Hands
  <2>3. /\ cmds' \in [Objs -> asicCmd]
        /\ call' \in [Callers -> [cmd : Objs \cup {None}, val : {0, 1}, whole : BOOLEAN]]
        /\ cmdRegReadMap' \in [Payload -> Seq(Objs)]
        /\ cmdReverseRegReadMap' \in SUBSET Objs
    <3>1. Unregister(reader.cmd) /\ releaseCommand(reader.cmd, cmds[reader.cmd], 0)
      BY <1>7 DEF ReaderUnreg
    <3> QED
      BY <2>2, <3>1, ReleaseType
  <2>4. reader' = NextAnswer \/ reader' = [reader EXCEPT !.pc = "stuck"]
    BY <1>7 DEF ReaderUnreg
  <2>5. reader' \in ReaderSet /\ reader'.pc \in {"top", "stuck"}
    BY <1>0, <2>4
  <2> QED
    BY <2>1, <2>3, <2>5 DEF Hands
<1> QED
  BY <1>1, <1>2, <1>3, <1>4, <1>5, <1>6, <1>7 DEF Reader

\* the timeout checker and time keep the types
LEMMA CheckerType ==
    ASSUME TypeInv, MapsAgree, Checker \/ (\E o \in Objs : Age(o)) \/ Quieten
    PROVE  TypeInv'
<1> USE DEF TypeInv, TypeOK
<1>1. CASE CheckerScan
  <2>1. UNCHANGED <<call, chinput0, chinput, writer, wire, chResp, reader, quiet, cmdRegReadMap,
                    cmdReverseRegReadMap, calls, late>>
    BY <1>1 DEF CheckerScan, queues, maps
  <2>2. cmds' \in [Objs -> asicCmd]
    <3>1. PICK dark \in SUBSET cmdHistory :
            cmds' = [o \in Objs |-> IF o \in dark
                                    THEN [cmds[o] EXCEPT !.age = Fresh, !.dark = FALSE]
                                    ELSE cmds[o]]
      BY <1>1 DEF CheckerScan
    <3>2. ASSUME NEW o \in Objs
          PROVE  [cmds[o] EXCEPT !.age = Fresh, !.dark = FALSE] \in asicCmd
      <4>1. cmds[o] \in asicCmd
        OBVIOUS
      <4> QED
        BY <4>1 DEF asicCmd, Fresh
    <3> QED
      BY <3>1, <3>2
  <2>3. /\ cmdHistory' \in SUBSET Objs
        /\ checker' \in [pc : {"idle", "expire", "stuck"}, left : SUBSET Objs]
        /\ checker'.pc = "idle" => checker'.left = {}
    BY <1>1 DEF CheckerScan
  <2> QED
    BY <2>1, <2>2, <2>3 DEF Hands
<1>2. ASSUME NEW o \in Objs, CheckerExpire(o)
      PROVE  TypeInv'
  <2>1. UNCHANGED <<chinput0, chinput, writer, wire, chResp, reader, quiet, cmdHistory, calls,
                    late>>
    BY <1>2 DEF CheckerExpire, queues
  <2> DEFINE cmd == [cmds[o] EXCEPT !.finished = TRUE]
  <2>2. cmd \in asicCmd
    <3>1. cmds[o] \in asicCmd
      OBVIOUS
    <3> QED
      BY <3>1 DEF asicCmd
  <2>3. Unregister(o) /\ releaseCommand(o, cmd, 1)
    BY <1>2 DEF CheckerExpire
  <2>4. checker' \in [pc : {"idle", "expire", "stuck"}, left : SUBSET Objs]
        /\ (checker'.pc = "idle" => checker'.left = {})
    BY <1>2 DEF CheckerExpire
  <2> HIDE DEF cmd
  <2>5. /\ cmds' \in [Objs -> asicCmd]
        /\ call' \in [Callers -> [cmd : Objs \cup {None}, val : {0, 1}, whole : BOOLEAN]]
        /\ cmdRegReadMap' \in [Payload -> Seq(Objs)]
        /\ cmdReverseRegReadMap' \in SUBSET Objs
    BY <2>2, <2>3, ReleaseType
  <2> QED
    BY <2>1, <2>4, <2>5 DEF Hands
<1>3. ASSUME NEW o \in Objs, Age(o)
      PROVE  TypeInv'
  <2>1. UNCHANGED <<call, chinput0, chinput, writer, wire, chResp, reader, quiet, cmdRegReadMap,
                    cmdReverseRegReadMap, cmdHistory, checker, calls>>
    BY <1>3 DEF Age, queues, maps
  <2>2. [cmds[o] EXCEPT !.age = @ + 1] \in asicCmd
    <3>1. cmds[o] \in asicCmd /\ cmds[o].age # Over
      BY <1>3 DEF Age
    <3>2. cmds[o].age + 1 \in {Fresh, Due, Over}
      BY <3>1 DEF asicCmd, Fresh, Due, Over
    <3> QED
      BY <3>1, <3>2 DEF asicCmd
  <2>3. cmds' \in [Objs -> asicCmd] /\ late' \in BOOLEAN
    BY <1>3, <2>2 DEF Age
  <2> QED
    BY <2>1, <2>3 DEF Hands
<1>4. CASE Quieten
  <2>1. UNCHANGED <<cmds, call, chinput0, chinput, writer, wire, chResp, reader, cmdRegReadMap,
                    cmdReverseRegReadMap, cmdHistory, checker, calls, late>>
    BY <1>4 DEF Quieten, queues, maps
  <2>2. quiet' \in {Active, Slow, Idle}
    BY <1>4 DEF Quieten, Active, Slow, Idle
  <2> QED
    BY <2>1, <2>2 DEF Hands
<1> QED
  BY <1>1, <1>2, <1>3, <1>4 DEF Checker

\* every step keeps the types
LEMMA NextType ==
    ASSUME TypeInv, MapsAgree, [Next]_vars
    PROVE  TypeInv'
<1>1. CASE UNCHANGED vars
  BY <1>1 DEF vars, queues, maps, TypeInv, TypeOK, Hands
<1> QED
  BY <1>1, CallerType, WriterType, ReaderType, CheckerType DEF Next

-----------------------------------------------------------------------------
(* New commands and commands in use.                                       *)

WriterUses(w) == IF w.pc \in {"history", "write"} THEN {w.cmd} ELSE {}
WriterHas(w)  == IF w.pc = "register" THEN {w.cmd} ELSE {}

\* a step that takes no command on and gives none up: who waits, what is
\* queued and registered stays, nobody holds another command than before
Calm ==
    /\ UNCHANGED <<call, chinput, cmdRegReadMap, cmdReverseRegReadMap>>
    /\ \A o \in Objs : cmds'[o].want = cmds[o].want /\ cmds'[o].completed = cmds[o].completed
    /\ cmdHistory' \cup checker'.left = cmdHistory \cup checker.left
    /\ WriterHas(writer') = WriterHas(writer)
    /\ writer.pc = "register" => writer' = writer
    /\ WriterUses(writer') \subseteq WriterUses(writer)
    /\ writer.pc = "history" => writer' = writer
    /\ reader'.cmd \in {reader.cmd, None} \cup cmdReverseRegReadMap
    /\ reader.pc = "unreg" => reader'.pc = "unreg" /\ reader'.cmd = reader.cmd

\* such a step keeps the invariant
LEMMA CalmKeeps ==
    ASSUME IInv, TypeInv', Calm
    PROVE  IInv'
<1>1. New' = New
  BY DEF Calm, New, WriterHas
<1>2. Used' \subseteq Used
  BY DEF Calm, Used, WriterUses
<1>3. /\ cmdReverseRegReadMap \subseteq Objs
      /\ (writer.pc = "register" => writer.cmd \in Objs)
  BY DEF IInv, TypeInv, TypeOK, Hands
<1>4. NewInv'
  <2>1. New' \cap Used' = {}
    BY <1>1, <1>2 DEF IInv, NewInv
  <2>2. writer'.pc = "register" => writer' = writer
    BY DEF Calm, WriterHas
  <2>3. writer'.pc = "register" => /\ writer'.cmd \notin ToSet(chinput)
                                   /\ writer'.left = cmds'[writer'.cmd].want
    BY <1>3, <2>2 DEF Calm, IInv, NewInv
  <2> QED
    BY <2>1, <2>3 DEF Calm, IInv, NewInv
<1>5. WaitInv'
  BY <1>1 DEF Calm, IInv, WaitInv, Waiting
<1>6. MapsAgree'
  <2>1. \A p \in Payload : {o \in cmdReverseRegReadMap : p \in cmds'[o].want}
                            = {o \in cmdReverseRegReadMap : p \in cmds[o].want}
    <3>1. \A o \in cmdReverseRegReadMap : cmds'[o].want = cmds[o].want
      BY <1>3 DEF Calm
    <3> QED
      BY <3>1
  <2> QED
    BY <2>1 DEF Calm, IInv, MapsAgree
<1>7. CallerNotForgotten'
  BY <1>5 DEF Calm, IInv, CallerNotForgotten, WaitInv, Waiting
<1> QED
  BY <1>4, <1>5, <1>6, <1>7 DEF IInv

\* which steps are calm
LEMMA CalmSteps ==
    ASSUME IInv,
           \/ ReqestHitResult \/ WriterPoll \/ WriterWrite \/ WriterHit \/ asicRead
           \/ ReaderTop \/ ReaderTake \/ ReaderLookup \/ ReaderCredit
           \/ CheckerScan \/ (\E o \in Objs : Age(o)) \/ Quieten \/ UNCHANGED vars
    PROVE  Calm
<1> USE DEF Calm, WriterHas, WriterUses, queues, maps
<1>t. /\ cmds \in [Objs -> asicCmd]
      /\ writer \in [pc : {"poll", "select", "register", "history", "write", "hit"},
                     cmd : Objs \cup {None}, left : SUBSET Payload]
      /\ reader \in [pc : {"top", "select", "lookup", "credit", "unhist", "unreg", "stuck"},
                     cmd : Objs \cup {None}, payload : Payload \cup {Hit}]
  BY DEF IInv, TypeInv, TypeOK
<1>r. \A o \in Objs : cmds[o] \in asicCmd
  BY <1>t
<1>1. CASE ReqestHitResult \/ asicRead \/ Quieten \/ UNCHANGED vars
  BY <1>1 DEF ReqestHitResult, asicRead, Quieten, vars
<1>2. CASE WriterPoll
  <2>1. writer'.pc \in {"hit", "select"} /\ writer.pc = "poll"
    <3>1. CASE chinput0 # <<>>
      <4>1. Head(chinput0) \in {Hit}
        BY <3>1, TakeHead DEF IInv, TypeInv, TypeOK
      <4> QED
        BY <1>2, <3>1, <4>1 DEF WriterPoll, Dispatch
    <3>2. CASE chinput0 = <<>>
      BY <1>2, <1>t, <3>2 DEF WriterPoll
    <3> QED
      BY <3>1, <3>2
  <2> QED
    BY <1>2, <2>1 DEF WriterPoll
<1>3. CASE WriterWrite \/ WriterHit
  <2>1. \/ writer' = [pc |-> "poll", cmd |-> None, left |-> {}]
        \/ writer' = [writer EXCEPT !.pc = "poll"]
        \/ writer.pc = "write" /\ \E p \in writer.left :
              writer' = [writer EXCEPT !.left = @ \ {p}]
    BY <1>3 DEF WriterWrite, WriterHit
  <2>2. writer.pc \in {"write", "hit"} /\ writer'.pc \in {"poll", "write"}
        /\ (writer'.pc = "write" => writer'.cmd = writer.cmd /\ writer.pc = "write")
    BY <1>3, <1>t, <2>1 DEF WriterWrite, WriterHit
  <2> QED
    BY <1>3, <2>2 DEF WriterWrite, WriterHit
<1>4. CASE ReaderTop
  <2>1. \A o \in Objs : cmds'[o].want = cmds[o].want /\ cmds'[o].completed = cmds[o].completed
    <3>1. PICK blackout \in BOOLEAN :
            cmds' = [o \in Objs |->
                       IF o \in cmdHistory
                       THEN [cmds[o] EXCEPT !.seen = TRUE,
                               !.dark = IF blackout THEN cmds[o].seen ELSE @]
                       ELSE cmds[o]]
      BY <1>4 DEF ReaderTop
    <3> QED
      BY <1>r, <3>1 DEF asicCmd
  <2> QED
    BY <1>4, <1>t, <2>1 DEF ReaderTop
<1>5. CASE ReaderTake
  BY <1>5 DEF ReaderTake
<1>6. CASE ReaderLookup
  <2> DEFINE cs == cmdRegReadMap[reader.payload]
  <2>1. reader.payload \in Payload /\ cs \in Seq(Objs)
    BY <1>6 DEF ReaderLookup, IInv, TypeInv, TypeOK, Hands
  <2>2. reader'.cmd \in {None} \cup cmdReverseRegReadMap
    <3>1. CASE cs = <<>>
      BY <1>6, <3>1 DEF ReaderLookup, NextAnswer
    <3>2. CASE cs # <<>>
      <4>1. Head(cs) \in cmdReverseRegReadMap
        BY <2>1, <3>2, TakeHead DEF IInv, MapsAgree
      <4> QED
        BY <1>6, <1>t, <3>2, <4>1 DEF ReaderLookup
    <3> QED
      BY <3>1, <3>2
  <2> QED
    BY <1>6, <2>2 DEF ReaderLookup
<1>7. CASE ReaderCredit
  <2>1. \A o \in Objs : cmds'[o].want = cmds[o].want /\ cmds'[o].completed = cmds[o].completed
    BY <1>7, <1>t, <1>r DEF ReaderCredit, asicCmd
  <2>2. reader'.cmd \in {reader.cmd, None} /\ reader.pc = "credit"
    BY <1>7, <1>t DEF ReaderCredit, NextAnswer
  <2> QED
    BY <1>7, <2>1, <2>2 DEF ReaderCredit
<1>8. CASE CheckerScan
  <2>1. \A o \in Objs : cmds'[o].want = cmds[o].want /\ cmds'[o].completed = cmds[o].completed
    BY <1>8, <1>r DEF CheckerScan, asicCmd
  <2>2. cmdHistory' \cup checker'.left = cmdHistory \cup checker.left
    <3>1. checker.left = {}
      BY <1>8 DEF CheckerScan, IInv, TypeInv, Hands
    <3> QED
      BY <1>8, <3>1 DEF CheckerScan
  <2> QED
    BY <1>8, <2>1, <2>2 DEF CheckerScan
<1>9. ASSUME NEW x \in Objs, Age(x)
      PROVE  Calm
  <2>1. \A o \in Objs : cmds'[o].want = cmds[o].want /\ cmds'[o].completed = cmds[o].completed
    BY <1>9, <1>t, <1>r DEF Age, asicCmd
  <2> QED
    BY <1>9, <2>1 DEF Age
<1> QED
  BY <1>1, <1>2, <1>3, <1>4, <1>5, <1>6, <1>7, <1>8, <1>9

\* a call takes an object nobody refers to, and waits for it
LEMMA ReadKeeps ==
    ASSUME IInv, TypeInv', NEW c \in Callers, NEW want \in Requests, NonBlockingRead(c, want)
    PROVE  IInv'
<1>1. PICK o \in Objs \ Referenced :
          /\ cmds' = [cmds EXCEPT ![o] = newAsicCmd(want)]
          /\ chinput' = Append(chinput, o)
          /\ call' = [call EXCEPT ![c].cmd = o]
  BY DEF NonBlockingRead
<1>2. /\ UNCHANGED <<chinput0, writer, reader, cmdRegReadMap, cmdReverseRegReadMap, cmdHistory,
                     checker>>
      /\ call[c].cmd = None
  BY DEF NonBlockingRead, maps
<1>3. /\ o \notin ToSet(chinput) /\ o # writer.cmd /\ o # reader.cmd
      /\ o \notin cmdReverseRegReadMap /\ o \notin cmdHistory /\ o \notin checker.left
      /\ Waiting(o) = {} /\ o # None
  BY <1>1, NoneAssumption DEF Referenced, Waiting
<1>4. /\ cmds \in [Objs -> asicCmd] /\ chinput \in Seq(Objs \cup {None})
      /\ call \in [Callers -> [cmd : Objs \cup {None}, val : {0, 1}, whole : BOOLEAN]]
      /\ cmdReverseRegReadMap \subseteq Objs
      /\ (writer.pc = "register" => writer.cmd \in Objs)
  BY DEF IInv, TypeInv, TypeOK, Hands
<1>5. ToSet(chinput') = ToSet(chinput) \cup {o}
  BY <1>1, <1>4, AppendOnce
<1>6. New' = New \cup {o} /\ Used' = Used
  BY <1>2, <1>3, <1>5 DEF New, Used
<1>7. \A x \in Objs : x # o => cmds'[x] = cmds[x]
  BY <1>1, <1>4
<1>8. call'[c].cmd = o /\ \A d \in Callers : d # c => call'[d] = call[d]
  BY <1>1, <1>4
<1>9. /\ Waiting(o)' = {c}
      /\ \A x \in Objs : x # o => Waiting(x)' = Waiting(x)
  BY <1>2, <1>3, <1>8, NoneAssumption DEF Waiting
<1>10. NewInv'
  <2>1. (New \cap Used)' = {}
    <3>1. o \notin Used
      BY <1>3 DEF Used
    <3> QED
      BY <1>6, <3>1 DEF IInv, NewInv
  <2>2. \A i, j \in DOMAIN chinput' :
            chinput'[i] = chinput'[j] /\ chinput'[i] # None => i = j
    <3>1. /\ DOMAIN chinput = 1 .. Len(chinput) /\ Len(chinput) \in Nat
          /\ DOMAIN chinput' = 1 .. (Len(chinput) + 1)
          /\ \A i \in 1 .. Len(chinput) : chinput'[i] = chinput[i]
          /\ chinput'[Len(chinput) + 1] = o
      BY <1>1, <1>4
    <3>2. \A i \in 1 .. Len(chinput) : chinput[i] # o
      BY <1>3, <3>1 DEF ToSet
    <3> QED
      BY <3>1, <3>2 DEF IInv, NewInv
  <2>3. writer'.pc = "register" => /\ writer'.cmd \notin ToSet(chinput')
                                   /\ writer'.left = cmds'[writer'.cmd].want
    BY <1>2, <1>3, <1>4, <1>5, <1>7 DEF IInv, NewInv
  <2> QED
    BY <2>1, <2>2, <2>3 DEF NewInv
<1>11. WaitInv'
  <2>1. ASSUME NEW x \in (New \cup cmdReverseRegReadMap)' PROVE Waiting(x)' # {}
    <3>1. CASE x = o
      BY <1>9, <3>1
    <3>2. CASE x # o
      <4>1. x \in New \cup cmdReverseRegReadMap
        BY <1>2, <1>6, <3>2
      <4>2. x \in Objs
        <5>1. ToSet(chinput) \subseteq Objs \cup {None}
          BY <1>4 DEF ToSet
        <5> QED
          BY <1>4, <4>1, <5>1 DEF New
      <4> QED
        BY <1>9, <3>2, <4>1, <4>2 DEF IInv, WaitInv
    <3> QED
      BY <3>1, <3>2
  <2>2. ASSUME NEW x \in Objs, cmds'[x].completed PROVE Waiting(x)' = {}
    <3>1. x # o
      BY <1>1, <1>4, <2>2 DEF newAsicCmd
    <3> QED
      BY <1>7, <1>9, <2>2, <3>1 DEF IInv, WaitInv
  <2> QED
    BY <2>1, <2>2 DEF WaitInv
<1>12. MapsAgree'
  <2>1. \A p \in Payload : {x \in cmdReverseRegReadMap : p \in cmds'[x].want}
                            = {x \in cmdReverseRegReadMap : p \in cmds[x].want}
    <3>1. \A x \in cmdReverseRegReadMap : cmds'[x].want = cmds[x].want
      BY <1>3, <1>4, <1>7
    <3> QED
      BY <3>1
  <2> QED
    BY <1>2, <2>1 DEF IInv, MapsAgree
<1>13. CallerNotForgotten'
  <2>1. ASSUME NEW d \in Callers, call'[d].cmd # None, d # c
        PROVE  call'[d].cmd = call[d].cmd /\ call[d].cmd # None
    BY <1>8, <2>1
  <2>2. \A x \in cmdReverseRegReadMap' : Waiting(x)' # {}
    BY <1>11 DEF WaitInv
  <2> QED
    BY <1>2, <1>5, <1>8, <2>1, <2>2 DEF IInv, CallerNotForgotten
<1> QED
  BY <1>10, <1>11, <1>12, <1>13 DEF IInv

\* a write stands in the queue as None, which nobody waits for
LEMMA WriteKeeps ==
    ASSUME IInv, TypeInv', NonBlockingWrite
    PROVE  IInv'
<1>1. /\ chinput' = Append(chinput, None)
      /\ UNCHANGED <<cmds, call, writer, reader, cmdRegReadMap, cmdReverseRegReadMap, cmdHistory,
                     checker>>
  BY DEF NonBlockingWrite, maps
<1>2. chinput \in Seq(Objs \cup {None}) /\ (writer.pc = "register" => writer.cmd \in Objs)
  BY DEF IInv, TypeInv, TypeOK, Hands
<1>3. ToSet(chinput') = ToSet(chinput) \cup {None}
  BY <1>1, <1>2, AppendOnce
<1>4. New' = New /\ Used' = Used
  BY <1>1, <1>3 DEF New, Used
<1>5. NewInv'
  <2>1. \A i, j \in DOMAIN chinput' :
            chinput'[i] = chinput'[j] /\ chinput'[i] # None => i = j
    <3>1. /\ DOMAIN chinput = 1 .. Len(chinput) /\ Len(chinput) \in Nat
          /\ DOMAIN chinput' = 1 .. (Len(chinput) + 1)
          /\ \A i \in 1 .. Len(chinput) : chinput'[i] = chinput[i]
          /\ chinput'[Len(chinput) + 1] = None
      BY <1>1, <1>2
    <3> QED
      BY <3>1 DEF IInv, NewInv
  <2>2. writer'.pc = "register" => /\ writer'.cmd \notin ToSet(chinput')
                                   /\ writer'.left = cmds'[writer'.cmd].want
    BY <1>1, <1>2, <1>3, NoneAssumption DEF IInv, NewInv
  <2> QED
    BY <1>4, <2>1, <2>2 DEF IInv, NewInv
<1>6. WaitInv' /\ MapsAgree'
  BY <1>1, <1>4 DEF IInv, WaitInv, Waiting, MapsAgree
<1>7. CallerNotForgotten'
  BY <1>1, <1>3, <1>6 DEF IInv, CallerNotForgotten, WaitInv, Waiting
<1> QED
  BY <1>5, <1>6, <1>7 DEF IInv

\* cmdwriter takes the oldest command of the queue into its hands
LEMMA SelectKeeps ==
    ASSUME IInv, TypeInv', WriterSelect
    PROVE  IInv'
<1>1. /\ UNCHANGED <<cmds, call, reader, cmdRegReadMap, cmdReverseRegReadMap, cmdHistory, checker>>
      /\ writer.pc = "select"
  BY DEF WriterSelect, maps
<1>2. chinput \in Seq(Objs \cup {None}) /\ chinput0 \in Seq({Hit})
  BY DEF IInv, TypeInv, TypeOK
<1>3. CASE chinput0 # <<>> /\ Dispatch(Head(chinput0)) /\ UNCHANGED chinput
  <2>1. Head(chinput0) \in {Hit}
    BY <1>2, <1>3, TakeHead
  <2>2. writer'.pc = "hit"
    BY <1>3, <2>1 DEF Dispatch
  <2>3. New' = New /\ Used' = Used
    BY <1>1, <1>3, <2>2 DEF New, Used
  <2>4. NewInv' /\ WaitInv' /\ MapsAgree'
    BY <1>1, <1>3, <2>2, <2>3 DEF IInv, NewInv, WaitInv, Waiting, MapsAgree
  <2>5. CallerNotForgotten'
    BY <1>1, <1>3, <2>2, <2>4 DEF IInv, CallerNotForgotten, WaitInv, Waiting
  <2> QED
    BY <2>4, <2>5 DEF IInv
<1>4. CASE chinput # <<>> /\ Dispatch(Head(chinput)) /\ chinput' = Tail(chinput)
  <2> DEFINE o == Head(chinput)
  <2>1. /\ o \in Objs \cup {None}
        /\ ToSet(chinput) = ToSet(chinput') \cup {o}
        /\ \A i \in DOMAIN chinput' : /\ i + 1 \in DOMAIN chinput /\ i + 1 # 1
                                      /\ chinput'[i] = chinput[i + 1]
        /\ 1 \in DOMAIN chinput /\ o = chinput[1]
        /\ DOMAIN chinput' \subseteq Nat
    <3>1. DOMAIN Tail(chinput) \subseteq Nat
      BY <1>2, <1>4
    <3> QED
      BY <1>2, <1>4, <3>1, TakeHead
  <2>2. /\ (writer'.pc = "register" => writer'.cmd = o /\ writer'.left = cmds[o].want /\ o \in Objs)
        /\ writer'.pc \in {"poll", "hit", "register"}
        /\ (o \in Objs => writer'.pc = "register")
    BY <1>4, <2>1, DispatchType DEF IInv
  <2> HIDE DEF o
  <2>3. o # None => o \notin ToSet(chinput')
    BY <2>1 DEF IInv, NewInv, ToSet
  <2>4. New' = New
    <3>1. CASE o \in Objs
      BY <1>1, <2>1, <2>2, <3>1, NoneAssumption DEF New
    <3>2. CASE o = None
      BY <1>1, <2>1, <2>2, <3>2, NoneAssumption DEF New
    <3> QED
      BY <2>1, <3>1, <3>2
  <2>5. Used' \subseteq Used
    BY <1>1, <2>2 DEF Used
  <2>6. NewInv'
    <3>1. \A i, j \in DOMAIN chinput' :
            chinput'[i] = chinput'[j] /\ chinput'[i] # None => i = j
      <4>1. ASSUME NEW i \in DOMAIN chinput', NEW j \in DOMAIN chinput',
                   chinput'[i] = chinput'[j], chinput'[i] # None
            PROVE  i = j
        <5>1. i + 1 = j + 1
          BY <2>1, <4>1 DEF IInv, NewInv
        <5> QED
          BY <2>1, <5>1
      <4> QED
        BY <4>1
    <3>2. writer'.pc = "register" => /\ writer'.cmd \notin ToSet(chinput')
                                     /\ writer'.left = cmds'[writer'.cmd].want
      BY <1>1, <2>2, <2>3, NoneAssumption
    <3> QED
      BY <2>4, <2>5, <3>1, <3>2 DEF IInv, NewInv
  <2>7. WaitInv' /\ MapsAgree'
    BY <1>1, <2>4 DEF IInv, WaitInv, Waiting, MapsAgree
  <2>8. CallerNotForgotten'
    <3>1. ASSUME NEW c \in Callers, call'[c].cmd # None, call[c].cmd \in ToSet(chinput)
          PROVE  \/ call'[c].cmd \in ToSet(chinput')
                 \/ writer'.cmd = call'[c].cmd /\ writer'.pc = "register"
      BY <1>1, <2>1, <2>2, <3>1
    <3> QED
      BY <1>1, <2>7, <3>1 DEF IInv, CallerNotForgotten, WaitInv, Waiting
  <2> QED
    BY <2>6, <2>7, <2>8 DEF IInv
<1> QED
  BY <1>3, <1>4 DEF WriterSelect

\* cmdwriter registers the command in its hands in both maps
LEMMA RegisterKeeps ==
    ASSUME IInv, TypeInv', WriterRegister
    PROVE  IInv'
<1> DEFINE o == writer.cmd
<1>1. /\ UNCHANGED <<cmds, call, chinput, reader, cmdHistory, checker>>
      /\ writer.pc = "register"
      /\ writer' = [writer EXCEPT !.pc = "history"]
      /\ cmdReverseRegReadMap' = cmdReverseRegReadMap \cup {o}
      /\ cmdRegReadMap' = [p \in Payload |-> IF p \in writer.left
                                             THEN Append(cmdRegReadMap[p], o)
                                             ELSE cmdRegReadMap[p]]
  BY DEF WriterRegister, queues
<1>2. /\ writer \in [pc : {"poll", "select", "register", "history", "write", "hit"},
                     cmd : Objs \cup {None}, left : SUBSET Payload]
      /\ o \in Objs /\ cmdRegReadMap \in [Payload -> Seq(Objs)]
  BY <1>1 DEF IInv, TypeInv, TypeOK, Hands
<1>3. writer'.pc = "history" /\ writer'.cmd = o
  BY <1>1, <1>2
<1>4. o \notin ToSet(chinput) /\ writer.left = cmds[o].want
  BY <1>1 DEF IInv, NewInv
<1>5. o \in New
  BY <1>1 DEF New
<1>6. o \notin cmdReverseRegReadMap
  BY <1>5 DEF IInv, NewInv, Used
<1> HIDE DEF o
<1>7. New' = New \ {o} /\ Used' = Used \cup {o}
  BY <1>1, <1>3, <1>4 DEF New, Used, o
<1>8. NewInv'
  BY <1>1, <1>3, <1>7 DEF IInv, NewInv
<1>9. WaitInv'
  <2>1. (New \cup cmdReverseRegReadMap)' = New \cup cmdReverseRegReadMap
    BY <1>1, <1>5, <1>7
  <2> QED
    BY <1>1, <2>1 DEF IInv, WaitInv, Waiting
<1>10. MapsAgree'
  <2>1. ASSUME NEW p \in Payload, p \in writer.left
        PROVE  /\ ToSet(cmdRegReadMap'[p]) = {x \in cmdReverseRegReadMap' : p \in cmds'[x].want}
               /\ \A i, j \in DOMAIN cmdRegReadMap'[p] :
                     cmdRegReadMap'[p][i] = cmdRegReadMap'[p][j] => i = j
    <3> DEFINE q == cmdRegReadMap[p]
    <3>1. q \in Seq(Objs) /\ cmdRegReadMap'[p] = Append(q, o)
      BY <1>1, <1>2, <2>1
    <3>2. /\ ToSet(q) = {x \in cmdReverseRegReadMap : p \in cmds[x].want}
          /\ \A i, j \in DOMAIN q : q[i] = q[j] => i = j
      BY DEF IInv, MapsAgree
    <3>3. o \notin ToSet(q) /\ p \in cmds[o].want
      BY <1>4, <1>6, <2>1, <3>2
    <3> HIDE DEF q
    <3>4. /\ ToSet(Append(q, o)) = ToSet(q) \cup {o}
          /\ \A i, j \in DOMAIN Append(q, o) : Append(q, o)[i] = Append(q, o)[j] => i = j
      BY <1>2, <3>1, <3>2, <3>3, AppendOnce
    <3>5. {x \in cmdReverseRegReadMap' : p \in cmds'[x].want}
            = {x \in cmdReverseRegReadMap : p \in cmds[x].want} \cup {o}
      BY <1>1, <3>3
    <3> QED
      BY <3>1, <3>2, <3>4, <3>5
  <2>2. ASSUME NEW p \in Payload, p \notin writer.left
        PROVE  /\ ToSet(cmdRegReadMap'[p]) = {x \in cmdReverseRegReadMap' : p \in cmds'[x].want}
               /\ \A i, j \in DOMAIN cmdRegReadMap'[p] :
                     cmdRegReadMap'[p][i] = cmdRegReadMap'[p][j] => i = j
    <3>1. cmdRegReadMap'[p] = cmdRegReadMap[p]
      BY <1>1, <2>2
    <3>2. p \notin cmds[o].want
      BY <1>4, <2>2
    <3>3. {x \in cmdReverseRegReadMap' : p \in cmds'[x].want}
            = {x \in cmdReverseRegReadMap : p \in cmds[x].want}
      BY <1>1, <3>2
    <3> QED
      BY <3>1, <3>3 DEF IInv, MapsAgree
  <2> QED
    BY <2>1, <2>2 DEF MapsAgree
<1>11. CallerNotForgotten'
  <2>1. \A x \in cmdReverseRegReadMap' : Waiting(x)' # {}
    BY <1>9 DEF WaitInv
  <2>2. ASSUME NEW c \in Callers, call'[c].cmd # None, call'[c].cmd = o
        PROVE  /\ o \in cmdReverseRegReadMap'
               /\ writer'.cmd = o /\ writer'.pc = "history"
    BY <1>1, <1>3
  <2> QED
    BY <1>1, <1>3, <2>1, <2>2 DEF IInv, CallerNotForgotten, o
<1> QED
  BY <1>8, <1>9, <1>10, <1>11 DEF IInv

\* cmdwriter shows the command to the timeout checker before it writes
LEMMA HistoryKeeps ==
    ASSUME IInv, TypeInv', WriterHistory
    PROVE  IInv'
<1> DEFINE o == writer.cmd
<1>1. /\ UNCHANGED <<call, chinput, reader, cmdRegReadMap, cmdReverseRegReadMap, checker>>
      /\ writer.pc = "history"
      /\ writer' = [writer EXCEPT !.pc = "write"]
      /\ cmdHistory' = cmdHistory \cup {o}
      /\ cmds' = [cmds EXCEPT ![o] = [@ EXCEPT !.age = Fresh, !.seen = FALSE, !.dark = FALSE]]
  BY DEF WriterHistory, queues, maps
<1>2. /\ writer \in [pc : {"poll", "select", "register", "history", "write", "hit"},
                     cmd : Objs \cup {None}, left : SUBSET Payload]
      /\ o \in Objs /\ cmds \in [Objs -> asicCmd] /\ cmdReverseRegReadMap \subseteq Objs
  BY <1>1 DEF IInv, TypeInv, TypeOK, Hands
<1>3. writer'.pc = "write" /\ writer'.cmd = o
  BY <1>1, <1>2
<1>4. \A x \in Objs : cmds'[x].want = cmds[x].want /\ cmds'[x].completed = cmds[x].completed
  <2>1. cmds[o] \in asicCmd
    BY <1>2
  <2> QED
    BY <1>1, <1>2, <2>1 DEF asicCmd
<1> HIDE DEF o
<1>5. New' = New /\ Used' = Used
  BY <1>1, <1>3 DEF New, Used, o
<1>6. NewInv'
  BY <1>1, <1>3, <1>5 DEF IInv, NewInv
<1>7. WaitInv'
  BY <1>1, <1>4, <1>5 DEF IInv, WaitInv, Waiting
<1>8. MapsAgree'
  <2>1. \A p \in Payload : {x \in cmdReverseRegReadMap : p \in cmds'[x].want}
                            = {x \in cmdReverseRegReadMap : p \in cmds[x].want}
    <3>1. \A x \in cmdReverseRegReadMap : cmds'[x].want = cmds[x].want
      BY <1>2, <1>4
    <3> QED
      BY <3>1
  <2> QED
    BY <1>1, <2>1 DEF IInv, MapsAgree
<1>9. CallerNotForgotten'
  BY <1>1, <1>3, <1>7 DEF IInv, CallerNotForgotten, WaitInv, Waiting, o
<1> QED
  BY <1>6, <1>7, <1>8, <1>9 DEF IInv

\* cmdreader takes the command it is about to release from the history
LEMMA UnhistKeeps ==
    ASSUME IInv, TypeInv', ReaderUnhist
    PROVE  IInv'
<1>1. /\ UNCHANGED <<cmds, call, chinput, writer, cmdRegReadMap, cmdReverseRegReadMap, checker>>
      /\ reader.pc = "unhist"
      /\ reader' = [reader EXCEPT !.pc = "unreg"]
      /\ cmdHistory' = cmdHistory \ {reader.cmd}
  BY DEF ReaderUnhist, queues, maps
<1>2. reader \in [pc : {"top", "select", "lookup", "credit", "unhist", "unreg", "stuck"},
                  cmd : Objs \cup {None}, payload : Payload \cup {Hit}]
  BY DEF IInv, TypeInv, TypeOK
<1>3. reader'.pc = "unreg" /\ reader'.cmd = reader.cmd
  BY <1>1, <1>2
<1>4. New' = New /\ Used' \subseteq Used
  BY <1>1, <1>3 DEF New, Used
<1>5. NewInv' /\ WaitInv' /\ MapsAgree'
  BY <1>1, <1>4 DEF IInv, NewInv, WaitInv, Waiting, MapsAgree
<1>6. CallerNotForgotten'
  BY <1>1, <1>3, <1>5 DEF IInv, CallerNotForgotten, WaitInv, Waiting
<1> QED
  BY <1>5, <1>6 DEF IInv

\* a command in use is taken from both maps, and its caller is answered
LEMMA ReleaseKeeps ==
    ASSUME IInv, TypeInv', NEW o \in Objs, NEW cmd \in asicCmd, NEW val \in {0, 1},
           cmd.want = cmds[o].want, cmd.completed = cmds[o].completed,
           o \in Used, Unregister(o), releaseCommand(o, cmd, val),
           UNCHANGED <<chinput, writer, cmdHistory>>,
           reader'.cmd \in {reader.cmd, None},
           checker'.left \subseteq checker.left, checker.left \subseteq checker'.left \cup {o},
           reader.pc = "unreg" => reader.cmd = o \/ reader' = reader
    PROVE  IInv'
<1>1. /\ cmds \in [Objs -> asicCmd] /\ cmdRegReadMap \in [Payload -> Seq(Objs)]
      /\ call \in [Callers -> [cmd : Objs \cup {None}, val : {0, 1}, whole : BOOLEAN]]
      /\ cmdReverseRegReadMap \subseteq Objs
      /\ (writer.pc = "register" => writer.cmd \in Objs)
  BY DEF IInv, TypeInv, TypeOK, Hands
<1>2. o \notin New
  BY DEF IInv, NewInv
<1>3. /\ cmds'[o].want = cmds[o].want
      /\ \A x \in Objs : x # o => cmds'[x] = cmds[x]
  <2>1. [cmd EXCEPT !.completed = @ \/ (cmd.responded /\ cmd.finished)].want = cmd.want
    BY DEF asicCmd
  <2> QED
    BY <1>1, <2>1 DEF releaseCommand
<1>4. ASSUME NEW c \in Callers
      PROVE  call'[c].cmd = IF call[c].cmd = o THEN None ELSE call[c].cmd
  <2>1. CASE call[c].cmd = o
    <3>1. ~cmd.completed
      BY <2>1 DEF IInv, WaitInv, Waiting
    <3>2. call'[c] = [cmd |-> None, val |-> val, whole |-> cmd.data = cmd.want]
      BY <2>1, <3>1 DEF releaseCommand
    <3> QED
      BY <2>1, <3>2
  <2>2. CASE call[c].cmd # o
    BY <2>2 DEF releaseCommand
  <2> QED
    BY <2>1, <2>2
<1>5. Waiting(o)' = {} /\ \A x \in Objs : x # o => Waiting(x)' = Waiting(x)
  BY <1>4, NoneAssumption DEF Waiting
<1>6. New' = New /\ Used' \subseteq Used /\ cmdReverseRegReadMap' = cmdReverseRegReadMap \ {o}
  BY DEF New, Used, Unregister
<1>7. NewInv'
  <2>1. writer'.pc = "register" => writer'.left = cmds'[writer'.cmd].want
    BY <1>1, <1>3 DEF IInv, NewInv
  <2> QED
    BY <1>6, <2>1 DEF IInv, NewInv
<1>8. WaitInv'
  <2>1. ASSUME NEW x \in (New \cup cmdReverseRegReadMap)' PROVE Waiting(x)' # {}
    <3>1. x \in New \cup cmdReverseRegReadMap /\ x # o
      BY <1>2, <1>6
    <3>2. x \in Objs
      <4>1. ToSet(chinput) \subseteq Objs \cup {None}
        BY DEF IInv, TypeInv, TypeOK, ToSet
      <4> QED
        BY <1>1, <3>1, <4>1 DEF New
    <3> QED
      BY <1>5, <3>1, <3>2 DEF IInv, WaitInv
  <2>2. ASSUME NEW x \in Objs, cmds'[x].completed PROVE Waiting(x)' = {}
    BY <1>3, <1>5, <2>2 DEF IInv, WaitInv
  <2> QED
    BY <2>1, <2>2 DEF WaitInv
<1>9. MapsAgree'
  <2>1. \A x \in cmdReverseRegReadMap : cmds'[x].want = cmds[x].want
    BY <1>1, <1>3
  <2>2. ASSUME NEW p \in Payload, o \in cmdReverseRegReadMap, p \in cmds[o].want
        PROVE  /\ ToSet(cmdRegReadMap'[p]) = {x \in cmdReverseRegReadMap' : p \in cmds'[x].want}
               /\ \A i, j \in DOMAIN cmdRegReadMap'[p] :
                     cmdRegReadMap'[p][i] = cmdRegReadMap'[p][j] => i = j
    <3> DEFINE q == cmdRegReadMap[p]
    <3>1. q \in Seq(Objs) /\ cmdRegReadMap'[p] = RemoveFirst(q, o)
      BY <1>1, <2>2 DEF Unregister
    <3>2. /\ ToSet(q) = {x \in cmdReverseRegReadMap : p \in cmds[x].want}
          /\ \A i, j \in DOMAIN q : q[i] = q[j] => i = j
      BY DEF IInv, MapsAgree
    <3> HIDE DEF q
    <3>3. /\ ToSet(RemoveFirst(q, o)) = ToSet(q) \ {o}
          /\ \A i, j \in DOMAIN RemoveFirst(q, o) :
                RemoveFirst(q, o)[i] = RemoveFirst(q, o)[j] => i = j
      BY <3>1, <3>2, RemoveOnce
    <3> QED
      BY <1>6, <2>1, <3>1, <3>2, <3>3
  <2>3. ASSUME NEW p \in Payload, ~(o \in cmdReverseRegReadMap /\ p \in cmds[o].want)
        PROVE  /\ ToSet(cmdRegReadMap'[p]) = {x \in cmdReverseRegReadMap' : p \in cmds'[x].want}
               /\ \A i, j \in DOMAIN cmdRegReadMap'[p] :
                     cmdRegReadMap'[p][i] = cmdRegReadMap'[p][j] => i = j
    <3>1. cmdRegReadMap'[p] = cmdRegReadMap[p]
      BY <2>3 DEF Unregister
    <3>2. {x \in cmdReverseRegReadMap' : p \in cmds'[x].want}
            = {x \in cmdReverseRegReadMap : p \in cmds[x].want}
      BY <1>6, <2>1, <2>3
    <3> QED
      BY <3>1, <3>2 DEF IInv, MapsAgree
  <2> QED
    BY <2>2, <2>3 DEF MapsAgree
<1>10. CallerNotForgotten'
  <2>1. \A x \in cmdReverseRegReadMap' : Waiting(x)' # {}
    BY <1>8 DEF WaitInv
  <2>2. ASSUME NEW c \in Callers, call'[c].cmd # None
        PROVE  call'[c].cmd = call[c].cmd /\ call[c].cmd # o /\ call[c].cmd # None
    BY <1>4, <2>2
  <2> QED
    BY <1>6, <2>1, <2>2 DEF IInv, CallerNotForgotten
<1> QED
  BY <1>7, <1>8, <1>9, <1>10 DEF IInv

\* every step keeps the invariant
LEMMA NextIInv == IInv /\ [Next]_vars => IInv'
<1> SUFFICES ASSUME IInv, [Next]_vars PROVE IInv'
  OBVIOUS
<1>t. TypeInv'
  BY NextType DEF IInv
<1>1. CASE \/ ReqestHitResult \/ WriterPoll \/ WriterWrite \/ WriterHit \/ asicRead
           \/ ReaderTop \/ ReaderTake \/ ReaderLookup \/ ReaderCredit
           \/ CheckerScan \/ (\E o \in Objs : Age(o)) \/ Quieten \/ UNCHANGED vars
  BY <1>1, <1>t, CalmSteps, CalmKeeps
<1>2. ASSUME NEW c \in Callers, NEW want \in Requests, NonBlockingRead(c, want)
      PROVE  IInv'
  BY <1>2, <1>t, ReadKeeps
<1>3. CASE NonBlockingWrite
  BY <1>3, <1>t, WriteKeeps
<1>4. CASE WriterSelect \/ WriterRegister \/ WriterHistory
  BY <1>4, <1>t, SelectKeeps, RegisterKeeps, HistoryKeeps
<1>5. CASE ReaderUnhist
  BY <1>5, <1>t, UnhistKeeps
<1>6. CASE ReaderUnreg
  <2> DEFINE o == reader.cmd
  <2>1. /\ Unregister(o) /\ releaseCommand(o, cmds[o], 0)
        /\ UNCHANGED <<chinput, writer, cmdHistory, checker>>
        /\ reader.pc = "unreg"
        /\ (reader' = NextAnswer \/ reader' = [reader EXCEPT !.pc = "stuck"])
    BY <1>6 DEF ReaderUnreg, queues
  <2>2. /\ o \in Objs /\ cmds[o] \in asicCmd
        /\ reader \in [pc : {"top", "select", "lookup", "credit", "unhist", "unreg", "stuck"},
                       cmd : Objs \cup {None}, payload : Payload \cup {Hit}]
    BY <2>1 DEF IInv, TypeInv, TypeOK, Hands
  <2>3. o \in Used /\ reader'.cmd \in {o, None}
    BY <2>1, <2>2, NoneAssumption DEF Used, NextAnswer
  <2> QED
    BY <1>t, <2>1, <2>2, <2>3, ReleaseKeeps
<1>7. ASSUME NEW o \in Objs, CheckerExpire(o)
      PROVE  IInv'
  <2> DEFINE cmd == [cmds[o] EXCEPT !.finished = TRUE]
  <2>1. /\ Unregister(o) /\ releaseCommand(o, cmd, 1)
        /\ UNCHANGED <<chinput, writer, cmdHistory, reader>>
        /\ o \in checker.left
    BY <1>7 DEF CheckerExpire, queues
  <2>2. cmd \in asicCmd /\ cmd.want = cmds[o].want /\ cmd.completed = cmds[o].completed
    <3>1. cmds[o] \in asicCmd
      BY DEF IInv, TypeInv, TypeOK
    <3> QED
      BY <3>1 DEF asicCmd
  <2>3. o \in Used
    BY <2>1 DEF Used
  <2>4. checker'.left \subseteq checker.left /\ checker.left \subseteq checker'.left \cup {o}
    BY <1>7 DEF CheckerExpire
  <2> HIDE DEF cmd
  <2> QED
    BY <1>t, <2>1, <2>2, <2>3, <2>4, ReleaseKeeps
<1> QED
  BY <1>1, <1>2, <1>3, <1>4, <1>5, <1>6, <1>7 DEF Next, Writer, Reader, Checker

\* in every behaviour the invariant holds
LEMMA Invariance == Spec => []IInv
  BY InitIInv, NextIInv, PTL DEF Spec

-----------------------------------------------------------------------------
(* What the callers and the goroutines rely on.                            *)

\* the queues, the maps, the commands and the goroutines keep their types,
\* and every goroutine that works on a command holds one
THEOREM TypeCorrect == Spec => []TypeOK
<1>1. IInv => TypeOK
  BY DEF IInv, TypeInv
<1> QED
  BY <1>1, Invariance, PTL

\* cmdRegReadMap and cmdReverseRegReadMap say the same whoever removes a
\* command, however often, and whatever answers are lost
THEOREM MapsAlwaysAgree == Spec => []MapsAgree
<1>1. IInv => MapsAgree
  BY DEF IInv
<1> QED
  BY <1>1, Invariance, PTL

\* the command of every caller of NonBlockingRead is queued, in cmdwriter's
\* hands, or registered and watched; a registered command has its caller
THEOREM CallersNotForgotten == Spec => []CallerNotForgotten
<1>1. IInv => CallerNotForgotten
  BY DEF IInv
<1> QED
  BY <1>1, Invariance, PTL

-----------------------------------------------------------------------------
(* One send for each command.  What the timeout checker looks at is        *)
(* registered, hence waited for, or marked completed; and so is the        *)
(* command that cmdreader ends, unless the checker released it before      *)
(* cmdreader credited its first answer.                                    *)

Watched == cmdHistory \cup checker.left \cup (IF writer.pc = "history" THEN {writer.cmd} ELSE {})

SendInv ==
    /\ SentOnce
    /\ reader.pc = "stuck" => reader.cmd \in Objs
    /\ \A o \in Watched : o \in cmdReverseRegReadMap \/ cmds[o].completed
    /\ cmdHistory \cap checker.left = {}
    /\ writer.pc = "history" => writer.cmd \notin cmdHistory \cup checker.left
    /\ reader.pc \in {"unhist", "unreg"} =>
          /\ \/ reader.cmd \in cmdReverseRegReadMap
             \/ cmds[reader.cmd].completed
             \/ cmds[reader.cmd].stale
          /\ cmds[reader.cmd].responded /\ cmds[reader.cmd].finished

SameEnd(new, old) ==
    /\ new.completed = old.completed /\ new.stale = old.stale
    /\ new.responded = old.responded /\ new.finished = old.finished

\* steps that register and release nothing, and credit no answer
LEMMA SendSame ==
    ASSUME IInv, SendInv,
           cmdReverseRegReadMap' = cmdReverseRegReadMap,
           cmdHistory' \subseteq cmdHistory, checker' = checker,
           writer'.pc = "history" => writer' = writer,
           reader'.pc \in {"unhist", "unreg"} =>
               reader.pc \in {"unhist", "unreg"} /\ reader'.cmd = reader.cmd,
           reader'.pc = "stuck" => reader' = reader,
           \A x \in Objs : x \in Watched \cup {reader.cmd} => SameEnd(cmds'[x], cmds[x])
    PROVE  SendInv'
<1>1. Watched' \subseteq Watched
  BY DEF Watched
<1>2. Watched \subseteq Objs
  BY DEF Watched, IInv, TypeInv, TypeOK, Hands
<1>3. \A x \in Watched' : x \in cmdReverseRegReadMap' \/ cmds'[x].completed
  BY <1>1, <1>2 DEF SendInv, SameEnd
<1>4. reader.pc \in {"unhist", "unreg"} => reader.cmd \in Objs
  BY DEF IInv, TypeInv, Hands
<1>5. reader'.pc \in {"unhist", "unreg"} =>
        /\ \/ reader'.cmd \in cmdReverseRegReadMap'
           \/ cmds'[reader'.cmd].completed
           \/ cmds'[reader'.cmd].stale
        /\ cmds'[reader'.cmd].responded /\ cmds'[reader'.cmd].finished
  BY <1>4 DEF SendInv, SameEnd
<1>6. SentOnce' /\ (reader'.pc = "stuck" => reader'.cmd \in Objs)
  BY DEF SendInv, SentOnce, SameEnd
<1>7. /\ cmdHistory' \cap checker'.left = {}
      /\ writer'.pc = "history" => writer'.cmd \notin cmdHistory' \cup checker'.left
  BY DEF SendInv
<1> QED
  BY <1>3, <1>5, <1>6, <1>7 DEF SendInv

\* which steps are such
LEMMA SendSameSteps ==
    ASSUME IInv, SendInv,
           \/ \E c \in Callers, want \in Requests : NonBlockingRead(c, want)
           \/ NonBlockingWrite \/ ReqestHitResult
           \/ WriterPoll \/ WriterSelect \/ WriterWrite \/ WriterHit \/ asicRead
           \/ ReaderTop \/ ReaderTake \/ ReaderLookup \/ ReaderUnhist
           \/ (\E o \in Objs : Age(o)) \/ Quieten \/ UNCHANGED vars
    PROVE  SendInv'
<1> USE DEF queues, maps
<1>t. /\ cmds \in [Objs -> asicCmd]
      /\ writer \in [pc : {"poll", "select", "register", "history", "write", "hit"},
                     cmd : Objs \cup {None}, left : SUBSET Payload]
      /\ reader \in [pc : {"top", "select", "lookup", "credit", "unhist", "unreg", "stuck"},
                     cmd : Objs \cup {None}, payload : Payload \cup {Hit}]
  BY DEF IInv, TypeInv, TypeOK
<1>r. \A x \in Objs : cmds[x] \in asicCmd
  BY <1>t
<1>1. ASSUME NEW c \in Callers, NEW want \in Requests, NonBlockingRead(c, want)
      PROVE  SendInv'
  <2>1. PICK o \in Objs \ Referenced : cmds' = [cmds EXCEPT ![o] = newAsicCmd(want)]
    BY <1>1 DEF NonBlockingRead
  <2>2. o \notin Watched \cup {reader.cmd}
    BY <2>1 DEF Referenced, Watched
  <2>3. \A x \in Objs : x \in Watched \cup {reader.cmd} => SameEnd(cmds'[x], cmds[x])
    BY <1>t, <2>1, <2>2 DEF SameEnd
  <2> QED
    BY <1>1, <2>3, SendSame DEF NonBlockingRead
<1>2. CASE NonBlockingWrite \/ ReqestHitResult \/ asicRead \/ Quieten \/ UNCHANGED vars
  <2>1. UNCHANGED <<cmds, writer, reader, cmdReverseRegReadMap, cmdHistory, checker>>
    BY <1>2 DEF NonBlockingWrite, ReqestHitResult, asicRead, Quieten, vars
  <2> QED
    BY <2>1, SendSame DEF SameEnd
<1>3. CASE WriterPoll \/ WriterSelect \/ WriterWrite \/ WriterHit
  <2>1. UNCHANGED <<cmds, reader, cmdReverseRegReadMap, cmdHistory, checker>>
    BY <1>3 DEF WriterPoll, WriterSelect, WriterWrite, WriterHit
  <2>2. writer'.pc # "history"
    <3>1. \A entry : Dispatch(entry) => writer'.pc # "history"
      BY DEF Dispatch
    <3>2. CASE WriterPoll
      BY <1>t, <3>1, <3>2 DEF WriterPoll
    <3>3. CASE WriterSelect
      BY <3>1, <3>3 DEF WriterSelect
    <3>4. CASE WriterWrite
      BY <1>t, <3>4 DEF WriterWrite
    <3>5. CASE WriterHit
      BY <1>t, <3>5 DEF WriterHit
    <3> QED
      BY <1>3, <3>2, <3>3, <3>4, <3>5
  <2> QED
    BY <2>1, <2>2, SendSame DEF SameEnd
<1>4. CASE ReaderTop
  <2>1. PICK blackout \in BOOLEAN :
          cmds' = [x \in Objs |->
                     IF x \in cmdHistory
                     THEN [cmds[x] EXCEPT !.seen = TRUE,
                             !.dark = IF blackout THEN cmds[x].seen ELSE @]
                     ELSE cmds[x]]
    BY <1>4 DEF ReaderTop
  <2>2. \A x \in Objs : SameEnd(cmds'[x], cmds[x])
    BY <1>r, <2>1 DEF SameEnd, asicCmd
  <2>3. /\ UNCHANGED <<writer, cmdReverseRegReadMap, cmdHistory, checker>>
        /\ reader'.pc = "select"
    BY <1>4, <1>t DEF ReaderTop
  <2> QED
    BY <2>2, <2>3, SendSame
<1>5. CASE ReaderTake \/ ReaderLookup
  <2>1. UNCHANGED <<cmds, writer, cmdReverseRegReadMap, cmdHistory, checker>>
    BY <1>5 DEF ReaderTake, ReaderLookup
  <2>2. reader'.pc \in {"lookup", "top", "credit"}
    <3>1. CASE ReaderTake
      BY <1>t, <3>1 DEF ReaderTake
    <3>2. CASE ReaderLookup
      <4>1. \/ reader' = NextAnswer
            \/ reader' = [reader EXCEPT !.pc = "credit",
                                         !.cmd = Head(cmdRegReadMap[reader.payload])]
        BY <3>2 DEF ReaderLookup
      <4>2. ASSUME NEW x, reader' = [reader EXCEPT !.pc = "credit", !.cmd = x]
            PROVE  reader'.pc = "credit"
        BY <1>t, <4>2
      <4>3. CASE reader' = NextAnswer
        BY <4>3 DEF NextAnswer
      <4> QED
        BY <4>1, <4>2, <4>3
    <3> QED
      BY <1>5, <3>1, <3>2
  <2> QED
    BY <2>1, <2>2, SendSame DEF SameEnd
<1>6. CASE ReaderUnhist
  <2>1. /\ UNCHANGED <<cmds, writer, cmdReverseRegReadMap, checker>>
        /\ cmdHistory' \subseteq cmdHistory /\ reader.pc = "unhist"
        /\ reader' = [reader EXCEPT !.pc = "unreg"]
    BY <1>6 DEF ReaderUnhist
  <2>2. reader'.pc = "unreg" /\ reader'.cmd = reader.cmd
    BY <1>t, <2>1
  <2> QED
    BY <2>1, <2>2, SendSame DEF SameEnd
<1>7. ASSUME NEW o \in Objs, Age(o)
      PROVE  SendInv'
  <2>1. \A x \in Objs : SameEnd(cmds'[x], cmds[x])
    BY <1>7, <1>t, <1>r DEF Age, SameEnd, asicCmd
  <2> QED
    BY <1>7, <2>1, SendSame DEF Age
<1> QED
  BY <1>1, <1>2, <1>3, <1>4, <1>5, <1>6, <1>7

\* a command is registered before it is watched, and stays what it was
LEMMA WriterSends ==
    ASSUME IInv, SendInv, WriterRegister \/ WriterHistory
    PROVE  SendInv'
<1> USE DEF queues, maps
<1> DEFINE o == writer.cmd
<1>t. /\ cmds \in [Objs -> asicCmd] /\ o \in Objs
      /\ writer \in [pc : {"poll", "select", "register", "history", "write", "hit"},
                     cmd : Objs \cup {None}, left : SUBSET Payload]
  BY DEF IInv, TypeInv, TypeOK, Hands, WriterRegister, WriterHistory
<1>1. CASE WriterRegister
  <2>1. /\ UNCHANGED <<cmds, reader, cmdHistory, checker>> /\ writer.pc = "register"
        /\ writer' = [writer EXCEPT !.pc = "history"]
        /\ cmdReverseRegReadMap' = cmdReverseRegReadMap \cup {o}
    BY <1>1 DEF WriterRegister
  <2>2. writer'.pc = "history" /\ writer'.cmd = o
    BY <1>t, <2>1
  <2>3. o \notin cmdHistory \cup checker.left
    BY <2>1 DEF IInv, NewInv, New, Used
  <2>4. Watched' = Watched \cup {o}
    BY <2>1, <2>2 DEF Watched
  <2> QED
    BY <2>1, <2>2, <2>3, <2>4 DEF SendInv, SentOnce
<1>2. CASE WriterHistory
  <2>1. /\ UNCHANGED <<reader, cmdReverseRegReadMap, checker>> /\ writer.pc = "history"
        /\ writer' = [writer EXCEPT !.pc = "write"]
        /\ cmdHistory' = cmdHistory \cup {o} /\ checker.left = {}
    BY <1>2 DEF WriterHistory, HistFree, IInv, TypeInv, Hands
  <2>2. \A x \in Objs : SameEnd(cmds'[x], cmds[x])
    <3>1. cmds[o] \in asicCmd
      BY <1>t
    <3>2. cmds' = [cmds EXCEPT ![o] = [@ EXCEPT !.age = Fresh, !.seen = FALSE, !.dark = FALSE]]
      BY <1>2 DEF WriterHistory
    <3> QED
      BY <1>t, <3>1, <3>2 DEF SameEnd, asicCmd
  <2>3. writer'.pc = "write"
    BY <1>t, <2>1
  <2>4. Watched' = Watched /\ Watched \subseteq Objs
    BY <1>t, <2>1, <2>3 DEF Watched, IInv, TypeInv, TypeOK
  <2>5. reader.pc \in {"unhist", "unreg", "stuck"} => reader.cmd \in Objs
    BY DEF IInv, TypeInv, Hands, SendInv
  <2> QED
    BY <2>1, <2>2, <2>3, <2>4, <2>5 DEF SendInv, SentOnce, SameEnd
<1> QED
  BY <1>1, <1>2

\* an answer completes a registered command, or one that was released:
\* then that one was marked, or it is stale now
LEMMA CreditSends ==
    ASSUME IInv, SendInv, ReaderCredit
    PROVE  SendInv'
<1> DEFINE o == reader.cmd
           last == cmds[o].resps + 1 = Cardinality(cmds[o].want)
<1>1. /\ UNCHANGED <<writer, cmdReverseRegReadMap, cmdHistory, checker>>
      /\ reader.pc = "credit" /\ o \in Objs /\ cmds \in [Objs -> asicCmd]
      /\ reader \in [pc : {"top", "select", "lookup", "credit", "unhist", "unreg", "stuck"},
                     cmd : Objs \cup {None}, payload : Payload \cup {Hit}]
  BY DEF ReaderCredit, maps, IInv, TypeInv, TypeOK, Hands
<1>2. /\ cmds' = [cmds EXCEPT ![o] =
                    [cmds[o] EXCEPT !.data = @ \cup {reader.payload}, !.responded = TRUE,
                                    !.resps = @ + 1, !.finished = @ \/ last,
                                    !.stale = @ \/ Released(o)]]
      /\ reader' = IF last THEN [reader EXCEPT !.pc = "unhist"] ELSE NextAnswer
  BY DEF ReaderCredit
<1> HIDE DEF last
<1>3. cmds[o] \in asicCmd
  BY <1>1
<1>4. /\ cmds'[o].completed = cmds[o].completed /\ cmds'[o].responded
      /\ last => cmds'[o].finished
      /\ Released(o) => cmds'[o].stale
  BY <1>1, <1>2, <1>3 DEF asicCmd
<1>5. \A x \in Objs : cmds'[x].completed = cmds[x].completed
  BY <1>1, <1>2, <1>4
<1>6. Watched' = Watched /\ Watched \subseteq Objs
  BY <1>1 DEF Watched, IInv, TypeInv, TypeOK, Hands
<1>7. \/ last /\ reader'.pc = "unhist" /\ reader'.cmd = o
      \/ reader'.pc = "top"
  BY <1>1, <1>2 DEF NextAnswer
<1> HIDE DEF o
<1>8. reader'.pc \in {"unhist", "unreg"} =>
        /\ \/ reader'.cmd \in cmdReverseRegReadMap'
           \/ cmds'[reader'.cmd].completed
           \/ cmds'[reader'.cmd].stale
        /\ cmds'[reader'.cmd].responded /\ cmds'[reader'.cmd].finished
  BY <1>1, <1>4, <1>7 DEF Released
<1>9. \A x \in Watched' : x \in cmdReverseRegReadMap' \/ cmds'[x].completed
  BY <1>1, <1>5, <1>6 DEF SendInv
<1> QED
  BY <1>1, <1>7, <1>8, <1>9 DEF SendInv, SentOnce

\* what a release does to the command
LEMMA ReleasedEnd ==
    ASSUME NEW o \in Objs, NEW cmd \in asicCmd, NEW val, releaseCommand(o, cmd, val),
           cmds \in [Objs -> asicCmd]
    PROVE  /\ cmds'[o].completed = (cmd.completed \/ (cmd.responded /\ cmd.finished))
           /\ cmds'[o].stale = cmd.stale /\ cmds'[o].responded = cmd.responded
           /\ cmds'[o].finished = cmd.finished
           /\ \A x \in Objs : x # o => cmds'[x] = cmds[x]
<1>1. cmds' = [cmds EXCEPT ![o] =
                 [cmd EXCEPT !.completed = cmd.completed \/ (cmd.responded /\ cmd.finished)]]
  BY DEF releaseCommand
<1> QED
  BY <1>1 DEF asicCmd

\* cmdreader's send has a receiver unless its command is stale; and then
\* the command is marked, whoever else is about to end it
LEMMA UnregSends ==
    ASSUME IInv, SendInv, ReaderUnreg
    PROVE  SendInv'
<1> DEFINE o == reader.cmd
<1>1. /\ Unregister(o) /\ releaseCommand(o, cmds[o], 0)
      /\ UNCHANGED <<writer, cmdHistory, checker>> /\ reader.pc = "unreg"
      /\ reader' = IF ReleaseSticks(o, cmds[o]) THEN [reader EXCEPT !.pc = "stuck"] ELSE NextAnswer
  BY DEF ReaderUnreg
<1>2. /\ o \in Objs /\ cmds \in [Objs -> asicCmd] /\ cmds[o] \in asicCmd
      /\ reader \in [pc : {"top", "select", "lookup", "credit", "unhist", "unreg", "stuck"},
                     cmd : Objs \cup {None}, payload : Payload \cup {Hit}]
  BY <1>1 DEF IInv, TypeInv, TypeOK, Hands
<1>3. cmds[o].responded /\ cmds[o].finished
  BY <1>1 DEF SendInv
<1>4. /\ cmds'[o].completed /\ cmds'[o].stale = cmds[o].stale
      /\ \A x \in Objs : x # o => cmds'[x] = cmds[x]
  BY <1>1, <1>2, <1>3, ReleasedEnd
<1>5. ReleaseSticks(o, cmds[o]) => cmds[o].stale
  BY <1>1 DEF ReleaseSticks, SendInv, IInv, WaitInv
<1>6. cmdReverseRegReadMap' = cmdReverseRegReadMap \ {o}
  BY <1>1 DEF Unregister
<1>7. \/ reader'.pc = "stuck" /\ reader'.cmd = o /\ cmds[o].stale
      \/ reader'.pc = "top"
  BY <1>1, <1>2, <1>5 DEF NextAnswer
<1>8. Watched' = Watched /\ Watched \subseteq Objs
  BY <1>1 DEF Watched, IInv, TypeInv, TypeOK, Hands
<1> HIDE DEF o
<1>9. \A x \in Watched' : x \in cmdReverseRegReadMap' \/ cmds'[x].completed
  BY <1>4, <1>6, <1>8 DEF SendInv
<1> QED
  BY <1>1, <1>2, <1>4, <1>7, <1>9 DEF SendInv, SentOnce

\* the checker has a receiver for what is not marked; and what it ends is
\* marked if cmdreader has credited it already
LEMMA CheckerSends ==
    ASSUME IInv, SendInv, Checker
    PROVE  SendInv'
<1>t. /\ cmds \in [Objs -> asicCmd]
      /\ \A x \in Objs : cmds[x] \in asicCmd
      /\ reader.pc \in {"unhist", "unreg", "stuck"} => reader.cmd \in Objs
      /\ Watched \subseteq Objs
  BY DEF IInv, TypeInv, TypeOK, Hands, SendInv, Watched
<1>1. CASE CheckerScan
  <2> DEFINE old == {x \in cmdHistory : Expired(x)}
  <2>1. /\ UNCHANGED <<writer, reader, cmdReverseRegReadMap>> /\ checker.left = {}
        /\ checker'.left = old /\ checker'.pc # "stuck" /\ cmdHistory' = cmdHistory \ old
    BY <1>1 DEF CheckerScan, maps, IInv, TypeInv, Hands
  <2>2. \A x \in Objs : SameEnd(cmds'[x], cmds[x])
    <3>1. PICK dark \in SUBSET cmdHistory :
            cmds' = [x \in Objs |-> IF x \in dark
                                    THEN [cmds[x] EXCEPT !.age = Fresh, !.dark = FALSE]
                                    ELSE cmds[x]]
      BY <1>1 DEF CheckerScan
    <3> QED
      BY <1>t, <3>1 DEF SameEnd, asicCmd
  <2>3. Watched' = Watched /\ cmdHistory' \cup checker'.left = cmdHistory \cup checker.left
        /\ cmdHistory' \cap checker'.left = {}
    BY <2>1 DEF Watched
  <2> QED
    BY <1>t, <2>1, <2>2, <2>3 DEF SendInv, SentOnce, SameEnd
<1>2. ASSUME NEW o \in Objs, CheckerExpire(o)
      PROVE  SendInv'
  <2> DEFINE cmd == [cmds[o] EXCEPT !.finished = TRUE]
  <2>1. /\ Unregister(o) /\ releaseCommand(o, cmd, 1)
        /\ UNCHANGED <<writer, reader, cmdHistory>>
        /\ o \in checker.left
        /\ checker' = IF ReleaseSticks(o, cmd)
                      THEN [pc |-> "stuck", left |-> checker.left]
                      ELSE [pc   |-> IF checker.left = {o} THEN "idle" ELSE "expire",
                            left |-> checker.left \ {o}]
    BY <1>2 DEF CheckerExpire
  <2>2. /\ cmd \in asicCmd /\ cmd.completed = cmds[o].completed /\ cmd.finished
        /\ cmd.responded = cmds[o].responded /\ cmd.stale = cmds[o].stale
    BY <1>t DEF asicCmd
  <2> HIDE DEF cmd
  <2>3. ~ReleaseSticks(o, cmd)
    BY <2>1, <2>2 DEF ReleaseSticks, SendInv, Watched, IInv, WaitInv
  <2>4. checker'.pc # "stuck" /\ checker'.left = checker.left \ {o}
    BY <2>1, <2>3
  <2>5. /\ cmds'[o].completed = (cmds[o].completed \/ cmds[o].responded)
        /\ cmds'[o].stale = cmds[o].stale /\ cmds'[o].responded = cmds[o].responded
        /\ cmds'[o].finished
        /\ \A x \in Objs : x # o => cmds'[x] = cmds[x]
    <3>1. /\ cmds'[o].completed = (cmd.completed \/ (cmd.responded /\ cmd.finished))
          /\ cmds'[o].stale = cmd.stale /\ cmds'[o].responded = cmd.responded
          /\ cmds'[o].finished = cmd.finished
          /\ \A x \in Objs : x # o => cmds'[x] = cmds[x]
      BY <1>t, <2>1, <2>2, ReleasedEnd
    <3> QED
      BY <2>2, <3>1
  <2>6. cmdReverseRegReadMap' = cmdReverseRegReadMap \ {o}
    BY <2>1 DEF Unregister
  <2>7. Watched' \subseteq Watched \ {o}
    BY <2>1, <2>4 DEF Watched, SendInv
  <2>8. \A x \in Watched' : x \in cmdReverseRegReadMap' \/ cmds'[x].completed
    BY <1>t, <2>5, <2>6, <2>7 DEF SendInv
  <2>9. reader'.pc \in {"unhist", "unreg"} =>
          /\ \/ reader'.cmd \in cmdReverseRegReadMap'
             \/ cmds'[reader'.cmd].completed
             \/ cmds'[reader'.cmd].stale
          /\ cmds'[reader'.cmd].responded /\ cmds'[reader'.cmd].finished
    BY <1>t, <2>1, <2>5, <2>6 DEF SendInv
  <2>10. reader'.pc = "stuck" => reader'.cmd \in Objs /\ cmds'[reader'.cmd].stale
    BY <1>t, <2>1, <2>5 DEF SendInv, SentOnce
  <2>11. /\ cmdHistory' \cap checker'.left = {}
         /\ writer'.pc = "history" => writer'.cmd \notin cmdHistory' \cup checker'.left
    BY <2>1, <2>4 DEF SendInv
  <2> QED
    BY <2>4, <2>8, <2>9, <2>10, <2>11 DEF SendInv, SentOnce
<1> QED
  BY <1>1, <1>2 DEF Checker

\* releaseCommand's guard works: a command that cmdreader and the timeout
\* checker both end is sent for once and neither is left with cmdRegLock
\* held, but for a command released before its first answer was credited
THEOREM CommandsSentOnce == Spec => []SentOnce
<1>1. Init => SendInv
  BY DEF Init, SendInv, SentOnce, Watched, NextAnswer
<1>2. IInv /\ SendInv /\ [Next]_vars => SendInv'
  BY SendSameSteps, WriterSends, CreditSends, UnregSends, CheckerSends
     DEF Next, Writer, Reader
<1>3. SendInv => SentOnce
  BY DEF SendInv
<1> QED
  BY <1>1, <1>2, <1>3, Invariance, PTL DEF Spec

-----------------------------------------------------------------------------
(* The answers that are owed.  As long as no answer was lost or overtaken, *)
(* every answer in flight is owed to one registered command and every      *)
(* answer owed is in flight once; the answers to a command are in flight   *)
(* before those to the commands registered after it.  That is why crediting*)
(* the oldest command is right, and why counting answers is enough.        *)

\* the answers in flight, oldest first: the one cmdreader looks up, those in
\* chResp, those on the wire; Hit stands where there is none
Flight ==
    [i \in 1 .. (1 + Len(chResp) + Len(wire)) |->
        IF i = 1 THEN IF reader.pc = "lookup" THEN reader.payload ELSE Hit
        ELSE IF i <= 1 + Len(chResp) THEN chResp[i - 1]
        ELSE wire[i - 1 - Len(chResp)]]
Answers == {i \in DOMAIN Flight : Flight[i] # Hit}

\* what a command wants: not yet asked for, being credited, or owed
Unwritten(o) == IF writer.cmd = o THEN writer.left ELSE {}
Taken(o)     == IF reader.pc = "credit" /\ reader.cmd = o THEN {reader.payload} ELSE {}
Owed(o)      == {p \in cmds[o].want : p \notin cmds[o].data \cup Unwritten(o) \cup Taken(o)}

\* the books of one command: it is complete only in cmdreader's hands
Account(o) ==
    /\ cmds[o].data \subseteq cmds[o].want
    /\ cmds[o].resps = Cardinality(cmds[o].data)
    /\ (cmds[o].data \cup Taken(o)) \cap Unwritten(o) = {}
    /\ Unwritten(o) \subseteq cmds[o].want
    /\ cmds[o].data = cmds[o].want /\ cmds[o].want # {}
          => reader.pc \in {"unhist", "unreg"} /\ reader.cmd = o

ReaderBook ==
    /\ reader.pc = "credit" =>
          /\ reader.cmd \in cmdReverseRegReadMap
          /\ reader.payload \in cmds[reader.cmd].want \ cmds[reader.cmd].data
    /\ reader.pc \in {"unhist", "unreg"} =>
          /\ reader.cmd \in cmdReverseRegReadMap
          /\ cmds[reader.cmd].want # {} /\ cmds[reader.cmd].data = cmds[reader.cmd].want
    /\ reader.pc = "unreg" => reader.cmd \notin cmdHistory
    /\ reader.pc # "stuck"
WriterBook ==
    /\ writer.pc \in {"history", "write"} /\ writer.left # {} => writer.cmd \in cmdReverseRegReadMap
    /\ writer.pc = "history" => writer.left = cmds[writer.cmd].want
    /\ writer.pc \notin {"register", "history", "write"} => writer.left = {}
    /\ \A o \in New : cmds[o].data = {} /\ cmds[o].resps = 0
\* only a command that wants nothing grows old
TimeBook ==
    /\ \A o \in cmdHistory :
          cmds[o].want # {} => o \in cmdReverseRegReadMap /\ cmds[o].age = Fresh
    /\ \A o \in checker.left : cmds[o].want = {}
Results == \A c \in Callers : call[c].val = 0 => call[c].whole
Books ==
    /\ \A o \in cmdReverseRegReadMap : Account(o)
    /\ ReaderBook /\ WriterBook /\ TimeBook /\ Results

\* rank: the order in which the commands were registered (seq); owner: whom
\* each answer in flight is owed to
Ranked(n, rank) ==
    /\ \A o \in Objs : rank[o] < n
    /\ \A o, x \in cmdReverseRegReadMap : rank[o] = rank[x] => o = x
    /\ \A p \in Payload : \A i, j \in DOMAIN cmdRegReadMap[p] :
          i < j => rank[cmdRegReadMap[p][i]] < rank[cmdRegReadMap[p][j]]
    /\ writer.pc \in {"history", "write"} /\ writer.cmd \in cmdReverseRegReadMap =>
          \A x \in cmdReverseRegReadMap : rank[x] <= rank[writer.cmd]
Owned(rank, owner) ==
    /\ \A i \in Answers : owner[i] \in cmdReverseRegReadMap /\ Flight[i] \in Owed(owner[i])
    /\ \A o \in cmdReverseRegReadMap : \A p \in Owed(o) :
          \E i \in Answers : owner[i] = o /\ Flight[i] = p
    /\ \A i, j \in Answers : owner[i] = owner[j] /\ Flight[i] = Flight[j] => i = j
    /\ \A i, j \in Answers : i < j => rank[owner[i]] <= rank[owner[j]]
Flow ==
    \E n \in Nat, rank \in [Objs -> Nat] :
        Ranked(n, rank) /\ \E owner \in [DOMAIN Flight -> Objs \cup {None}] : Owned(rank, owner)

LedgerInv == ~late => Books /\ Flow

\* the places of the answers in flight
LEMMA Places ==
    TypeInv =>
        /\ Len(chResp) \in Nat /\ Len(wire) \in Nat
        /\ DOMAIN Flight = 1 .. (1 + Len(chResp) + Len(wire))
        /\ Flight[1] = IF reader.pc = "lookup" THEN reader.payload ELSE Hit
        /\ \A i \in 1 .. Len(chResp) : Flight[1 + i] = chResp[i]
        /\ \A i \in 1 .. Len(wire) : Flight[1 + Len(chResp) + i] = wire[i]
        /\ \A i \in Answers : Flight[i] \in Payload
<1> SUFFICES ASSUME TypeInv
             PROVE  /\ Len(chResp) \in Nat /\ Len(wire) \in Nat
                    /\ DOMAIN Flight = 1 .. (1 + Len(chResp) + Len(wire))
                    /\ Flight[1] = IF reader.pc = "lookup" THEN reader.payload ELSE Hit
                    /\ \A i \in 1 .. Len(chResp) : Flight[1 + i] = chResp[i]
                    /\ \A i \in 1 .. Len(wire) : Flight[1 + Len(chResp) + i] = wire[i]
                    /\ \A i \in Answers : Flight[i] \in Payload
  OBVIOUS
<1>1. /\ Len(chResp) \in Nat /\ Len(wire) \in Nat
      /\ \A i \in 1 .. Len(chResp) : chResp[i] \in Payload
      /\ \A i \in 1 .. Len(wire) : wire[i] \in Payload \cup {Hit}
      /\ reader.pc = "lookup" => reader.payload \in Payload
  BY DEF TypeInv, TypeOK, Hands
<1>2. /\ DOMAIN Flight = 1 .. (1 + Len(chResp) + Len(wire))
      /\ Flight[1] = IF reader.pc = "lookup" THEN reader.payload ELSE Hit
      /\ \A i \in 1 .. Len(chResp) : Flight[1 + i] = chResp[i]
      /\ \A i \in 1 .. Len(wire) : Flight[1 + Len(chResp) + i] = wire[i]
  BY <1>1 DEF Flight
<1>3. ASSUME NEW i \in Answers PROVE Flight[i] \in Payload
  <2>1. CASE i = 1
    BY <1>1, <1>2, <2>1 DEF Answers
  <2>2. CASE i > 1 /\ i <= 1 + Len(chResp)
    <3>1. i - 1 \in 1 .. Len(chResp) /\ 1 + (i - 1) = i
      BY <1>1, <1>2, <2>2 DEF Answers
    <3> QED
      BY <1>1, <1>2, <3>1
  <2>3. CASE i > 1 + Len(chResp)
    <3>1. i \in 1 .. (1 + Len(chResp) + Len(wire))
      BY <1>2 DEF Answers
    <3>2. PICK j \in 1 .. Len(wire) : i = 1 + Len(chResp) + j
      <4>1. i - (1 + Len(chResp)) \in 1 .. Len(wire)
        BY <1>1, <2>3, <3>1
      <4>2. i = 1 + Len(chResp) + (i - (1 + Len(chResp)))
        BY <1>1, <3>1
      <4> QED
        BY <4>1, <4>2
    <3> QED
      BY <1>1, <1>2, <3>2 DEF Answers
  <2> QED
    BY <1>1, <1>2, <2>1, <2>2, <2>3 DEF Answers
<1> QED
  BY <1>1, <1>2, <1>3

\* the same answers in flight are owed to the same commands
LEMMA FlowSame ==
    ASSUME Flow, TypeInv, MapsAgree, Flight' = Flight,
           UNCHANGED <<cmdRegReadMap, cmdReverseRegReadMap>>,
           \A o \in cmdReverseRegReadMap : Owed(o)' = Owed(o),
           writer'.pc \in {"history", "write"} /\ writer'.cmd \in cmdReverseRegReadMap
              => writer.pc \in {"history", "write"} /\ writer'.cmd = writer.cmd
    PROVE  Flow'
<1>1. PICK n \in Nat, rank \in [Objs -> Nat] :
          Ranked(n, rank) /\ \E owner \in [DOMAIN Flight -> Objs \cup {None}] : Owned(rank, owner)
  BY DEF Flow
<1>2. PICK owner \in [DOMAIN Flight -> Objs \cup {None}] : Owned(rank, owner)
  BY <1>1
<1>3. Ranked(n, rank)'
  BY <1>1 DEF Ranked
<1>4. Answers' = Answers
  BY DEF Answers
<1>5. Owned(rank, owner)'
  BY <1>2, <1>4 DEF Owned
<1> QED
  BY <1>3, <1>5 DEF Flow

\* a place without an answer may go
LEMMA PlaceGone ==
    ASSUME NEW rank, NEW owner \in [DOMAIN Flight -> Objs \cup {None}], Owned(rank, owner),
           NEW m \in Nat, NEW k \in 1 .. (m + 1),
           DOMAIN Flight = 1 .. (m + 1), DOMAIN Flight' = 1 .. m, Flight[k] = Hit,
           \A i \in 1 .. m : Flight'[i] = Flight[IF i < k THEN i ELSE i + 1],
           cmdReverseRegReadMap' = cmdReverseRegReadMap,
           \A o \in cmdReverseRegReadMap : Owed(o)' = Owed(o)
    PROVE  \E owner2 \in [DOMAIN Flight' -> Objs \cup {None}] : Owned(rank, owner2)'
<1> DEFINE from(i) == IF i < k THEN i ELSE i + 1
           owner2 == [i \in 1 .. m |-> owner[from(i)]]
<1>1. ASSUME NEW i \in Answers' PROVE from(i) \in Answers /\ Flight[from(i)] = Flight'[i]
  BY DEF Answers
<1>2. ASSUME NEW j \in Answers PROVE \E i \in Answers' : from(i) = j
  <2>1. CASE j < k
    <3>1. j \in 1 .. m /\ from(j) = j
      BY <2>1 DEF Answers
    <3> QED
      BY <3>1 DEF Answers
  <2>2. CASE j > k
    <3>1. j - 1 \in 1 .. m /\ from(j - 1) = j
      BY <2>2 DEF Answers
    <3>2. Flight'[j - 1] = Flight[from(j - 1)]
      BY <3>1
    <3> QED
      BY <3>1, <3>2 DEF Answers
  <2> QED
    BY <2>1, <2>2 DEF Answers
<1>3. \A i, j \in Answers' : (i < j => from(i) < from(j)) /\ (from(i) = from(j) => i = j)
  BY DEF Answers
<1>4. \A i \in Answers' : owner2[i] = owner[from(i)]
  BY DEF Answers
<1>5. owner2 \in [DOMAIN Flight' -> Objs \cup {None}]
  OBVIOUS
<1> HIDE DEF from, owner2
<1>6. Owned(rank, owner2)'
  <2>1. \A i \in Answers' :
            owner2[i] \in cmdReverseRegReadMap' /\ Flight'[i] \in Owed(owner2[i])'
    BY <1>1, <1>4 DEF Owned
  <2>2. ASSUME NEW o \in cmdReverseRegReadMap', NEW p \in Owed(o)'
        PROVE  \E i \in Answers' : owner2[i] = o /\ Flight'[i] = p
    <3>1. PICK j \in Answers : owner[j] = o /\ Flight[j] = p
      BY DEF Owned
    <3>2. PICK i \in Answers' : from(i) = j
      BY <1>2
    <3> QED
      BY <1>1, <1>4, <3>1, <3>2
  <2>3. \A i, j \in Answers' : owner2[i] = owner2[j] /\ Flight'[i] = Flight'[j] => i = j
    BY <1>1, <1>3, <1>4 DEF Owned
  <2>4. \A i, j \in Answers' : i < j => rank[owner2[i]] <= rank[owner2[j]]
    BY <1>1, <1>3, <1>4 DEF Owned
  <2> QED
    BY <2>1, <2>2, <2>3, <2>4 DEF Owned
<1> QED
  BY <1>5, <1>6

\* the first answer is taken for its owner
LEMMA FirstTaken ==
    ASSUME NEW rank, NEW owner \in [DOMAIN Flight -> Objs \cup {None}], Owned(rank, owner),
           1 \in Answers, DOMAIN Flight' = DOMAIN Flight, Flight'[1] = Hit,
           \A i \in DOMAIN Flight : i # 1 => Flight'[i] = Flight[i],
           cmdReverseRegReadMap' = cmdReverseRegReadMap,
           Owed(owner[1])' = Owed(owner[1]) \ {Flight[1]},
           \A o \in cmdReverseRegReadMap : o # owner[1] => Owed(o)' = Owed(o)
    PROVE  Owned(rank, owner)'
<1>1. Answers' = Answers \ {1}
  BY DEF Answers
<1>2. \A i \in Answers' : Flight'[i] = Flight[i]
  BY <1>1 DEF Answers
<1>3. ASSUME NEW i \in Answers'
      PROVE  owner[i] \in cmdReverseRegReadMap' /\ Flight'[i] \in Owed(owner[i])'
  BY <1>1, <1>2 DEF Owned
<1>4. ASSUME NEW o \in cmdReverseRegReadMap', NEW p \in Owed(o)'
      PROVE  \E i \in Answers' : owner[i] = o /\ Flight'[i] = p
  <2>1. p \in Owed(o)
    OBVIOUS
  <2>2. PICK i \in Answers : owner[i] = o /\ Flight[i] = p
    BY <2>1 DEF Owned
  <2>3. i # 1
    BY <2>2
  <2> QED
    BY <1>1, <1>2, <2>2, <2>3
<1>5. \A i, j \in Answers' : owner[i] = owner[j] /\ Flight'[i] = Flight'[j] => i = j
  BY <1>1, <1>2 DEF Owned
<1>6. \A i, j \in Answers' : i < j => rank[owner[i]] <= rank[owner[j]]
  BY <1>1 DEF Owned
<1> QED
  BY <1>3, <1>4, <1>5, <1>6 DEF Owned

\* an answer to the command that was registered last is put behind the others
LEMMA AnswerSent ==
    ASSUME NEW rank \in [Objs -> Nat], NEW owner \in [DOMAIN Flight -> Objs \cup {None}],
           Owned(rank, owner), cmdReverseRegReadMap \subseteq Objs,
           NEW m \in Nat, DOMAIN Flight = 1 .. m, DOMAIN Flight' = 1 .. (m + 1),
           \A i \in 1 .. m : Flight'[i] = Flight[i],
           NEW o \in cmdReverseRegReadMap, NEW p, p # Hit, Flight'[m + 1] = p,
           p \notin Owed(o), Owed(o)' = Owed(o) \cup {p},
           \A x \in cmdReverseRegReadMap : rank[x] <= rank[o] /\ (x # o => Owed(x)' = Owed(x)),
           cmdReverseRegReadMap' = cmdReverseRegReadMap
    PROVE  \E owner2 \in [DOMAIN Flight' -> Objs \cup {None}] : Owned(rank, owner2)'
<1> DEFINE owner2 == [i \in 1 .. (m + 1) |-> IF i <= m THEN owner[i] ELSE o]
<1>1. /\ Answers' = Answers \cup {m + 1} /\ Answers \subseteq 1 .. m
      /\ \A i \in Answers : Flight'[i] = Flight[i] /\ owner2[i] = owner[i]
      /\ owner2[m + 1] = o
  BY DEF Answers
<1>2. owner2 \in [DOMAIN Flight' -> Objs \cup {None}]
  OBVIOUS
<1> HIDE DEF owner2
<1>3. \A i \in Answers' : owner2[i] \in cmdReverseRegReadMap' /\ Flight'[i] \in Owed(owner2[i])'
  BY <1>1 DEF Owned
<1>4. \A x \in cmdReverseRegReadMap' : \A r \in Owed(x)' :
          \E i \in Answers' : owner2[i] = x /\ Flight'[i] = r
  BY <1>1 DEF Owned
<1>5. ASSUME NEW i \in Answers, owner[i] = o PROVE Flight[i] # p
  BY <1>5 DEF Owned
<1>6. \A i, j \in Answers' : owner2[i] = owner2[j] /\ Flight'[i] = Flight'[j] => i = j
  <2>1. \A i, j \in Answers : owner[i] = owner[j] /\ Flight[i] = Flight[j] => i = j
    BY DEF Owned
  <2> QED
    BY <1>1, <1>5, <2>1
<1>7. \A i, j \in Answers' : i < j => rank[owner2[i]] <= rank[owner2[j]]
  <2>1. \A i, j \in Answers : i < j => rank[owner[i]] <= rank[owner[j]]
    BY DEF Owned
  <2>2. \A i \in Answers : rank[owner[i]] <= rank[o]
    BY DEF Owned
  <2>3. \A i \in Answers : i < m + 1
    BY <1>1
  <2> QED
    BY <1>1, <2>1, <2>2, <2>3
<1> QED
  BY <1>2, <1>3, <1>4, <1>6, <1>7 DEF Owned

\* nothing changes for a step that leaves the accounts and the answers alone
LEMMA LedgerSame ==
    ASSUME IInv, Books, Flow,
           UNCHANGED <<cmdRegReadMap, cmdReverseRegReadMap, chResp, wire>>,
           reader'.cmd = reader.cmd, reader'.payload = reader.payload,
           reader'.pc = reader.pc \/ (reader.pc = "top" /\ reader'.pc = "select"),
           \A o \in cmdReverseRegReadMap :
              /\ cmds'[o].want = cmds[o].want /\ cmds'[o].data = cmds[o].data
              /\ cmds'[o].resps = cmds[o].resps
              /\ Unwritten(o)' = Unwritten(o),
           writer'.pc \in {"history", "write"} /\ writer'.cmd \in cmdReverseRegReadMap
              => writer.pc \in {"history", "write"} /\ writer'.cmd = writer.cmd,
           reader.pc = "unreg" => reader.cmd \notin cmdHistory',
           WriterBook', TimeBook', Results'
    PROVE  Books' /\ Flow'
<1>1. Flight' = Flight
  BY DEF Flight
<1>2. \A o \in cmdReverseRegReadMap : Taken(o)' = Taken(o)
  BY DEF Taken
<1>3. \A o \in cmdReverseRegReadMap : Owed(o)' = Owed(o)
  BY <1>2 DEF Owed
<1>4. Flow'
  BY <1>1, <1>3, FlowSame DEF IInv
<1>5. ASSUME NEW o \in cmdReverseRegReadMap' PROVE Account(o)'
  <2>1. Account(o)
    BY DEF Books
  <2> QED
    BY <1>2, <2>1 DEF Account
<1>6. ReaderBook'
  BY DEF Books, ReaderBook
<1> QED
  BY <1>4, <1>5, <1>6 DEF Books

\* the types of the records
LEMMA Records ==
    ASSUME IInv
    PROVE  /\ cmds \in [Objs -> asicCmd]
           /\ \A o \in Objs : cmds[o] \in asicCmd
           /\ writer \in [pc : {"poll", "select", "register", "history", "write", "hit"},
                          cmd : Objs \cup {None}, left : SUBSET Payload]
           /\ reader \in [pc : {"top", "select", "lookup", "credit", "unhist", "unreg", "stuck"},
                          cmd : Objs \cup {None}, payload : Payload \cup {Hit}]
           /\ checker \in [pc : {"idle", "expire", "stuck"}, left : SUBSET Objs]
           /\ cmdReverseRegReadMap \subseteq Objs /\ cmdHistory \subseteq Objs
           /\ call \in [Callers -> [cmd : Objs \cup {None}, val : {0, 1}, whole : BOOLEAN]]
           /\ ToSet(chinput) \subseteq Objs \cup {None} /\ New \subseteq Objs
<1>1. ToSet(chinput) \subseteq Objs \cup {None}
  BY DEF IInv, TypeInv, TypeOK, ToSet
<1>2. New \subseteq Objs
  BY <1>1 DEF New, IInv, TypeInv, Hands
<1> QED
  BY <1>1, <1>2 DEF IInv, TypeInv, TypeOK

\* callers and time do not touch the ledger
LEMMA CallsKeepLedger ==
    ASSUME IInv, Books, Flow,
           NonBlockingWrite \/ ReqestHitResult \/ Quieten \/ UNCHANGED vars
    PROVE  Books' /\ Flow'
<1>1. /\ UNCHANGED <<cmds, call, writer, wire, chResp, reader, cmdRegReadMap,
                     cmdReverseRegReadMap, cmdHistory, checker>>
      /\ chinput' = chinput \/ chinput' = Append(chinput, None)
  BY DEF NonBlockingWrite, ReqestHitResult, Quieten, vars, queues, maps
<1>2. New' = New
  <2>1. chinput \in Seq(Objs \cup {None})
    BY DEF IInv, TypeInv, TypeOK
  <2>2. ToSet(Append(chinput, None)) = ToSet(chinput) \cup {None}
    BY <2>1, AppendOnce
  <2> QED
    BY <1>1, <2>2 DEF New
<1>3. WriterBook' /\ TimeBook' /\ Results'
  BY <1>1, <1>2 DEF Books, WriterBook, TimeBook, Results
<1>4. \A o \in cmdReverseRegReadMap : Unwritten(o)' = Unwritten(o)
  BY <1>1 DEF Unwritten
<1>5. reader.pc = "unreg" => reader.cmd \notin cmdHistory'
  BY <1>1 DEF Books, ReaderBook
<1> QED
  BY <1>1, <1>3, <1>4, <1>5, LedgerSame

\* a new command has nobody else's object, and no answers
LEMMA ReadKeepsLedger ==
    ASSUME IInv, Books, Flow, NEW c \in Callers, NEW want \in Requests, NonBlockingRead(c, want)
    PROVE  Books' /\ Flow'
<1>1. PICK o \in Objs \ Referenced :
          /\ cmds' = [cmds EXCEPT ![o] = newAsicCmd(want)]
          /\ chinput' = Append(chinput, o)
          /\ call' = [call EXCEPT ![c].cmd = o]
  BY DEF NonBlockingRead
<1>2. UNCHANGED <<writer, wire, chResp, reader, cmdRegReadMap, cmdReverseRegReadMap,
                  cmdHistory, checker>>
  BY DEF NonBlockingRead, maps
<1>t. cmds \in [Objs -> asicCmd] /\ chinput \in Seq(Objs \cup {None})
      /\ call \in [Callers -> [cmd : Objs \cup {None}, val : {0, 1}, whole : BOOLEAN]]
      /\ New \subseteq Objs /\ cmdReverseRegReadMap \subseteq Objs /\ cmdHistory \subseteq Objs
      /\ checker.left \subseteq Objs /\ writer.cmd \in Objs \cup {None}
      /\ (writer.pc = "history" => writer.cmd \in Objs)
  BY Records DEF IInv, TypeInv, TypeOK, Hands
<1>3. /\ cmds'[o].data = {} /\ cmds'[o].resps = 0
      /\ \A x \in Objs : x # o => cmds'[x] = cmds[x]
  BY <1>1, <1>t DEF newAsicCmd
<1>4. /\ o \notin cmdReverseRegReadMap /\ o \notin cmdHistory /\ o \notin checker.left
      /\ o # writer.cmd
  BY <1>1 DEF Referenced
<1>5. New' \subseteq New \cup {o}
  <2>1. ToSet(chinput') = ToSet(chinput) \cup {o}
    BY <1>1, <1>t, AppendOnce
  <2> QED
    BY <1>2, <2>1 DEF New
<1>6. WriterBook'
  <2>1. WriterBook
    BY DEF Books
  <2>2. \A x \in New' : cmds'[x].data = {} /\ cmds'[x].resps = 0
    BY <1>3, <1>5, <1>t, <2>1 DEF WriterBook
  <2>3. writer.pc = "history" => cmds'[writer.cmd].want = cmds[writer.cmd].want
    BY <1>3, <1>4, <1>t
  <2> QED
    BY <1>2, <2>1, <2>2, <2>3 DEF WriterBook
<1>7. TimeBook'
  BY <1>2, <1>3, <1>4, <1>t DEF Books, TimeBook
<1>8. Results'
  <2>1. \A d \in Callers : call'[d].val = call[d].val /\ call'[d].whole = call[d].whole
    BY <1>1, <1>t
  <2> QED
    BY <2>1 DEF Books, Results
<1>9. \A x \in cmdReverseRegReadMap : cmds'[x] = cmds[x] /\ Unwritten(x)' = Unwritten(x)
  BY <1>2, <1>3, <1>4, <1>t DEF Unwritten
<1>10. reader.pc = "unreg" => reader.cmd \notin cmdHistory'
  BY <1>2 DEF Books, ReaderBook
<1> QED
  BY <1>2, <1>6, <1>7, <1>8, <1>9, <1>10, LedgerSame

\* cmdwriter takes up a command that is not registered
LEMMA SelectKeepsLedger ==
    ASSUME IInv, Books, Flow, WriterPoll \/ WriterSelect
    PROVE  Books' /\ Flow'
<1>1. /\ UNCHANGED <<cmds, call, wire, chResp, reader, cmdRegReadMap, cmdReverseRegReadMap,
                     cmdHistory, checker>>
      /\ writer.pc \in {"poll", "select"}
  BY DEF WriterPoll, WriterSelect, maps
<1>2. writer.left = {}
  BY <1>1 DEF Books, WriterBook
<1>3. \/ writer'.pc \in {"select", "hit", "poll"} /\ writer'.left = {} /\ New' \subseteq New
      \/ /\ writer'.pc = "register" /\ New' \subseteq New /\ writer'.cmd \in New
  <2>1. CASE writer' = [writer EXCEPT !.pc = "select"] /\ chinput' = chinput
    BY <1>2, <2>1, Records DEF New
  <2>2. CASE chinput0 # <<>> /\ Dispatch(Head(chinput0)) /\ chinput' = chinput
    <3>1. Head(chinput0) = Hit
      BY <2>2, TakeHead DEF IInv, TypeInv, TypeOK
    <3>2. writer' = [pc |-> "hit", cmd |-> None, left |-> {}]
      BY <2>2, <3>1 DEF Dispatch
    <3> QED
      BY <2>2, <3>2 DEF New
  <2>3. CASE chinput # <<>> /\ Dispatch(Head(chinput)) /\ chinput' = Tail(chinput)
    <3>1. /\ Head(chinput) \in Objs \cup {None} /\ Head(chinput) \in ToSet(chinput)
          /\ ToSet(Tail(chinput)) \subseteq ToSet(chinput)
      BY <2>3, TakeHead DEF IInv, TypeInv, TypeOK
    <3>2. CASE Head(chinput) = None
      <4>1. writer'.pc \in {"hit", "poll"} /\ writer'.left = {}
        BY <2>3, <3>2 DEF Dispatch
      <4> QED
        BY <2>3, <3>1, <4>1 DEF New
    <3>3. CASE Head(chinput) # None
      <4>1. Head(chinput) # Hit
        BY <3>1, <3>3, NoneAssumption
      <4>2. writer'.pc = "register" /\ writer'.cmd = Head(chinput)
        BY <2>3, <3>3, <4>1 DEF Dispatch
      <4> QED
        BY <2>3, <3>1, <3>3, <4>2 DEF New
    <3> QED
      BY <3>2, <3>3
  <2> QED
    BY <2>1, <2>2, <2>3 DEF WriterPoll, WriterSelect
<1>4. WriterBook'
  BY <1>1, <1>3 DEF Books, WriterBook
<1>5. TimeBook' /\ Results' /\ (reader.pc = "unreg" => reader.cmd \notin cmdHistory')
  BY <1>1 DEF Books, TimeBook, Results, ReaderBook
<1>6. \A x \in cmdReverseRegReadMap : Unwritten(x)' = Unwritten(x)
  <2>1. \A x \in cmdReverseRegReadMap : x \notin New
    BY DEF IInv, NewInv, Used
  <2> QED
    BY <1>2, <1>3, <2>1 DEF Unwritten
<1>7. ~(writer'.pc \in {"history", "write"})
  BY <1>3
<1> QED
  BY <1>1, <1>4, <1>5, <1>6, <1>7, LedgerSame

\* the history gets the command with its request time
LEMMA HistoryKeepsLedger ==
    ASSUME IInv, Books, Flow, WriterHistory
    PROVE  Books' /\ Flow'
<1> DEFINE o == writer.cmd
<1>1. /\ UNCHANGED <<call, chinput, wire, chResp, reader, cmdRegReadMap, cmdReverseRegReadMap,
                     checker>>
      /\ writer.pc = "history" /\ writer' = [writer EXCEPT !.pc = "write"]
      /\ cmdHistory' = cmdHistory \cup {o}
      /\ cmds' = [cmds EXCEPT ![o] = [cmds[o] EXCEPT !.age = Fresh, !.seen = FALSE,
                                                     !.dark = FALSE]]
  BY DEF WriterHistory, queues, maps
<1>t. o \in Objs
  BY <1>1 DEF IInv, TypeInv, Hands
<1>2. /\ \A x \in Objs : /\ cmds'[x].want = cmds[x].want /\ cmds'[x].data = cmds[x].data
                         /\ cmds'[x].resps = cmds[x].resps
                         /\ (x # o => cmds'[x].age = cmds[x].age)
      /\ cmds'[o].age = Fresh
  BY <1>1, <1>t, Records DEF asicCmd
<1>3. writer'.pc = "write" /\ writer'.cmd = writer.cmd /\ writer'.left = writer.left
  BY <1>1, Records
<1>4. New' = ToSet(chinput) \ {None} /\ New = ToSet(chinput) \ {None}
  BY <1>1, <1>3 DEF New
<1>5. WriterBook /\ TimeBook /\ ReaderBook
  BY DEF Books
<1> HIDE DEF o
<1>6. WriterBook'
  BY <1>1, <1>2, <1>3, <1>4, <1>5, Records DEF WriterBook, o
<1>7. cmds[o].want # {} => o \in cmdReverseRegReadMap
  BY <1>1, <1>5 DEF WriterBook, o
<1>8. TimeBook'
  BY <1>1, <1>2, <1>5, <1>7, Records DEF TimeBook
<1>9. Results'
  BY <1>1 DEF Books, Results
<1>10. reader.pc = "unreg" => reader.cmd \notin cmdHistory'
  <2>1. ASSUME reader.pc = "unreg", reader.cmd = o PROVE FALSE
    <3>1. /\ o \in cmdReverseRegReadMap
          /\ cmds[o].want # {} /\ cmds[o].data = cmds[o].want /\ Account(o)
      BY <1>5, <2>1 DEF ReaderBook, Books
    <3>2. Unwritten(o) = cmds[o].want
      BY <1>1, <1>5 DEF WriterBook, Unwritten, o
    <3> QED
      BY <3>1, <3>2 DEF Account
  <2> QED
    BY <1>1, <1>5, <2>1 DEF ReaderBook
<1>11. \A x \in cmdReverseRegReadMap : Unwritten(x)' = Unwritten(x)
  BY <1>3 DEF Unwritten
<1> QED
  BY <1>1, <1>2, <1>3, <1>6, <1>8, <1>9, <1>10, <1>11, Records, LedgerSame

\* cmdreader's round, and the checker's, change the commands' times only
LEMMA TimesKeepLedger ==
    ASSUME IInv, Books, Flow, ReaderTop \/ CheckerScan
    PROVE  Books' /\ Flow'
<1>1. /\ UNCHANGED <<call, chinput, writer, wire, chResp, cmdRegReadMap, cmdReverseRegReadMap>>
      /\ cmdHistory' \subseteq cmdHistory
      /\ reader' = reader \/ (reader.pc = "top" /\ reader' = [reader EXCEPT !.pc = "select"])
  BY DEF ReaderTop, CheckerScan, queues, maps
<1>2. /\ reader'.cmd = reader.cmd /\ reader'.payload = reader.payload
      /\ reader'.pc = reader.pc \/ (reader.pc = "top" /\ reader'.pc = "select")
  BY <1>1, Records
<1>3. \A x \in Objs : /\ cmds'[x].want = cmds[x].want /\ cmds'[x].data = cmds[x].data
                      /\ cmds'[x].resps = cmds[x].resps
                      /\ cmds'[x].age \in {cmds[x].age, Fresh}
  <2>1. CASE ReaderTop
    <3>1. PICK blackout \in BOOLEAN :
            cmds' = [o \in Objs |->
                       IF o \in cmdHistory
                       THEN [cmds[o] EXCEPT !.seen = TRUE,
                               !.dark = IF blackout THEN cmds[o].seen ELSE @]
                       ELSE cmds[o]]
      BY <2>1 DEF ReaderTop
    <3>2. \A x \in Objs : cmds[x] \in asicCmd
      BY Records
    <3> QED
      BY <3>1, <3>2 DEF asicCmd
  <2>2. CASE CheckerScan
    <3>1. \A x \in Objs : cmds[x] \in asicCmd
      BY Records
    <3>2. PICK dark \in SUBSET cmdHistory :
            cmds' = [x \in Objs |-> IF x \in dark
                                    THEN [cmds[x] EXCEPT !.age = Fresh, !.dark = FALSE]
                                    ELSE cmds[x]]
      BY <2>2 DEF CheckerScan
    <3> QED
      BY <3>1, <3>2 DEF asicCmd
  <2> QED
    BY <2>1, <2>2
<1>4. TimeBook'
  <2>1. TimeBook
    BY DEF Books
  <2>2. \A o \in cmdHistory' :
            cmds'[o].want # {} => o \in cmdReverseRegReadMap /\ cmds'[o].age = Fresh
    BY <1>1, <1>3, <2>1, Records DEF TimeBook
  <2>3. ASSUME NEW o \in checker'.left PROVE cmds'[o].want = {}
    <3>1. CASE ReaderTop
      <4>1. checker' = checker
        BY <3>1 DEF ReaderTop
      <4>2. cmds[o].want = {} /\ o \in Objs
        BY <2>1, <2>3, <4>1, Records DEF TimeBook
      <4> QED
        BY <1>3, <4>2
    <3>2. CASE CheckerScan
      <4>1. checker'.left = {x \in cmdHistory : Expired(x)}
        BY <3>2 DEF CheckerScan
      <4>2. o \in cmdHistory /\ cmds[o].age # Fresh
        BY <2>3, <4>1 DEF Expired
      <4> QED
        BY <1>3, <2>1, <4>2, Records DEF TimeBook
    <3> QED
      BY <3>1, <3>2
  <2> QED
    BY <1>1, <2>2, <2>3 DEF TimeBook
<1>5. New' = New
  BY <1>1 DEF New
<1>6. WriterBook'
  <2>1. writer.pc = "history" => writer.cmd \in Objs
    BY DEF IInv, TypeInv, Hands
  <2> QED
    BY <1>1, <1>3, <1>5, <2>1, Records DEF Books, WriterBook
<1>7. Results' /\ (reader.pc = "unreg" => reader.cmd \notin cmdHistory')
  BY <1>1 DEF Books, Results, ReaderBook
<1>8. \A x \in cmdReverseRegReadMap : Unwritten(x)' = Unwritten(x)
  BY <1>1 DEF Unwritten
<1> QED
  BY <1>1, <1>2, <1>3, <1>4, <1>6, <1>7, <1>8, Records, LedgerSame

\* a command is not finished while it wants answers nobody has
LEMMA OwedInFlight ==
    ASSUME IInv, Books, Flow, NEW o \in cmdReverseRegReadMap, cmds[o].want # {},
           writer.cmd # o, reader.cmd # o
    PROVE  (ToSet(wire) \cup ToSet(chResp) \cup {reader.payload}) \cap cmds[o].want # {}
<1>1. cmds[o].data \subseteq cmds[o].want /\ cmds[o].data # cmds[o].want
  BY DEF Books, Account
<1>2. PICK p \in cmds[o].want : p \notin cmds[o].data
  BY <1>1
<1>3. p \in Owed(o)
  BY <1>2 DEF Owed, Unwritten, Taken
<1>4. PICK i \in Answers : Flight[i] = p
  BY <1>3 DEF Flow, Owned
<1>5. /\ Len(chResp) \in Nat /\ Len(wire) \in Nat /\ p # Hit
      /\ i \in 1 .. (1 + Len(chResp) + Len(wire))
      /\ DOMAIN chResp = 1 .. Len(chResp) /\ DOMAIN wire = 1 .. Len(wire)
  BY <1>4, Places DEF IInv, TypeInv, TypeOK, Answers
<1>6. p = reader.payload \/ p \in ToSet(chResp) \/ p \in ToSet(wire)
  <2>1. CASE i = 1
    BY <1>4, <1>5, <2>1 DEF Flight
  <2>2. CASE i > 1 /\ i <= 1 + Len(chResp)
    <3>1. i - 1 \in DOMAIN chResp /\ p = chResp[i - 1]
      BY <1>4, <1>5, <2>2 DEF Flight
    <3> QED
      BY <3>1 DEF ToSet
  <2>3. CASE i > 1 + Len(chResp)
    <3>1. i - 1 - Len(chResp) \in DOMAIN wire
      BY <1>5, <2>3
    <3>2. p = wire[i - 1 - Len(chResp)]
      BY <1>4, <1>5, <2>3 DEF Flight
    <3> QED
      BY <3>1, <3>2 DEF ToSet
  <2> QED
    BY <1>5, <2>1, <2>2, <2>3
<1> QED
  BY <1>2, <1>6

\* a command that is not overtaken grows old only if it wants nothing
LEMMA AgeKeepsLedger ==
    ASSUME IInv, Books, Flow, ~late', NEW o \in Objs, Age(o)
    PROVE  Books' /\ Flow'
<1>1. /\ UNCHANGED <<call, chinput, writer, wire, chResp, reader, cmdRegReadMap,
                     cmdReverseRegReadMap, cmdHistory, checker>>
      /\ o \in cmdHistory /\ ~OnTheWay(o)
      /\ cmds' = [cmds EXCEPT ![o] = [cmds[o] EXCEPT !.age = cmds[o].age + 1]]
  BY DEF Age, queues, maps
<1>2. /\ \A x \in Objs : /\ cmds'[x].want = cmds[x].want /\ cmds'[x].data = cmds[x].data
                         /\ cmds'[x].resps = cmds[x].resps
                         /\ (x # o => cmds'[x].age = cmds[x].age)
  BY <1>1, Records DEF asicCmd
<1>3. cmds[o].want = {}
  <2>1. ASSUME cmds[o].want # {} PROVE FALSE
    <3>1. o \in cmdReverseRegReadMap
      BY <1>1, <2>1 DEF Books, TimeBook
    <3> QED
      BY <1>1, <2>1, <3>1, OwedInFlight DEF OnTheWay
  <2> QED
    BY <2>1
<1>4. TimeBook' /\ Results'
  BY <1>1, <1>2, <1>3, Records DEF Books, TimeBook, Results
<1>5. WriterBook'
  <2>1. New' = New /\ (writer.pc = "history" => writer.cmd \in Objs)
    BY <1>1 DEF New, IInv, TypeInv, Hands
  <2> QED
    BY <1>1, <1>2, <2>1, Records DEF Books, WriterBook
<1>6. \A x \in cmdReverseRegReadMap : Unwritten(x)' = Unwritten(x)
  BY <1>1 DEF Unwritten
<1>7. reader.pc = "unreg" => reader.cmd \notin cmdHistory'
  BY <1>1 DEF Books, ReaderBook
<1> QED
  BY <1>1, <1>2, <1>4, <1>5, <1>6, <1>7, Records, LedgerSame

\* what steps that only move answers leave alone
LEMMA MoveKeepsBooks ==
    ASSUME Books, UNCHANGED <<cmds, call, chinput, writer, cmdReverseRegReadMap, cmdHistory,
                              checker>>,
           reader' = reader \/ (/\ reader.pc \in {"select", "lookup"}
                                /\ reader'.pc \in {"lookup", "top"})
    PROVE  Books'
<1>1. New' = New
  BY DEF New
<1>2. ASSUME NEW o \in cmdReverseRegReadMap' PROVE Account(o)'
  <2>1. Account(o) /\ Taken(o)' = Taken(o) /\ Unwritten(o)' = Unwritten(o)
    BY DEF Books, Taken, Unwritten
  <2>2. cmds[o].data = cmds[o].want /\ cmds[o].want # {}
          => reader'.pc \in {"unhist", "unreg"} /\ reader'.cmd = o
    BY <2>1 DEF Account
  <2> QED
    BY <2>1, <2>2 DEF Account
<1>3. ReaderBook' /\ WriterBook' /\ TimeBook' /\ Results'
  BY <1>1 DEF Books, ReaderBook, WriterBook, TimeBook, Results
<1> QED
  BY <1>2, <1>3 DEF Books

\* the answers in flight, one of them Hit, and the same answers without it
LEMMA FlowGone ==
    ASSUME IInv, Flow, NEW m \in Nat, NEW k \in 1 .. (m + 1),
           DOMAIN Flight = 1 .. (m + 1), DOMAIN Flight' = 1 .. m, Flight[k] = Hit,
           \A i \in 1 .. m : Flight'[i] = Flight[IF i < k THEN i ELSE i + 1],
           UNCHANGED <<cmdRegReadMap, cmdReverseRegReadMap>>,
           \A o \in cmdReverseRegReadMap : Owed(o)' = Owed(o),
           writer'.pc \in {"history", "write"} /\ writer'.cmd \in cmdReverseRegReadMap
              => writer.pc \in {"history", "write"} /\ writer'.cmd = writer.cmd
    PROVE  Flow'
<1>1. PICK n \in Nat, rank \in [Objs -> Nat] :
          Ranked(n, rank) /\ \E owner \in [DOMAIN Flight -> Objs \cup {None}] : Owned(rank, owner)
  BY DEF Flow
<1>2. PICK owner \in [DOMAIN Flight -> Objs \cup {None}] : Owned(rank, owner)
  BY <1>1
<1>3. Ranked(n, rank)'
  BY <1>1 DEF Ranked
<1>4. \E owner2 \in [DOMAIN Flight' -> Objs \cup {None}] : Owned(rank, owner2)'
  BY <1>2, PlaceGone
<1> QED
  BY <1>3, <1>4 DEF Flow

\* asicRead keeps the order of the answers
LEMMA asicReadKeepsLedger ==
    ASSUME IInv, TypeInv', Books, Flow, asicRead
    PROVE  Books' /\ Flow'
<1>1. /\ UNCHANGED <<cmds, call, chinput, writer, reader, cmdRegReadMap, cmdReverseRegReadMap,
                     cmdHistory, checker>>
      /\ wire # <<>> /\ wire' = Tail(wire)
      /\ IF Head(wire) = Hit THEN chResp' = chResp ELSE chResp' = Append(chResp, Head(wire))
  BY DEF asicRead, queues, maps
<1>2. /\ wire \in Seq(Payload \cup {Hit}) /\ chResp \in Seq(Payload)
      /\ Len(wire) \in Nat /\ Len(chResp) \in Nat /\ Len(wire) > 0
      /\ Len(wire') = Len(wire) - 1
      /\ \A i \in 1 .. (Len(wire) - 1) : wire'[i] = wire[i + 1]
  BY <1>1 DEF IInv, TypeInv, TypeOK
<1>3. Books'
  BY <1>1, MoveKeepsBooks
<1>4. \A o \in cmdReverseRegReadMap : Owed(o)' = Owed(o)
  BY <1>1 DEF Owed, Unwritten, Taken
<1>5. CASE Head(wire) # Hit
  <2>1. /\ Len(chResp') = Len(chResp) + 1
        /\ \A i \in 1 .. Len(chResp) : chResp'[i] = chResp[i]
        /\ chResp'[Len(chResp) + 1] = wire[1]
    BY <1>1, <1>2, <1>5
  <2>2. Flight' = Flight
    <3>1. DOMAIN Flight' = DOMAIN Flight /\ DOMAIN Flight = 1 .. (1 + Len(chResp) + Len(wire))
      BY <1>2, <2>1 DEF Flight
    <3>2. ASSUME NEW i \in 1 .. (1 + Len(chResp) + Len(wire)) PROVE Flight'[i] = Flight[i]
      <4>0. CASE i = 1
        BY <1>1, <1>2, <2>1, <4>0 DEF Flight
      <4>1. CASE i > 1 /\ i <= 1 + Len(chResp)
        <5>1. i - 1 \in 1 .. Len(chResp)
          BY <1>2, <4>1
        <5>2. Flight'[i] = chResp'[i - 1] /\ Flight[i] = chResp[i - 1]
          BY <1>2, <2>1, <4>1 DEF Flight
        <5> QED
          BY <2>1, <5>1, <5>2
      <4>2. CASE i = 2 + Len(chResp)
        BY <1>2, <2>1, <4>2 DEF Flight
      <4>3. CASE i > 2 + Len(chResp)
        <5>1. i - 1 - Len(chResp') \in 1 .. (Len(wire) - 1)
              /\ (i - 1 - Len(chResp')) + 1 = i - 1 - Len(chResp)
          BY <1>2, <2>1, <4>3
        <5>2. Flight'[i] = wire'[i - 1 - Len(chResp')]
          BY <1>2, <2>1, <4>3 DEF Flight
        <5>3. Flight[i] = wire[i - 1 - Len(chResp)]
          BY <1>2, <4>3 DEF Flight
        <5> QED
          BY <1>2, <5>1, <5>2, <5>3
      <4> QED
        BY <1>2, <4>0, <4>1, <4>2, <4>3
    <3> QED
      BY <3>1, <3>2 DEF Flight
  <2> QED
    BY <1>1, <1>3, <1>4, <2>2, FlowSame DEF IInv
<1>6. CASE Head(wire) = Hit
  <2> DEFINE m == Len(chResp) + Len(wire)
             k == 2 + Len(chResp)
  <2>1. chResp' = chResp
    BY <1>1, <1>6
  <2>2. m \in Nat /\ k \in 1 .. (m + 1) /\ m + 1 = 1 + Len(chResp) + Len(wire)
        /\ m = 1 + Len(chResp) + (Len(wire) - 1)
    BY <1>2
  <2>3. DOMAIN Flight = 1 .. (m + 1) /\ DOMAIN Flight' = 1 .. m
    BY <1>2, <2>1, <2>2 DEF Flight
  <2>4. Flight[k] = Hit
    BY <1>2, <1>6 DEF Flight
  <2>5. ASSUME NEW i \in 1 .. m PROVE Flight'[i] = Flight[IF i < k THEN i ELSE i + 1]
    <3>1. CASE i < k
      BY <1>1, <1>2, <2>1, <3>1 DEF Flight
    <3>2. CASE i >= k
      <4>1. i - 1 - Len(chResp) \in 1 .. (Len(wire) - 1)
            /\ (i - 1 - Len(chResp)) + 1 = (i + 1) - 1 - Len(chResp)
        BY <1>2, <3>2
      <4>2. Flight'[i] = wire'[i - 1 - Len(chResp)]
        BY <1>2, <2>1, <3>2 DEF Flight
      <4>3. Flight[i + 1] = wire[(i + 1) - 1 - Len(chResp)]
        BY <1>2, <3>2 DEF Flight
      <4>4. ~(i < k)
        BY <1>2, <3>2
      <4> HIDE DEF m, k
      <4> QED
        BY <1>2, <4>1, <4>2, <4>3, <4>4
    <3> QED
      BY <1>2, <3>1, <3>2
  <2> HIDE DEF m, k
  <2> QED
    BY <1>1, <1>3, <1>4, <2>2, <2>3, <2>4, <2>5, FlowGone
<1> QED
  BY <1>5, <1>6

\* cmdreader takes the oldest answer
LEMMA TakeKeepsLedger ==
    ASSUME IInv, TypeInv', Books, Flow, ReaderTake
    PROVE  Books' /\ Flow'
<1>1. /\ UNCHANGED <<cmds, call, chinput, writer, wire, cmdRegReadMap, cmdReverseRegReadMap,
                     cmdHistory, checker>>
      /\ chResp # <<>> /\ chResp' = Tail(chResp) /\ reader.pc = "select"
      /\ reader' = [pc |-> "lookup", cmd |-> None, payload |-> Head(chResp)]
  BY DEF ReaderTake, queues, maps
<1>2. /\ Len(wire) \in Nat /\ Len(chResp) \in Nat /\ Len(chResp) > 0
      /\ Len(chResp') = Len(chResp) - 1 /\ Head(chResp) = chResp[1]
      /\ \A i \in 1 .. (Len(chResp) - 1) : chResp'[i] = chResp[i + 1]
  BY <1>1 DEF IInv, TypeInv, TypeOK
<1>3. Books'
  BY <1>1, MoveKeepsBooks
<1>4. \A o \in cmdReverseRegReadMap : Owed(o)' = Owed(o)
  BY <1>1 DEF Owed, Unwritten, Taken
<1> DEFINE m == Len(chResp) + Len(wire)
<1>5. m \in Nat /\ 1 \in 1 .. (m + 1) /\ m + 1 = 1 + Len(chResp) + Len(wire)
      /\ m = 1 + (Len(chResp) - 1) + Len(wire)
  BY <1>2
<1>6. DOMAIN Flight = 1 .. (m + 1) /\ DOMAIN Flight' = 1 .. m /\ Flight[1] = Hit
  BY <1>1, <1>2, <1>5 DEF Flight
<1>7. ASSUME NEW i \in 1 .. m PROVE Flight'[i] = Flight[IF i < 1 THEN i ELSE i + 1]
  <2>1. CASE i = 1
    BY <1>1, <1>2, <2>1 DEF Flight
  <2>2. CASE i > 1 /\ i <= Len(chResp)
    <3>1. i - 1 \in 1 .. (Len(chResp) - 1) /\ (i - 1) + 1 = (i + 1) - 1
      BY <1>2, <2>2
    <3>2. Flight'[i] = chResp'[i - 1] /\ Flight[i + 1] = chResp[(i + 1) - 1]
      BY <1>2, <2>2 DEF Flight
    <3> QED
      BY <1>2, <2>2, <3>1, <3>2
  <2>3. CASE i > Len(chResp)
    <3>1. Flight'[i] = wire[i - 1 - (Len(chResp) - 1)]
      BY <1>1, <1>2, <2>3 DEF Flight
    <3>2. Flight[i + 1] = wire[(i + 1) - 1 - Len(chResp)]
      BY <1>2, <2>3 DEF Flight
    <3>3. i - 1 - (Len(chResp) - 1) = (i + 1) - 1 - Len(chResp) /\ ~(i < 1)
      BY <1>2, <2>3
    <3> QED
      BY <3>1, <3>2, <3>3
  <2> QED
    BY <1>2, <2>1, <2>2, <2>3
<1> HIDE DEF m
<1> QED
  BY <1>1, <1>3, <1>4, <1>5, <1>6, <1>7, FlowGone

\* cmdwriter puts a command behind those registered before
LEMMA RegisterKeepsLedger ==
    ASSUME IInv, TypeInv', Books, Flow, WriterRegister
    PROVE  Books' /\ Flow'
<1>0. PICK o \in Objs : o = writer.cmd
  BY DEF WriterRegister, IInv, TypeInv, Hands
<1>1. /\ UNCHANGED <<cmds, call, chinput, wire, chResp, reader, cmdHistory, checker>>
      /\ writer.pc = "register" /\ writer' = [writer EXCEPT !.pc = "history"]
      /\ cmdRegReadMap' = [p \in Payload |-> IF p \in writer.left
                                             THEN Append(cmdRegReadMap[p], o)
                                             ELSE cmdRegReadMap[p]]
      /\ cmdReverseRegReadMap' = cmdReverseRegReadMap \cup {o}
  BY <1>0 DEF WriterRegister, queues
<1>2. /\ writer'.pc = "history" /\ writer'.cmd = o /\ writer'.left = writer.left
      /\ o \in Objs /\ o \in New /\ writer.left = cmds[o].want
  BY <1>0, <1>1, Records DEF IInv, New, NewInv
<1>3. /\ o \notin cmdReverseRegReadMap /\ o \notin cmdHistory /\ o \notin checker.left
      /\ o # reader.cmd
  <2>1. o \notin Used
    BY <1>2 DEF IInv, NewInv
  <2>2. o # None
    BY <1>2, NoneAssumption
  <2> QED
    BY <2>1, <2>2 DEF Used
<1>4. cmds[o].data = {} /\ cmds[o].resps = 0
  BY <1>2 DEF Books, WriterBook
<1>5. /\ \A x \in cmdReverseRegReadMap : Unwritten(x)' = Unwritten(x) /\ Taken(x)' = Taken(x)
      /\ Unwritten(o)' = cmds[o].want /\ Taken(o)' = {}
  BY <1>0, <1>1, <1>2, <1>3 DEF Unwritten, Taken
<1>6. ASSUME NEW x \in cmdReverseRegReadMap' PROVE Account(x)'
  <2>1. CASE x = o
    BY <1>1, <1>4, <1>5, <2>1, FS_EmptySet DEF Account
  <2>2. CASE x # o
    <3>1. x \in cmdReverseRegReadMap /\ Account(x)
      BY <1>1, <2>2 DEF Books
    <3> QED
      BY <1>1, <1>5, <3>1 DEF Account
  <2> QED
    BY <2>1, <2>2
<1>7. Books'
  <2>1. New' \subseteq New
    BY <1>1, <1>2 DEF New
  <2>2. ReaderBook' /\ TimeBook' /\ Results'
    BY <1>1 DEF Books, ReaderBook, TimeBook, Results
  <2>3. WriterBook'
    BY <1>1, <1>2, <2>1 DEF Books, WriterBook
  <2> QED
    BY <1>6, <2>2, <2>3 DEF Books
<1>8. PICK n \in Nat, rank \in [Objs -> Nat] :
          Ranked(n, rank) /\ \E owner \in [DOMAIN Flight -> Objs \cup {None}] : Owned(rank, owner)
  BY DEF Flow
<1>9. PICK owner \in [DOMAIN Flight -> Objs \cup {None}] : Owned(rank, owner)
  BY <1>8
<1>r. PICK rank2 \in [Objs -> Nat] : rank2 = [rank EXCEPT ![o] = n]
  BY <1>8
<1>10. /\ rank2[o] = n
       /\ \A x \in cmdReverseRegReadMap : rank2[x] = rank[x] /\ rank[x] < n
       /\ \A x \in Objs : rank2[x] < n + 1
  BY <1>2, <1>3, <1>8, <1>r, Records DEF Ranked
<1>11. Ranked(n + 1, rank2)'
  <2>1. \A x, y \in cmdReverseRegReadMap' : rank2[x] = rank2[y] => x = y
    BY <1>1, <1>8, <1>10 DEF Ranked
  <2>2. ASSUME NEW p \in Payload, NEW i \in DOMAIN cmdRegReadMap'[p],
               NEW j \in DOMAIN cmdRegReadMap'[p], i < j
        PROVE  rank2[cmdRegReadMap'[p][i]] < rank2[cmdRegReadMap'[p][j]]
    <3> DEFINE q == cmdRegReadMap[p]
    <3>1. q \in Seq(Objs) /\ \A k \in DOMAIN q : q[k] \in cmdReverseRegReadMap
      <4>1. \A k \in DOMAIN q : q[k] \in ToSet(q)
        BY DEF ToSet
      <4> QED
        BY <4>1 DEF IInv, TypeInv, TypeOK, MapsAgree
    <3>2. \A k, l \in DOMAIN q : k < l => rank2[q[k]] < rank2[q[l]]
      BY <1>8, <1>10, <3>1 DEF Ranked
    <3>3. CASE p \in writer.left
      <4>1. cmdRegReadMap'[p] = Append(q, o)
        BY <1>1, <3>3
      <4> HIDE DEF q
      <4>2. /\ DOMAIN Append(q, o) = 1 .. (Len(q) + 1) /\ DOMAIN q = 1 .. Len(q)
            /\ Len(q) \in Nat /\ Append(q, o)[Len(q) + 1] = o
            /\ \A k \in DOMAIN q : Append(q, o)[k] = q[k]
        BY <3>1
      <4>3. i \in DOMAIN q /\ (j \in DOMAIN q \/ j = Len(q) + 1)
        BY <2>2, <4>1, <4>2
      <4> QED
        BY <1>10, <2>2, <3>1, <3>2, <4>1, <4>2, <4>3
    <3>4. CASE p \notin writer.left
      BY <1>1, <2>2, <3>2, <3>4
    <3> QED
      BY <3>3, <3>4
  <2>3. \A x \in cmdReverseRegReadMap' : rank2[x] <= rank2[o]
    <3>1. \A x \in cmdReverseRegReadMap : rank2[x] <= n
      BY <1>8, <1>10, Records
    <3> QED
      BY <1>1, <1>10, <3>1
  <2> QED
    BY <1>2, <1>10, <2>1, <2>2, <2>3 DEF Ranked
<1>12. Owned(rank2, owner)'
  <2>1. Flight' = Flight /\ Answers' = Answers
    BY <1>1 DEF Flight, Answers
  <2>2. \A x \in cmdReverseRegReadMap : Owed(x)' = Owed(x)
    BY <1>1, <1>5 DEF Owed
  <2>3. Owed(o)' = {}
    BY <1>1, <1>5 DEF Owed
  <2> QED
    BY <1>1, <1>9, <1>10, <2>1, <2>2, <2>3 DEF Owned
<1>13. owner \in [DOMAIN Flight' -> Objs \cup {None}] /\ n + 1 \in Nat
  BY <1>1 DEF Flight
<1> QED
  BY <1>7, <1>10, <1>11, <1>12, <1>13 DEF Flow

\* a register of a chip is asked for, or cmdwriter is done with a command
LEMMA WriteKeepsLedger ==
    ASSUME IInv, TypeInv', Books, Flow, Dead = {}, ~late', WriterWrite
    PROVE  Books' /\ Flow'
<1>0. PICK o \in Objs : o = writer.cmd
  BY DEF WriterWrite, IInv, TypeInv, Hands
<1>1. /\ UNCHANGED <<cmds, call, chinput, chResp, reader, cmdRegReadMap, cmdReverseRegReadMap,
                     cmdHistory, checker>>
      /\ writer.pc = "write"
  BY DEF WriterWrite, queues, maps
<1>2. Len(chResp) \in Nat /\ Len(wire) \in Nat
  BY DEF IInv, TypeInv, TypeOK
<1>3. CASE writer.left = {} /\ writer' = [pc |-> "poll", cmd |-> None, left |-> {}] /\ wire' = wire
  <2>1. New' = New
    BY <1>1, <1>3 DEF New
  <2>2. /\ WriterBook' /\ TimeBook' /\ Results'
        /\ reader.pc = "unreg" => reader.cmd \notin cmdHistory'
    BY <1>1, <1>3, <2>1 DEF Books, WriterBook, TimeBook, Results, ReaderBook
  <2>3. \A x \in cmdReverseRegReadMap : Unwritten(x)' = Unwritten(x)
    BY <1>3 DEF Unwritten
  <2>4. ~(writer'.pc \in {"history", "write"})
    BY <1>3
  <2> QED
    BY <1>1, <1>3, <2>2, <2>3, <2>4, LedgerSame
<1>4. ASSUME NEW p \in writer.left, writer' = [writer EXCEPT !.left = writer.left \ {p}],
             wire' = Append(wire, p)
      PROVE  Books' /\ Flow'
  <2>1. /\ o \in cmdReverseRegReadMap /\ o \in Objs /\ p \in Payload /\ p # Hit
        /\ p \in cmds[o].want /\ p \notin cmds[o].data \cup Taken(o)
        /\ writer'.pc = "write" /\ writer'.cmd = o /\ writer'.left = writer.left \ {p}
    <3>1. o \in cmdReverseRegReadMap
      BY <1>0, <1>1, <1>4 DEF Books, WriterBook
    <3>2. Account(o) /\ p \in Unwritten(o)
      BY <1>0, <1>4, <3>1 DEF Books, Unwritten
    <3> QED
      BY <1>0, <1>1, <1>4, <3>1, <3>2, Records, NoneAssumption DEF Account
  <2>2. /\ Unwritten(o)' = Unwritten(o) \ {p} /\ p \in Unwritten(o)
        /\ \A x \in cmdReverseRegReadMap : /\ x # o => Unwritten(x)' = Unwritten(x)
                                           /\ Taken(x)' = Taken(x)
    BY <1>0, <1>1, <1>4, <2>1 DEF Unwritten, Taken
  <2>3. Books'
    <3>1. ASSUME NEW x \in cmdReverseRegReadMap' PROVE Account(x)'
      <4>1. Account(x)
        BY <1>1 DEF Books
      <4> QED
        BY <1>1, <2>2, <4>1 DEF Account
    <3>2. New' = New
      BY <1>1, <2>1 DEF New
    <3>3. ReaderBook' /\ WriterBook' /\ TimeBook' /\ Results'
      BY <1>0, <1>1, <2>1, <3>2 DEF Books, ReaderBook, WriterBook, TimeBook, Results
    <3> QED
      BY <3>1, <3>3 DEF Books
  <2>4. PICK n \in Nat, rank \in [Objs -> Nat] :
          Ranked(n, rank) /\ \E owner \in [DOMAIN Flight -> Objs \cup {None}] : Owned(rank, owner)
    BY DEF Flow
  <2>5. PICK owner \in [DOMAIN Flight -> Objs \cup {None}] : Owned(rank, owner)
    BY <2>4
  <2>6. Ranked(n, rank)' /\ \A x \in cmdReverseRegReadMap : rank[x] <= rank[o]
    BY <1>0, <1>1, <2>1, <2>4 DEF Ranked
  <2> DEFINE m == 1 + Len(chResp) + Len(wire)
  <2>7. /\ wire \in Seq(Payload \cup {Hit}) /\ Len(wire') = Len(wire) + 1
        /\ wire'[Len(wire) + 1] = p /\ \A i \in 1 .. Len(wire) : wire'[i] = wire[i]
    BY <1>4, <2>1 DEF IInv, TypeInv, TypeOK
  <2>8. m \in Nat /\ DOMAIN Flight = 1 .. m /\ DOMAIN Flight' = 1 .. (m + 1) /\ Flight'[m + 1] = p
    BY <1>1, <1>2, <2>7 DEF Flight
  <2>9. ASSUME NEW i \in 1 .. m PROVE Flight'[i] = Flight[i]
    <3>1. CASE i <= 1 + Len(chResp)
      BY <1>1, <1>2, <2>7, <3>1 DEF Flight
    <3>2. CASE i > 1 + Len(chResp)
      <4>1. i - 1 - Len(chResp) \in 1 .. Len(wire)
        BY <1>2, <3>2
      <4>2. Flight[i] = wire[i - 1 - Len(chResp)] /\ Flight'[i] = wire'[i - 1 - Len(chResp)]
        BY <1>1, <1>2, <2>7, <3>2 DEF Flight
      <4> QED
        BY <2>7, <4>1, <4>2
    <3> QED
      BY <1>2, <3>1, <3>2
  <2>10. /\ p \notin Owed(o) /\ Owed(o)' = Owed(o) \cup {p}
         /\ \A x \in cmdReverseRegReadMap : x # o => Owed(x)' = Owed(x)
    BY <1>1, <2>1, <2>2 DEF Owed
  <2>11. cmdReverseRegReadMap \subseteq Objs
    BY Records
  <2> HIDE DEF m
  <2>12. \E owner2 \in [DOMAIN Flight' -> Objs \cup {None}] : Owned(rank, owner2)'
    BY <1>1, <2>1, <2>5, <2>6, <2>8, <2>9, <2>10, <2>11, AnswerSent
  <2>13. Flow'
    BY <2>6, <2>12 DEF Flow
  <2> QED
    BY <2>3, <2>13
<1>5. \/ writer.left = {} /\ writer' = [pc |-> "poll", cmd |-> None, left |-> {}] /\ wire' = wire
      \/ \E p \in writer.left : /\ writer' = [writer EXCEPT !.left = writer.left \ {p}]
                                /\ wire' = Append(wire, p)
  BY Zenon DEF WriterWrite, Answer
<1> QED
  BY <1>3, <1>4, <1>5

\* a hit result takes a place nobody is owed
LEMMA HitKeepsLedger ==
    ASSUME IInv, TypeInv', Books, Flow, WriterHit
    PROVE  Books' /\ Flow'
<1>1. /\ UNCHANGED <<cmds, call, chinput, chResp, reader, cmdRegReadMap, cmdReverseRegReadMap,
                     cmdHistory, checker>>
      /\ writer.pc = "hit" /\ writer' = [writer EXCEPT !.pc = "poll"]
      /\ wire' = wire \/ wire' = Append(wire, Hit)
  BY DEF WriterHit, Answer, queues, maps
<1>2. writer'.pc = "poll" /\ writer'.cmd = writer.cmd /\ writer'.left = writer.left
  BY <1>1, Records
<1>3. New' = New
  BY <1>1, <1>2 DEF New
<1>4. WriterBook' /\ TimeBook' /\ Results' /\ ReaderBook'
  BY <1>1, <1>2, <1>3 DEF Books, WriterBook, TimeBook, Results, ReaderBook
<1>5. \A x \in cmdReverseRegReadMap :
          Unwritten(x)' = Unwritten(x) /\ Taken(x)' = Taken(x) /\ Owed(x)' = Owed(x)
  BY <1>1, <1>2 DEF Unwritten, Taken, Owed
<1>6. Books'
  <2>1. ASSUME NEW x \in cmdReverseRegReadMap' PROVE Account(x)'
    BY <1>1, <1>5 DEF Books, Account
  <2> QED
    BY <1>4, <2>1 DEF Books
<1>7. CASE wire' = wire
  <2>1. Flight' = Flight
    BY <1>1, <1>7 DEF Flight
  <2> QED
    BY <1>1, <1>2, <1>5, <1>6, <2>1, FlowSame DEF IInv
<1>8. CASE wire' = Append(wire, Hit)
  <2>1. PICK n \in Nat, rank \in [Objs -> Nat] :
          Ranked(n, rank) /\ \E owner \in [DOMAIN Flight -> Objs \cup {None}] : Owned(rank, owner)
    BY DEF Flow
  <2>2. PICK owner \in [DOMAIN Flight -> Objs \cup {None}] : Owned(rank, owner)
    BY <2>1
  <2> DEFINE m == 1 + Len(chResp) + Len(wire)
  <2>3. /\ wire \in Seq(Payload \cup {Hit}) /\ Len(wire') = Len(wire) + 1 /\ Len(wire) \in Nat
        /\ wire'[Len(wire) + 1] = Hit /\ \A i \in 1 .. Len(wire) : wire'[i] = wire[i]
        /\ Len(chResp) \in Nat
    <3>1. wire \in Seq(Payload \cup {Hit}) /\ chResp \in Seq(Payload)
      BY DEF IInv, TypeInv, TypeOK
    <3> QED
      BY <1>8, <3>1
  <2>4. m \in Nat /\ DOMAIN Flight = 1 .. m /\ DOMAIN Flight' = 1 .. (m + 1) /\ Flight'[m + 1] = Hit
    BY <1>1, <2>3 DEF Flight
  <2>5. ASSUME NEW i \in 1 .. m PROVE Flight'[i] = Flight[i]
    <3>1. CASE i <= 1 + Len(chResp)
      BY <1>1, <2>3, <3>1 DEF Flight
    <3>2. CASE i > 1 + Len(chResp)
      <4>1. i - 1 - Len(chResp) \in 1 .. Len(wire)
        BY <2>3, <3>2
      <4>2. Flight[i] = wire[i - 1 - Len(chResp)] /\ Flight'[i] = wire'[i - 1 - Len(chResp)]
        BY <1>1, <2>3, <3>2 DEF Flight
      <4> QED
        BY <2>3, <4>1, <4>2
    <3> QED
      BY <2>3, <3>1, <3>2
  <2> HIDE DEF m
  <2>o. PICK owner2 \in [DOMAIN Flight' -> Objs \cup {None}] :
            owner2 = [i \in 1 .. (m + 1) |-> IF i <= m THEN owner[i] ELSE None]
    <3>1. [i \in 1 .. (m + 1) |-> IF i <= m THEN owner[i] ELSE None]
             \in [1 .. (m + 1) -> Objs \cup {None}]
      BY <2>2, <2>4
    <3> QED
      BY <2>4, <3>1
  <2>6. /\ Answers' = Answers
        /\ \A i \in Answers : owner2[i] = owner[i] /\ Flight'[i] = Flight[i]
    BY <2>2, <2>4, <2>5, <2>o DEF Answers
  <2>7. Owned(rank, owner2)'
    <3>1. \A x \in cmdReverseRegReadMap' : x \in cmdReverseRegReadMap /\ Owed(x)' = Owed(x)
      BY <1>1, <1>5
    <3>2. \A i \in Answers :
              owner2[i] \in cmdReverseRegReadMap' /\ Flight'[i] \in Owed(owner2[i])'
      BY <1>1, <2>2, <2>6, <3>1 DEF Owned
    <3>3. \A x \in cmdReverseRegReadMap' : \A r \in Owed(x)' :
              \E i \in Answers : owner2[i] = x /\ Flight'[i] = r
      BY <2>2, <2>6, <3>1 DEF Owned
    <3>4. \A i, j \in Answers : /\ owner2[i] = owner2[j] /\ Flight'[i] = Flight'[j] => i = j
                                /\ i < j => rank[owner2[i]] <= rank[owner2[j]]
      BY <2>2, <2>6 DEF Owned
    <3> QED
      BY <2>6, <3>2, <3>3, <3>4 DEF Owned
  <2>8. Ranked(n, rank)'
    BY <1>1, <1>2, <2>1 DEF Ranked
  <2> QED
    BY <1>6, <2>6, <2>7, <2>8 DEF Flow
<1> QED
  BY <1>1, <1>7, <1>8

\* the oldest command that wants the answer is the one it is owed to
LEMMA OldestIsOwner ==
    ASSUME IInv, Books, NEW n \in Nat, NEW rank \in [Objs -> Nat], Ranked(n, rank),
           NEW owner \in [DOMAIN Flight -> Objs \cup {None}], Owned(rank, owner),
           reader.pc = "lookup"
    PROVE  /\ 1 \in Answers /\ Flight[1] = reader.payload /\ reader.payload \in Payload
           /\ cmdRegReadMap[reader.payload] # <<>>
           /\ Head(cmdRegReadMap[reader.payload]) = owner[1]
<1> DEFINE p  == reader.payload
           cs == cmdRegReadMap[p]
<1>1. p \in Payload /\ cs \in Seq(Objs) /\ 1 \in Answers /\ Flight[1] = p
  <2>1. /\ p \in Payload /\ cs \in Seq(Objs) /\ Len(chResp) \in Nat /\ Len(wire) \in Nat
        /\ p # Hit
    BY NoneAssumption DEF IInv, TypeInv, TypeOK, Hands
  <2>2. 1 \in DOMAIN Flight /\ Flight[1] = p
    BY <2>1 DEF Flight
  <2> QED
    BY <2>1, <2>2 DEF Answers
<1>2. PICK o \in cmdReverseRegReadMap : o = owner[1] /\ p \in Owed(o)
  BY <1>1 DEF Owned
<1>3. ToSet(cs) = {x \in cmdReverseRegReadMap : p \in cmds[x].want}
  BY <1>1 DEF IInv, MapsAgree
<1> HIDE DEF p, cs
<1>4. PICK k \in DOMAIN cs : cs[k] = o
  BY <1>2, <1>3 DEF ToSet, Owed
<1>5. cs # <<>> /\ Head(cs) = cs[1] /\ 1 \in DOMAIN cs /\ DOMAIN cs = 1 .. Len(cs)
  BY <1>1, <1>4
<1>6. PICK h \in cmdReverseRegReadMap : h = cs[1] /\ p \in cmds[h].want
  BY <1>3, <1>5 DEF ToSet
<1>7. ASSUME h # o PROVE FALSE
  <2>1. rank[h] < rank[o]
    <3>1. 1 < k /\ k \in Nat
      BY <1>4, <1>5, <1>6, <1>7
    <3> QED
      BY <1>1, <1>4, <1>5, <1>6, <3>1 DEF Ranked, cs
  <2>2. rank[h] \in Nat /\ rank[o] \in Nat
    BY Records
  <2>3. ASSUME NEW q \in Owed(h) PROVE FALSE
    <3>1. PICK i \in Answers : owner[i] = h
      BY DEF Owned
    <3>2. i >= 1 /\ (i = 1 \/ 1 < i)
      BY DEF Answers, Flight
    <3>3. rank[o] <= rank[h]
      BY <1>1, <1>2, <2>2, <3>1, <3>2 DEF Owned
    <3> QED
      BY <2>1, <2>2, <3>3
  <2>4. Unwritten(h) = {}
    <3>1. ASSUME Unwritten(h) # {} PROVE FALSE
      <4>1. writer.cmd = h /\ writer.left # {}
        BY <3>1 DEF Unwritten
      <4>2. writer.pc \in {"register", "history", "write"}
        BY <4>1 DEF Books, WriterBook
      <4>3. writer.pc # "register"
        BY <4>1 DEF IInv, NewInv, New, Used
      <4>4. rank[o] <= rank[h]
        BY <4>1, <4>2, <4>3 DEF Ranked
      <4> QED
        BY <2>1, <2>2, <4>4
    <3> QED
      BY <3>1
  <2>5. Taken(h) = {}
    BY DEF Taken
  <2>6. cmds[h].data # cmds[h].want /\ cmds[h].data \subseteq cmds[h].want
    BY <1>6 DEF Books, Account
  <2>7. PICK q \in cmds[h].want : q \notin cmds[h].data
    BY <2>6
  <2>8. q \in Owed(h)
    BY <2>4, <2>5, <2>7 DEF Owed
  <2> QED
    BY <2>3, <2>8
<1> QED
  BY <1>1, <1>2, <1>5, <1>6, <1>7 DEF p, cs

\* cmdreader finds the command an answer is owed to
LEMMA LookupKeepsLedger ==
    ASSUME IInv, TypeInv', Books, Flow, ReaderLookup
    PROVE  Books' /\ Flow'
<1>1. /\ UNCHANGED <<cmds, call, chinput, writer, wire, chResp, cmdRegReadMap,
                     cmdReverseRegReadMap, cmdHistory, checker>>
      /\ reader.pc = "lookup"
      /\ cmdRegReadMap[reader.payload] # <<>> =>
            reader' = [reader EXCEPT !.pc = "credit", !.cmd = Head(cmdRegReadMap[reader.payload])]
  BY DEF ReaderLookup, queues, maps
<1>2. PICK n \in Nat, rank \in [Objs -> Nat] :
          Ranked(n, rank) /\ \E owner \in [DOMAIN Flight -> Objs \cup {None}] : Owned(rank, owner)
  BY DEF Flow
<1>3. PICK owner \in [DOMAIN Flight -> Objs \cup {None}] : Owned(rank, owner)
  BY <1>2
<1>4. /\ 1 \in Answers /\ Flight[1] = reader.payload /\ reader.payload \in Payload
      /\ cmdRegReadMap[reader.payload] # <<>>
      /\ Head(cmdRegReadMap[reader.payload]) = owner[1]
  BY <1>1, <1>2, <1>3, OldestIsOwner
<1>5. reader'.pc = "credit" /\ reader'.cmd = owner[1] /\ reader'.payload = reader.payload
  BY <1>1, <1>4, Records
<1>6. PICK o \in cmdReverseRegReadMap : o = owner[1]
  BY <1>3, <1>4 DEF Owned
<1>7. /\ reader.payload \in Owed(o)
      /\ Taken(o)' = {reader.payload} /\ Taken(o) = {}
      /\ \A x \in cmdReverseRegReadMap : x # o => Taken(x)' = Taken(x)
      /\ \A x \in cmdReverseRegReadMap : Unwritten(x)' = Unwritten(x)
  BY <1>1, <1>3, <1>4, <1>5, <1>6 DEF Owned, Taken, Unwritten
<1>8. Books'
  <2>1. ASSUME NEW x \in cmdReverseRegReadMap' PROVE Account(x)'
    <3>1. Account(x) /\ ~(cmds[x].data = cmds[x].want /\ cmds[x].want # {})
      BY <1>1 DEF Books, Account
    <3> QED
      BY <1>1, <1>6, <1>7, <3>1 DEF Account, Owed
  <2>2. ReaderBook'
    BY <1>1, <1>5, <1>6, <1>7 DEF ReaderBook, Owed
  <2>3. New' = New
    BY <1>1 DEF New
  <2>4. WriterBook' /\ TimeBook' /\ Results'
    BY <1>1, <2>3 DEF Books, WriterBook, TimeBook, Results
  <2> QED
    BY <2>1, <2>2, <2>4 DEF Books
<1>9. Owned(rank, owner)'
  <2>1. DOMAIN Flight' = DOMAIN Flight /\ Flight'[1] = Hit
        /\ \A i \in DOMAIN Flight : i # 1 => Flight'[i] = Flight[i]
    <3>1. Len(chResp) \in Nat /\ Len(wire) \in Nat
      <4>1. wire \in Seq(Payload \cup {Hit}) /\ chResp \in Seq(Payload)
        BY DEF IInv, TypeInv, TypeOK
      <4> QED
        BY <4>1
    <3> QED
      BY <1>1, <1>5, <3>1 DEF Flight
  <2>2. Owed(o)' = Owed(o) \ {Flight[1]}
    BY <1>1, <1>4, <1>7 DEF Owed
  <2>3. \A x \in cmdReverseRegReadMap : x # o => Owed(x)' = Owed(x)
    BY <1>1, <1>7 DEF Owed
  <2> QED
    BY <1>1, <1>3, <1>4, <1>6, <2>1, <2>2, <2>3, FirstTaken
<1>10. Ranked(n, rank)'
  BY <1>1, <1>2 DEF Ranked
<1>11. DOMAIN Flight' = DOMAIN Flight
  BY <1>1 DEF Flight
<1> QED
  BY <1>3, <1>8, <1>9, <1>10, <1>11 DEF Flow

\* a credited answer is counted once, and the last one completes the command
LEMMA CreditKeepsLedger ==
    ASSUME IInv, TypeInv', Books, Flow, ReaderCredit
    PROVE  Books' /\ Flow'
<1>0. PICK o \in Objs : o = reader.cmd
  BY DEF ReaderCredit, IInv, TypeInv, Hands
<1>p. PICK p \in Payload : p = reader.payload
  BY DEF ReaderCredit, IInv, TypeInv, Hands
<1>1. /\ UNCHANGED <<call, chinput, writer, wire, chResp, cmdRegReadMap,
                     cmdReverseRegReadMap, cmdHistory, checker>>
      /\ reader.pc = "credit"
      /\ cmds' = [cmds EXCEPT ![o] =
                    [cmds[o] EXCEPT !.data = cmds[o].data \cup {p}, !.responded = TRUE,
                                    !.resps = cmds[o].resps + 1,
                                    !.finished = cmds[o].finished
                                        \/ cmds[o].resps + 1 = Cardinality(cmds[o].want),
                                    !.stale = cmds[o].stale \/ Released(o)]]
      /\ reader' = IF cmds[o].resps + 1 = Cardinality(cmds[o].want)
                   THEN [reader EXCEPT !.pc = "unhist"] ELSE NextAnswer
  BY <1>0, <1>p DEF ReaderCredit, queues, maps
<1>2. /\ o \in cmdReverseRegReadMap /\ p \in cmds[o].want /\ p \notin cmds[o].data
      /\ Account(o) /\ Taken(o) = {p}
  BY <1>0, <1>p, <1>1 DEF Books, ReaderBook, Taken
<1>3. /\ cmds'[o].want = cmds[o].want /\ cmds'[o].data = cmds[o].data \cup {p}
      /\ cmds'[o].resps = cmds[o].resps + 1 /\ cmds'[o].age = cmds[o].age
      /\ \A x \in Objs : x # o => cmds'[x] = cmds[x]
  BY <1>1, Records DEF asicCmd
<1>4. /\ cmds[o].want \subseteq Payload /\ IsFiniteSet(cmds[o].want)
      /\ IsFiniteSet(cmds[o].data) /\ cmds'[o].data \subseteq cmds[o].want
  <2>1. cmds[o].want \subseteq Payload
    BY Records DEF asicCmd
  <2> QED
    BY <1>2, <1>3, <2>1, FiniteAssumption, FS_Subset DEF Account
<1>5. Cardinality(cmds'[o].data) = cmds'[o].resps
  <2>1. Cardinality(cmds[o].data \cup {p}) = Cardinality(cmds[o].data) + 1
    BY <1>2, <1>4, FS_AddElement
  <2> QED
    BY <1>2, <1>3, <2>1 DEF Account
<1>6. cmds'[o].data = cmds[o].want <=> cmds[o].resps + 1 = Cardinality(cmds[o].want)
  <2>1. cmds'[o].data # cmds[o].want => Cardinality(cmds'[o].data) < Cardinality(cmds[o].want)
    <3>1. Cardinality(cmds'[o].data) \in Nat /\ Cardinality(cmds[o].want) \in Nat
      BY <1>4, FS_Subset, FS_CardinalityType
    <3> QED
      BY <1>4, <3>1, FS_Subset
  <2>2. Cardinality(cmds'[o].data) \in Nat /\ Cardinality(cmds[o].want) \in Nat
    BY <1>4, FS_Subset, FS_CardinalityType
  <2> DEFINE got == Cardinality(cmds'[o].data)
             all == Cardinality(cmds[o].want)
  <2>3. got = cmds[o].resps + 1 /\ (cmds'[o].data = cmds[o].want => got = all)
    BY <1>3, <1>5
  <2>4. cmds'[o].data # cmds[o].want => got # all
    <3> HIDE DEF got, all
    <3> QED
      BY <2>1, <2>2 DEF got, all
  <2> QED
    BY <2>3, <2>4
<1>7. \/ reader'.pc = "unhist" /\ reader'.cmd = o /\ cmds'[o].data = cmds[o].want
      \/ reader'.pc = "top" /\ cmds'[o].data # cmds[o].want
  <2>1. CASE cmds[o].resps + 1 = Cardinality(cmds[o].want)
    <3>1. reader' = [reader EXCEPT !.pc = "unhist"] /\ cmds'[o].data = cmds[o].want
      BY <1>1, <1>6, <2>1
    <3>2. reader'.pc = "unhist" /\ reader'.cmd = reader.cmd
      BY <3>1, Records
    <3> QED
      BY <1>0, <3>1, <3>2
  <2>2. CASE cmds[o].resps + 1 # Cardinality(cmds[o].want)
    BY <1>1, <1>6, <2>2 DEF NextAnswer
  <2> QED
    BY <2>1, <2>2
<1>8. \A x \in cmdReverseRegReadMap :
          /\ Unwritten(x)' = Unwritten(x) /\ Taken(x)' = {}
          /\ x # o => Taken(x) = {}
          /\ Owed(x)' = Owed(x)
  <2>1. \A x \in cmdReverseRegReadMap :
            /\ Unwritten(x)' = Unwritten(x) /\ Taken(x)' = {}
            /\ x # o => Taken(x) = {}
    BY <1>0, <1>1, <1>7 DEF Unwritten, Taken
  <2>2. Owed(o)' = Owed(o)
    BY <1>2, <1>3, <2>1 DEF Owed
  <2>3. \A x \in cmdReverseRegReadMap : x # o => Owed(x)' = Owed(x)
    BY <1>3, <2>1, Records DEF Owed
  <2> QED
    BY <2>1, <2>2, <2>3
<1>9. Books'
  <2>1. ASSUME NEW x \in cmdReverseRegReadMap' PROVE Account(x)'
    <3>1. CASE x = o
      BY <1>1, <1>2, <1>3, <1>4, <1>5, <1>7, <1>8, <3>1 DEF Account
    <3>2. CASE x # o
      <4>1. cmds'[x] = cmds[x] /\ Account(x)
        BY <1>1, <1>3, <3>2, Records DEF Books
      <4>2. ~(cmds[x].data = cmds[x].want /\ cmds[x].want # {})
        BY <1>1, <4>1 DEF Account
      <4> QED
        BY <1>1, <1>8, <4>1, <4>2 DEF Account
    <3> QED
      BY <3>1, <3>2
  <2>2. ReaderBook'
    <3>1. CASE reader'.pc = "unhist" /\ reader'.cmd = o /\ cmds'[o].data = cmds[o].want
      <4>1. o \in cmdReverseRegReadMap' /\ cmds'[o].want # {} /\ cmds'[o].data = cmds'[o].want
        BY <1>1, <1>2, <1>3, <3>1
      <4> QED
        BY <3>1, <4>1 DEF ReaderBook
    <3>2. CASE reader'.pc = "top"
      BY <3>2 DEF ReaderBook
    <3> QED
      BY <1>7, <3>1, <3>2
  <2>3. TimeBook' /\ Results'
    BY <1>1, <1>3, Records DEF Books, TimeBook, Results
  <2>4. New' = New /\ o \notin New /\ (writer.pc = "history" => writer.cmd \in Objs)
    BY <1>1, <1>2 DEF New, IInv, NewInv, Used, TypeInv, Hands
  <2>5. \A x \in Objs : cmds'[x].want = cmds[x].want
    BY <1>3
  <2>6. WriterBook'
    BY <1>1, <1>3, <2>4, <2>5, Records DEF Books, WriterBook
  <2> QED
    BY <2>1, <2>2, <2>3, <2>6 DEF Books
<1>10. Flight' = Flight
  BY <1>1, <1>7 DEF Flight
<1> QED
  BY <1>1, <1>8, <1>9, <1>10, FlowSame DEF IInv

\* cmdreader takes the command it is about to release from the history
LEMMA UnhistKeepsLedger ==
    ASSUME IInv, Books, Flow, ReaderUnhist
    PROVE  Books' /\ Flow'
<1>1. /\ UNCHANGED <<cmds, call, chinput, writer, wire, chResp, cmdRegReadMap,
                     cmdReverseRegReadMap, checker>>
      /\ reader.pc = "unhist" /\ reader' = [reader EXCEPT !.pc = "unreg"]
      /\ cmdHistory' = cmdHistory \ {reader.cmd}
  BY DEF ReaderUnhist, queues, maps
<1>2. reader'.pc = "unreg" /\ reader'.cmd = reader.cmd /\ reader'.payload = reader.payload
  BY <1>1, Records
<1>3. \A x \in cmdReverseRegReadMap :
          Unwritten(x)' = Unwritten(x) /\ Taken(x)' = Taken(x) /\ Owed(x)' = Owed(x)
  BY <1>1, <1>2 DEF Unwritten, Taken, Owed
<1>4. Books'
  <2>1. ASSUME NEW x \in cmdReverseRegReadMap' PROVE Account(x)'
    BY <1>1, <1>2, <1>3 DEF Books, Account
  <2>2. New' = New
    BY <1>1 DEF New
  <2>3. ReaderBook' /\ WriterBook' /\ TimeBook' /\ Results'
    BY <1>1, <1>2, <2>2 DEF Books, ReaderBook, WriterBook, TimeBook, Results
  <2> QED
    BY <2>1, <2>3 DEF Books
<1>5. Flight' = Flight
  BY <1>1, <1>2 DEF Flight
<1> QED
  BY <1>1, <1>3, <1>4, <1>5, FlowSame DEF IInv

\* a command nobody owes an answer to is taken from the maps
LEMMA ReleaseKeepsLedger ==
    ASSUME IInv, TypeInv', Books, Flow, NEW o \in Objs, NEW cmd \in asicCmd, NEW val \in {0, 1},
           cmd.want = cmds[o].want, cmd.data = cmds[o].data, cmd.resps = cmds[o].resps,
           Unregister(o), releaseCommand(o, cmd, val),
           UNCHANGED <<chinput, writer, wire, chResp, cmdHistory>>,
           checker'.left \subseteq checker.left,
           o \in cmdHistory => cmds[o].want = {},
           o \in cmdReverseRegReadMap => Unwritten(o) = {} /\ Owed(o) = {},
           \/ reader' = reader /\ (reader.pc \in {"credit", "unhist", "unreg"} => reader.cmd # o)
           \/ reader' = NextAnswer /\ reader.pc = "unreg" /\ reader.cmd = o,
           val = 0 => cmd.data = cmd.want
    PROVE  Books' /\ Flow'
<1>1. /\ cmdReverseRegReadMap' = cmdReverseRegReadMap \ {o}
      /\ cmdRegReadMap' =
           [p \in Payload |-> IF o \in cmdReverseRegReadMap /\ p \in cmds[o].want
                              THEN RemoveFirst(cmdRegReadMap[p], o) ELSE cmdRegReadMap[p]]
  BY DEF Unregister
<1>2. /\ \A x \in Objs : /\ cmds'[x].want = cmds[x].want /\ cmds'[x].data = cmds[x].data
                         /\ cmds'[x].resps = cmds[x].resps
      /\ \A x \in Objs : x # o => cmds'[x].age = cmds[x].age
  <2>1. /\ cmds'[o] = [cmd EXCEPT !.completed = @ \/ (cmd.responded /\ cmd.finished)]
        /\ \A x \in Objs : x # o => cmds'[x] = cmds[x]
    BY Records DEF releaseCommand
  <2>2. cmds'[o].want = cmd.want /\ cmds'[o].data = cmd.data /\ cmds'[o].resps = cmd.resps
    BY <2>1 DEF asicCmd
  <2> QED
    BY <2>1, <2>2
<1>3. \A x \in cmdReverseRegReadMap' :
          /\ x \in cmdReverseRegReadMap /\ x # o /\ x \in Objs
          /\ Unwritten(x)' = Unwritten(x) /\ Taken(x)' = Taken(x) /\ Owed(x)' = Owed(x)
  <2>1. \A x \in cmdReverseRegReadMap' : x \in cmdReverseRegReadMap /\ x # o /\ x \in Objs
    BY <1>1, Records
  <2>2. \A x \in cmdReverseRegReadMap' :
            Unwritten(x)' = Unwritten(x) /\ Taken(x)' = Taken(x)
    BY <2>1 DEF Unwritten, Taken, NextAnswer
  <2> QED
    BY <1>2, <2>1, <2>2 DEF Owed
<1>4. Books'
  <2>1. ASSUME NEW x \in cmdReverseRegReadMap' PROVE Account(x)'
    <3>1. Account(x)
      BY <1>3 DEF Books
    <3>2. cmds[x].data = cmds[x].want /\ cmds[x].want # {}
          => reader' = reader /\ reader.pc \in {"unhist", "unreg"} /\ reader.cmd = x
      BY <1>3, <3>1 DEF Account
    <3> QED
      BY <1>2, <1>3, <3>1, <3>2 DEF Account
  <2>2. ReaderBook'
    <3>1. CASE reader' = NextAnswer
      BY <3>1 DEF NextAnswer, ReaderBook
    <3>2. CASE reader' = reader /\ (reader.pc \in {"credit", "unhist", "unreg"} => reader.cmd # o)
      <4>1. reader.pc \in {"credit", "unhist", "unreg"} => reader.cmd \in Objs
        BY DEF IInv, TypeInv, Hands
      <4> QED
        BY <1>1, <1>2, <3>2, <4>1 DEF Books, ReaderBook
    <3> QED
      BY <3>1, <3>2
  <2>3. WriterBook'
    <3>1. New' = New /\ (writer.pc = "history" => writer.cmd \in Objs) /\ New \subseteq Objs
      BY Records DEF New, IInv, TypeInv, Hands
    <3>2. writer.pc \in {"history", "write"} /\ writer.left # {}
          => writer.cmd \in cmdReverseRegReadMap'
      BY <1>1 DEF Books, WriterBook, Unwritten
    <3> QED
      BY <1>2, <3>1, <3>2 DEF Books, WriterBook
  <2>4. TimeBook'
    <3>1. \A x \in cmdHistory' :
             cmds'[x].want # {} => x \in cmdReverseRegReadMap' /\ cmds'[x].age = Fresh
      BY <1>1, <1>2, Records DEF Books, TimeBook
    <3>2. \A x \in checker'.left : cmds'[x].want = {}
      BY <1>2, Records DEF Books, TimeBook
    <3> QED
      BY <3>1, <3>2 DEF TimeBook
  <2>5. Results'
    <3>1. ASSUME NEW c \in Callers, call'[c].val = 0 PROVE call'[c].whole
      <4>1. \/ call'[c] = call[c]
            \/ call'[c] = [cmd |-> None, val |-> val, whole |-> cmd.data = cmd.want]
        BY DEF releaseCommand
      <4>2. CASE call'[c] = call[c]
        BY <3>1, <4>2 DEF Books, Results
      <4>3. CASE call'[c] = [cmd |-> None, val |-> val, whole |-> cmd.data = cmd.want]
        <5>1. val = 0 /\ call'[c].whole = (cmd.data = cmd.want)
          BY <3>1, <4>3
        <5> QED
          BY <5>1
      <4> QED
        BY <4>1, <4>2, <4>3
    <3> QED
      BY <3>1 DEF Results
  <2> QED
    BY <2>1, <2>2, <2>3, <2>4, <2>5 DEF Books
<1>5. PICK n \in Nat, rank \in [Objs -> Nat] :
          Ranked(n, rank) /\ \E owner \in [DOMAIN Flight -> Objs \cup {None}] : Owned(rank, owner)
  BY DEF Flow
<1>6. PICK owner \in [DOMAIN Flight -> Objs \cup {None}] : Owned(rank, owner)
  BY <1>5
<1>7. Ranked(n, rank)'
  <2>1. ASSUME NEW p \in Payload, NEW i \in DOMAIN cmdRegReadMap'[p],
               NEW j \in DOMAIN cmdRegReadMap'[p], i < j
        PROVE  rank[cmdRegReadMap'[p][i]] < rank[cmdRegReadMap'[p][j]]
    <3> DEFINE q == cmdRegReadMap[p]
    <3>1. q \in Seq(Objs) /\ \A k, l \in DOMAIN q : q[k] = q[l] => k = l
      BY DEF IInv, TypeInv, TypeOK, MapsAgree
    <3>2. \A k, l \in DOMAIN q : k < l => rank[q[k]] < rank[q[l]]
      BY <1>5 DEF Ranked
    <3>3. CASE cmdRegReadMap'[p] = q
      BY <2>1, <3>2, <3>3
    <3>4. CASE cmdRegReadMap'[p] = RemoveFirst(q, o)
      <4> HIDE DEF q
      <4>1. PICK k \in DOMAIN q, l \in DOMAIN q :
              k < l /\ q[k] = RemoveFirst(q, o)[i] /\ q[l] = RemoveFirst(q, o)[j]
        BY <2>1, <3>1, <3>4, RemoveOnce
      <4> QED
        BY <3>2, <3>4, <4>1
    <3> QED
      BY <1>1, <3>3, <3>4
  <2>2. \A x, y \in cmdReverseRegReadMap' : rank[x] = rank[y] => x = y
    BY <1>1, <1>5 DEF Ranked
  <2>3. \A x \in Objs : rank[x] < n
    BY <1>5 DEF Ranked
  <2>4. writer'.pc \in {"history", "write"} /\ writer'.cmd \in cmdReverseRegReadMap'
        => \A x \in cmdReverseRegReadMap' : rank[x] <= rank[writer'.cmd]
    BY <1>1, <1>5 DEF Ranked
  <2> QED
    BY <2>1, <2>2, <2>3, <2>4 DEF Ranked
<1>8. Flight' = Flight
  BY DEF Flight, NextAnswer
<1>9. Owned(rank, owner)'
  <2>1. Answers' = Answers
    BY <1>8 DEF Answers
  <2>2. \A i \in Answers : owner[i] \in cmdReverseRegReadMap'
    BY <1>1, <1>6 DEF Owned
  <2> QED
    BY <1>3, <1>6, <1>8, <2>1, <2>2 DEF Owned
<1> QED
  BY <1>4, <1>6, <1>7, <1>8, <1>9 DEF Flow

\* cmdreader releases a command all of whose answers it has credited
LEMMA UnregKeepsLedger ==
    ASSUME IInv, TypeInv', Books, Flow, ReaderUnreg
    PROVE  Books' /\ Flow'
<1>1. PICK o \in Objs : o = reader.cmd
  BY DEF ReaderUnreg, IInv, TypeInv, Hands
<1>2. /\ Unregister(o) /\ releaseCommand(o, cmds[o], 0) /\ reader.pc = "unreg"
      /\ UNCHANGED <<chinput, writer, wire, chResp, cmdHistory, checker>>
      /\ reader' = IF ReleaseSticks(o, cmds[o]) THEN [reader EXCEPT !.pc = "stuck"] ELSE NextAnswer
  BY <1>1 DEF ReaderUnreg, queues
<1>3. /\ o \in cmdReverseRegReadMap /\ cmds[o].data = cmds[o].want /\ o \notin cmdHistory
      /\ Account(o)
  BY <1>1, <1>2 DEF Books, ReaderBook
<1>4. reader' = NextAnswer
  BY <1>2, <1>3 DEF ReleaseSticks, IInv, WaitInv
<1>5. Unwritten(o) = {} /\ Owed(o) = {}
  BY <1>3 DEF Account, Owed
<1>6. cmds[o] \in asicCmd
  BY Records
<1> QED
  BY <1>1, <1>2, <1>3, <1>4, <1>5, <1>6, ReleaseKeepsLedger

\* the timeout checker releases commands that want nothing
LEMMA ExpireKeepsLedger ==
    ASSUME IInv, TypeInv', Books, Flow, NEW o \in Objs, CheckerExpire(o)
    PROVE  Books' /\ Flow'
<1>0. cmds[o] \in asicCmd
  BY Records
<1>1. PICK cmd \in asicCmd : cmd = [cmds[o] EXCEPT !.finished = TRUE]
  BY <1>0 DEF asicCmd
<1>2. cmd.want = cmds[o].want /\ cmd.data = cmds[o].data /\ cmd.resps = cmds[o].resps
  BY <1>0, <1>1 DEF asicCmd
<1>3. /\ Unregister(o) /\ releaseCommand(o, cmd, 1) /\ o \in checker.left
      /\ UNCHANGED <<chinput, writer, wire, chResp, cmdHistory, reader>>
      /\ checker'.left \subseteq checker.left
  BY <1>1 DEF CheckerExpire, queues
<1>4. cmds[o].want = {}
  BY <1>3 DEF Books, TimeBook
<1>5. reader.pc \in {"credit", "unhist", "unreg"} => reader.cmd # o
  BY <1>4 DEF Books, ReaderBook
<1>6. o \in cmdReverseRegReadMap => Unwritten(o) = {} /\ Owed(o) = {}
  BY <1>4 DEF Books, Account, Owed
<1>7. 1 \in {0, 1} /\ (1 = 0 => cmd.data = cmd.want) /\ reader' = reader
  BY <1>3
<1> QED
  BY <1>2, <1>3, <1>4, <1>5, <1>6, <1>7, ReleaseKeepsLedger

-----------------------------------------------------------------------------
\* late is never taken back
LEMMA LateStays ==
    ASSUME TypeInv, TypeInv', [Next]_vars, ~late'
    PROVE  ~late
<1>1. late \in BOOLEAN /\ late' \in BOOLEAN
  BY DEF TypeInv, TypeOK
<1>2. CASE WriterWrite
  BY <1>1, <1>2 DEF WriterWrite
<1>3. ASSUME NEW o \in Objs, Age(o) PROVE ~late
  BY <1>1, <1>3 DEF Age
<1>4. CASE late' = late
  BY <1>4
<1>5. ASSUME ~WriterWrite, \A o \in Objs : ~Age(o) PROVE late' = late
  <2>1. CASE \E c \in Callers, want \in Requests : NonBlockingRead(c, want)
    BY <2>1 DEF NonBlockingRead
  <2>2. CASE NonBlockingWrite \/ ReqestHitResult \/ asicRead \/ Quieten \/ UNCHANGED vars
    BY <2>2 DEF NonBlockingWrite, ReqestHitResult, asicRead, Quieten, vars
  <2>3. CASE Writer
    BY <1>5, <2>3 DEF Writer, WriterPoll, WriterSelect, WriterRegister, WriterHistory, WriterHit
  <2>4. CASE Reader
    BY <2>4 DEF Reader, ReaderTop, ReaderTake, ReaderLookup, ReaderCredit, ReaderUnhist,
                ReaderUnreg
  <2>5. CASE Checker
    BY <2>5 DEF Checker, CheckerScan, CheckerExpire
  <2> QED
    BY <1>5, <2>1, <2>2, <2>3, <2>4, <2>5 DEF Next
<1> QED
  BY <1>2, <1>3, <1>4, <1>5

\* at the start nothing is owed
LEMMA InitLedger == Init => LedgerInv
<1> SUFFICES ASSUME Init PROVE Books /\ Flow
  BY DEF LedgerInv
<1>1. cmdReverseRegReadMap = {} /\ cmdHistory = {} /\ checker.left = {} /\ New = {}
      /\ reader.pc = "top" /\ writer.pc = "poll" /\ writer.left = {}
  BY DEF Init, NextAnswer, New, ToSet
<1>2. Books
  <2>1. Results
    BY DEF Init, Results
  <2> QED
    BY <1>1, <2>1 DEF Books, ReaderBook, WriterBook, TimeBook
<1>3. DOMAIN Flight = 1 .. 1 /\ Flight[1] = Hit
  BY <1>1 DEF Init, Flight
<1>4. Answers = {}
  BY <1>3 DEF Answers
<1> DEFINE rank  == [o \in Objs |-> 0]
           owner == [i \in DOMAIN Flight |-> None]
<1>5. Ranked(1, rank)
  BY <1>1 DEF Ranked, Init
<1>6. Owned(rank, owner)
  BY <1>1, <1>4 DEF Owned
<1>7. rank \in [Objs -> Nat] /\ owner \in [DOMAIN Flight -> Objs \cup {None}] /\ 1 \in Nat
  OBVIOUS
<1>8. Flow
  BY <1>5, <1>6, <1>7 DEF Flow
<1> QED
  BY <1>2, <1>8

\* every step keeps the ledger, if every chip answers
LEMMA NextLedger == Dead = {} /\ IInv /\ LedgerInv /\ [Next]_vars => LedgerInv'
<1> SUFFICES ASSUME Dead = {}, IInv, LedgerInv, [Next]_vars, ~late'
             PROVE  Books' /\ Flow'
  BY DEF LedgerInv
<1>t. TypeInv /\ TypeInv'
  BY NextType DEF IInv
<1>l. Books /\ Flow
  BY <1>t, LateStays DEF LedgerInv
<1>1. CASE NonBlockingWrite \/ ReqestHitResult \/ Quieten \/ UNCHANGED vars
  BY <1>1, <1>l, CallsKeepLedger
<1>2. ASSUME NEW c \in Callers, NEW want \in Requests, NonBlockingRead(c, want)
      PROVE  Books' /\ Flow'
  BY <1>2, <1>l, ReadKeepsLedger
<1>3. CASE Writer
  BY <1>3, <1>l, <1>t, SelectKeepsLedger, RegisterKeepsLedger, HistoryKeepsLedger,
     WriteKeepsLedger, HitKeepsLedger DEF Writer
<1>4. CASE asicRead
  BY <1>4, <1>l, <1>t, asicReadKeepsLedger
<1>5. CASE Reader
  BY <1>5, <1>l, <1>t, TimesKeepLedger, TakeKeepsLedger, LookupKeepsLedger, CreditKeepsLedger,
     UnhistKeepsLedger, UnregKeepsLedger DEF Reader
<1>6. CASE Checker
  BY <1>6, <1>l, <1>t, TimesKeepLedger, ExpireKeepsLedger DEF Checker
<1>7. ASSUME NEW o \in Objs, Age(o)
      PROVE  Books' /\ Flow'
  BY <1>7, <1>l, AgeKeepsLedger
<1> QED
  BY <1>1, <1>2, <1>3, <1>4, <1>5, <1>6, <1>7 DEF Next

\* if every chip answers, and as long as no answer was lost or overtaken by
\* a timeout, a read that returns success has every value it asked for,
\* although cmdreader counts answers and credits overlapping reads in turn
THEOREM ResultsWhole == Dead = {} /\ Spec => []ResultComplete
<1>1. LedgerInv => ResultComplete
  BY DEF LedgerInv, Books, Results, ResultComplete
<1>2. Dead = {} /\ Spec => []LedgerInv
  <2> SUFFICES ASSUME Dead = {} PROVE Spec => []LedgerInv
    OBVIOUS
  <2>1. IInv /\ LedgerInv /\ [Next]_vars => LedgerInv'
    BY NextLedger
  <2> QED
    BY <2>1, InitLedger, Invariance, PTL DEF Spec
<1> QED
  BY <1>1, <1>2, PTL
=============================================================================
