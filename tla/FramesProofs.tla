------------------------------ MODULE FramesProofs ------------------------------
(***************************************************************************)
(* Streams of any number of frames, whatever is lost of them and however   *)
(* reads cut what is left: frames are delivered in order and at most once. *)
(* The first byte of a CRC is the mark of its frame.  asicRead drops bytes *)
(* and puts others, which are no marks, in front of what it keeps; so the  *)
(* marks of what is still to come are in order, and after those of the     *)
(* frames that were delivered.                                             *)
(***************************************************************************)
EXTENDS Frames, FiniteSetTheorems, SequenceTheorems, NaturalsInduction, WellFoundedInduction, TLAPS

Frame == DOMAIN Stream
Bytes == Seq(Nat)

Mark(f)   == Stream[f][Len(Stream[f]) - 3]
IsMark(b) == \E f \in Frame : b = Mark(f)

\* the marks in s are those of different frames, in the order of the frames
InOrder(s) ==
    \A j, k \in DOMAIN s : \A f, g \in Frame :
        j < k /\ s[j] = Mark(f) /\ s[k] = Mark(g) => f < g

\* what asicRead has or will read
Coming == (received \o buf) \o wire

Types ==
    /\ wire \in Bytes /\ buf \in Bytes /\ received \in Bytes
    /\ Len(received) <= BufSize
    /\ frameStart \in BOOLEAN /\ overrun \in BOOLEAN
    /\ got \in Seq(Frame)

\* a frame whose mark is still to come is later than what was delivered
GotFirst ==
    \A i \in DOMAIN got : \A k \in DOMAIN Coming : \A g \in Frame :
        Coming[k] = Mark(g) => got[i] < g

FramesInv == Types /\ InOrder(Coming) /\ GotFirst /\ FramesInOrder

-----------------------------------------------------------------------------
(* Sequences.                                                              *)

\* among numbers one is the least
LEMMA LeastNumber ==
    ASSUME NEW T \in SUBSET Nat, T # {}
    PROVE  \E n \in T : \A m \in Nat : m < n => m \notin T
<1> DEFINE R == OpToRel(<, Nat)
<1>1. IsWellFoundedOn(R, Nat)
  BY NatLessThanWellFounded
<1>2. \E n \in T : \A m \in T : <<m, n>> \notin R
  <2> HIDE DEF R
  <2> QED
    BY <1>1, WFMin
<1> QED
  BY <1>2 DEF OpToRel

\* a sequence and its elements
LEMMA SeqFacts ==
    ASSUME NEW S, NEW s \in Seq(S)
    PROVE  Len(s) \in Nat /\ DOMAIN s = 1 .. Len(s) /\ \A i \in 1 .. Len(s) : s[i] \in S
BY LenProperties, ElementOfSeq

\* two sequences, one after the other
LEMMA Cat ==
    ASSUME NEW S, NEW s \in Seq(S), NEW t \in Seq(S)
    PROVE  /\ s \o t \in Seq(S) /\ Len(s \o t) = Len(s) + Len(t)
           /\ DOMAIN (s \o t) = 1 .. (Len(s) + Len(t))
           /\ \A i \in 1 .. Len(s) : (s \o t)[i] = s[i]
           /\ \A i \in 1 .. Len(t) : (s \o t)[Len(s) + i] = t[i]
<1>1. Len(s) \in Nat /\ Len(t) \in Nat
  BY SeqFacts
<1>2. /\ s \o t \in Seq(S) /\ Len(s \o t) = Len(s) + Len(t)
      /\ \A i \in 1 .. Len(s) + Len(t) : (s \o t)[i] =
                 IF i <= Len(s) THEN s[i] ELSE t[i - Len(s)]
  BY ConcatProperties
<1>3. DOMAIN (s \o t) = 1 .. (Len(s) + Len(t))
  BY <1>2, SeqFacts
<1> DEFINE c == s \o t
<1>4. \A i \in 1 .. Len(s) + Len(t) : c[i] = IF i <= Len(s) THEN s[i] ELSE t[i - Len(s)]
  BY <1>2
<1> HIDE DEF c
<1>5. \A i \in 1 .. Len(s) : c[i] = s[i]
  BY <1>1, <1>4
<1>6. \A i \in 1 .. Len(t) : c[Len(s) + i] = t[i]
  BY <1>1, <1>4
<1> QED
  BY <1>2, <1>3, <1>5, <1>6 DEF c

LEMMA CatBytes ==
    ASSUME NEW s \in Bytes, NEW t \in Bytes
    PROVE  /\ s \o t \in Bytes /\ Len(s \o t) = Len(s) + Len(t)
           /\ DOMAIN (s \o t) = 1 .. (Len(s) + Len(t))
           /\ \A i \in 1 .. Len(s) : (s \o t)[i] = s[i]
           /\ \A i \in 1 .. Len(t) : (s \o t)[Len(s) + i] = t[i]
BY Cat DEF Bytes

LEMMA CatFirst ==
    ASSUME NEW s \in Bytes, NEW t \in Bytes, NEW i \in 1 .. Len(s)
    PROVE  (s \o t)[i] = s[i]
BY CatBytes

LEMMA CatSecond ==
    ASSUME NEW s \in Bytes, NEW t \in Bytes, NEW i \in 1 .. Len(t)
    PROVE  (s \o t)[Len(s) + i] = t[i]
BY CatBytes

LEMMA CatThrice ==
    ASSUME NEW s \in Bytes, NEW t \in Bytes, NEW u \in Bytes
    PROVE  (s \o t) \o u = s \o (t \o u)
<1>1. s \in Seq(Nat) /\ t \in Seq(Nat) /\ u \in Seq(Nat)
  BY DEF Bytes
<1> QED
  BY <1>1, ConcatAssociative, SMTT(20)

\* the first n elements of a sequence, and the others
LEMMA Cut ==
    ASSUME NEW S, NEW s \in Seq(S), NEW n \in 0 .. Len(s)
    PROVE  /\ Take(s, n) \in Seq(S) /\ Len(Take(s, n)) = n /\ DOMAIN Take(s, n) = 1 .. n
           /\ \A i \in 1 .. n : Take(s, n)[i] = s[i]
           /\ Drop(s, n) \in Seq(S) /\ Len(Drop(s, n)) = Len(s) - n
           /\ DOMAIN Drop(s, n) = 1 .. (Len(s) - n)
           /\ \A i \in 1 .. (Len(s) - n) : Drop(s, n)[i] = s[n + i]
           /\ Take(s, n) \o Drop(s, n) = s
<1>0. Len(s) \in Nat /\ \A i \in 1 .. Len(s) : s[i] \in S
  BY SeqFacts
<1>1. /\ Take(s, n) \in Seq(S) /\ Len(Take(s, n)) = n
      /\ \A i \in 1 .. n : Take(s, n)[i] = s[i]
  <2>1. \A i \in 1 .. n : s[i] \in S
    BY <1>0
  <2>2. /\ SubSeq(s, 1, n) \in Seq(S)
        /\ Len(SubSeq(s, 1, n)) = IF 1 <= n THEN n - 1 + 1 ELSE 0
        /\ \A i \in 1 .. n - 1 + 1 : SubSeq(s, 1, n)[i] = s[1 + i - 1]
    BY <2>1, SubSeqProperties
  <2> QED
    BY <1>0, <2>2 DEF Take
<1>2. /\ Drop(s, n) \in Seq(S) /\ Len(Drop(s, n)) = Len(s) - n
      /\ \A i \in 1 .. (Len(s) - n) : Drop(s, n)[i] = s[n + i]
  <2>1. \A i \in n + 1 .. Len(s) : s[i] \in S
    BY <1>0
  <2>2. /\ SubSeq(s, n + 1, Len(s)) \in Seq(S)
        /\ Len(SubSeq(s, n + 1, Len(s)))
             = IF n + 1 <= Len(s) THEN Len(s) - (n + 1) + 1 ELSE 0
        /\ \A i \in 1 .. Len(s) - (n + 1) + 1 : SubSeq(s, n + 1, Len(s))[i] = s[(n + 1) + i - 1]
    BY <1>0, <2>1, SubSeqProperties
  <2> QED
    BY <1>0, <2>2 DEF Drop
<1>3. DOMAIN Take(s, n) = 1 .. n /\ DOMAIN Drop(s, n) = 1 .. (Len(s) - n)
  BY <1>1, <1>2, SeqFacts
<1>4. Take(s, n) \o Drop(s, n) = s
  <2> DEFINE t == Take(s, n)
             d == Drop(s, n)
             c == t \o d
  <2>1. t \in Seq(S) /\ d \in Seq(S) /\ Len(t) = n /\ Len(d) = Len(s) - n
    BY <1>1, <1>2
  <2>2. \A i \in 1 .. n : t[i] = s[i]
    BY <1>1
  <2>3. \A i \in 1 .. (Len(s) - n) : d[i] = s[n + i]
    BY <1>2
  <2> HIDE DEF t, d
  <2>4. /\ c \in Seq(S) /\ Len(c) = Len(s)
        /\ \A i \in 1 .. Len(t) : c[i] = t[i]
        /\ \A i \in 1 .. Len(d) : c[Len(t) + i] = d[i]
    BY <1>0, <2>1, Cat
  <2> HIDE DEF c
  <2>5. ASSUME NEW i \in 1 .. Len(s)
        PROVE  c[i] = s[i]
    <3>1. CASE i <= n
      BY <2>1, <2>2, <2>4, <3>1
    <3>2. CASE i > n
      <4>1. i - n \in 1 .. (Len(s) - n) /\ n + (i - n) = i
        BY <1>0, <3>2
      <4> QED
        BY <2>1, <2>3, <2>4, <4>1
    <3> QED
      BY <1>0, <3>1, <3>2
  <2>6. c = s
    BY <2>4, <2>5, SeqEqual
  <2> QED
    BY <2>6 DEF t, d, c
<1> QED
  BY <1>1, <1>2, <1>3, <1>4

LEMMA CutBytes ==
    ASSUME NEW s \in Bytes, NEW n \in 0 .. Len(s)
    PROVE  /\ Take(s, n) \in Bytes /\ Len(Take(s, n)) = n /\ DOMAIN Take(s, n) = 1 .. n
           /\ \A i \in 1 .. n : Take(s, n)[i] = s[i]
           /\ Drop(s, n) \in Bytes /\ Len(Drop(s, n)) = Len(s) - n
           /\ \A i \in 1 .. (Len(s) - n) : Drop(s, n)[i] = s[n + i]
           /\ Take(s, n) \o Drop(s, n) = s
BY Cut DEF Bytes

-----------------------------------------------------------------------------
(* What arrives.                                                           *)

\* all holds what FlattenSeq has made of the first sequences in seqs
Flattens(seqs, n, all) ==
    all = [i \in 1 .. n |-> IF i = 1 THEN seqs[i] ELSE all[i - 1] \o seqs[i]]

LEMMA FlatIs ==
    ASSUME NEW seqs, Len(seqs) # 0
    PROVE  FlattenSeq(seqs) = (CHOOSE all : Flattens(seqs, Len(seqs), all))[Len(seqs)]
BY DEF FlattenSeq, Flattens

LEMMA FlatExists ==
    ASSUME NEW seqs, NEW n \in Nat
    PROVE  \E all : Flattens(seqs, n, all)
<1> DEFINE T == {m \in Nat : ~ \E all : Flattens(seqs, m, all)}
<1> SUFFICES ASSUME T # {} PROVE FALSE
  OBVIOUS
<1>1. PICK m \in T : \A k \in Nat : k < m => k \notin T
  <2>1. T \in SUBSET Nat
    OBVIOUS
  <2> HIDE DEF T
  <2> QED
    BY <2>1, LeastNumber
<1>2. m # 0
  <2>1. Flattens(seqs, 0, [i \in 1 .. 0 |-> 0])
    BY DEF Flattens
  <2> QED
    BY <1>1, <2>1
<1>3. PICK less : Flattens(seqs, m - 1, less)
  BY <1>1, <1>2
<1> DEFINE all == [i \in 1 .. m |-> IF i = m THEN IF m = 1 THEN seqs[1] ELSE less[m - 1] \o seqs[m]
                                    ELSE less[i]]
<1>4. \A i \in 1 .. m - 1 : all[i] = less[i]
  BY <1>1
<1>5. \A i \in 1 .. m - 1 : less[i] = IF i = 1 THEN seqs[i] ELSE less[i - 1] \o seqs[i]
  BY <1>3 DEF Flattens
<1>6. all[m] = IF m = 1 THEN seqs[m] ELSE all[m - 1] \o seqs[m]
  BY <1>1, <1>2, <1>4
<1>7. \A i \in 1 .. m : all[i] = IF i = 1 THEN seqs[i] ELSE all[i - 1] \o seqs[i]
  <2> SUFFICES ASSUME NEW i \in 1 .. m
               PROVE  all[i] = IF i = 1 THEN seqs[i] ELSE all[i - 1] \o seqs[i]
    OBVIOUS
  <2> HIDE DEF all
  <2>1. CASE i = m
    BY <1>6, <2>1
  <2>2. CASE i # m
    <3>1. i \in 1 .. m - 1 /\ (i # 1 => i - 1 \in 1 .. m - 1)
      BY <1>1, <2>2
    <3> QED
      BY <1>4, <1>5, <3>1
  <2> QED
    BY <2>1, <2>2
<1>8. all = [i \in 1 .. m |-> all[i]]
  OBVIOUS
<1>9. Flattens(seqs, m, all)
  <2> HIDE DEF all
  <2>1. [i \in 1 .. m |-> all[i]]
          = [i \in 1 .. m |-> IF i = 1 THEN seqs[i] ELSE all[i - 1] \o seqs[i]]
    BY <1>7
  <2> QED
    BY <1>8, <2>1 DEF Flattens
<1> QED
  BY <1>1, <1>9

\* a flattened sequence is made of its members one by one
LEMMA Flattened ==
    ASSUME NEW S, NEW seqs \in Seq(Seq(S))
    PROVE  \E all : /\ all[0] = <<>>
                    /\ \A i \in 1 .. Len(seqs) : all[i] = all[i - 1] \o seqs[i]
                    /\ \A i \in 0 .. Len(seqs) : all[i] \in Seq(S)
                    /\ FlattenSeq(seqs) = all[Len(seqs)]
<1> DEFINE n == Len(seqs)
<1>0. n \in Nat /\ \A i \in 1 .. n : seqs[i] \in Seq(S)
  BY SeqFacts
<1>1. CASE n = 0
  <2>1. seqs = <<>> /\ FlattenSeq(seqs) = seqs
    BY <1>1 DEF FlattenSeq
  <2> DEFINE all == [i \in {0} |-> <<>>]
  <2>2. all[0] = <<>>
    OBVIOUS
  <2>3. \A i \in 0 .. n : i = 0
    BY <1>1
  <2>4. <<>> \in Seq(S)
    OBVIOUS
  <2>5. ~ \E i \in 1 .. n : TRUE
    BY <1>1
  <2> HIDE DEF all, n
  <2>6. /\ all[0] = <<>>
        /\ \A i \in 1 .. n : all[i] = all[i - 1] \o seqs[i]
        /\ \A i \in 0 .. n : all[i] \in Seq(S)
        /\ FlattenSeq(seqs) = all[n]
    BY <1>1, <2>1, <2>2, <2>3, <2>4, <2>5
  <2> QED
    BY <2>6 DEF n
<1>2. CASE n # 0
  <2> DEFINE rest == CHOOSE all : Flattens(seqs, n, all)
  <2>1. Flattens(seqs, n, rest)
    BY <1>0, FlatExists
  <2>2. FlattenSeq(seqs) = rest[n]
    BY <1>2, FlatIs
  <2> HIDE DEF rest
  <2> DEFINE all == [i \in 0 .. n |-> IF i = 0 THEN <<>> ELSE rest[i]]
  <2>3. all[0] = <<>> /\ FlattenSeq(seqs) = all[n] /\ \A i \in 1 .. n : all[i] = rest[i]
    BY <1>0, <1>2, <2>2
  <2> HIDE DEF all
  <2>4. \A i \in 1 .. n : rest[i] = IF i = 1 THEN seqs[i] ELSE rest[i - 1] \o seqs[i]
    BY <2>1 DEF Flattens
  <2> HIDE DEF n
  <2>5. \A i \in 1 .. n : all[i] = all[i - 1] \o seqs[i]
    <3> SUFFICES ASSUME NEW i \in 1 .. n PROVE all[i] = all[i - 1] \o seqs[i]
      OBVIOUS
    <3>1. CASE i = 1
      <4>1. all[1] = seqs[1] /\ all[1 - 1] = <<>>
        BY <2>3, <2>4, <3>1
      <4>2. <<>> \o seqs[1] = seqs[1]
        BY <1>0, <3>1, ConcatEmptySeq
      <4> QED
        BY <3>1, <4>1, <4>2
    <3>2. CASE i # 1
      <4>1. i - 1 \in 1 .. n
        BY <1>0, <3>2
      <4> QED
        BY <2>3, <2>4, <3>2, <4>1
    <3> QED
      BY <3>1, <3>2
  <2>6. \A i \in 0 .. n : all[i] \in Seq(S)
    <3> DEFINE T == {i \in 0 .. n : all[i] \notin Seq(S)}
    <3> SUFFICES ASSUME T # {} PROVE FALSE
      OBVIOUS
    <3>1. PICK i \in T : \A k \in Nat : k < i => k \notin T
      <4>1. T \in SUBSET Nat
        BY <1>0
      <4> HIDE DEF T
      <4> QED
        BY <4>1, LeastNumber
    <3>2. i # 0
      <4>1. <<>> \in Seq(S)
        BY EmptySeq
      <4> QED
        BY <2>3, <3>1, <4>1
    <3>3. i \in 1 .. n /\ i - 1 \in 0 .. n /\ i - 1 < i /\ i - 1 \in Nat
      BY <1>0, <3>1, <3>2
    <3>4. all[i - 1] \in Seq(S)
      BY <3>1, <3>3
    <3>5. all[i] \in Seq(S)
      BY <1>0, <2>5, <3>3, <3>4, ConcatProperties
    <3> QED
      BY <3>1, <3>5
  <2> QED
    BY <2>3, <2>5, <2>6 DEF n
<1> QED
  BY <1>1, <1>2

\* the assumptions about the stream, frame by frame
LEMMA FrameFacts ==
    ASSUME NEW f \in Frame
    PROVE  /\ Stream[f] \in Bytes /\ Len(Stream[f]) \in Nat /\ Len(Stream[f]) >= RSP_LEN_CFG
           /\ DOMAIN Stream[f] = 1 .. Len(Stream[f])
           /\ Len(Stream[f]) = IF IsHit(Stream[f]) THEN RSP_LEN_HIT ELSE RSP_LEN_CFG
           /\ Len(Stream[f]) - 3 \in DOMAIN Stream[f]
           /\ Mark(f) \notin {0, CMD_READ}
           /\ \A g \in Frame : \A i \in DOMAIN Stream[g] :
                 Stream[g][i] = Mark(f) => g = f /\ i = Len(Stream[f]) - 3
<1>1. Frame = 1 .. Len(Stream) /\ Len(Stream) \in Nat /\ Stream[f] \in Bytes
  BY BytesAssumption, SeqFacts DEF Frame, Bytes
<1>2. Len(Stream[f]) \in Nat /\ DOMAIN Stream[f] = 1 .. Len(Stream[f])
  BY <1>1, SeqFacts DEF Bytes
<1>3. Len(Stream[f]) = IF IsHit(Stream[f]) THEN RSP_LEN_HIT ELSE RSP_LEN_CFG
  BY StreamAssumption DEF Frame, IsHit
<1>4. Len(Stream[f]) >= RSP_LEN_CFG /\ RSP_LEN_CFG = 16
  BY <1>3, SizeAssumption DEF RSP_LEN_CFG
<1>5. Len(Stream[f]) - 3 \in DOMAIN Stream[f]
  BY <1>2, <1>4
<1>6. \A g \in Frame : \A i \in DOMAIN Stream[g] :
        /\ Stream[g][i] = Mark(f) => g = f /\ i = Len(Stream[f]) - 3
        /\ Mark(f) \notin {0, CMD_READ}
  BY CrcAssumption DEF Frame, Mark
<1> QED
  BY <1>1, <1>2, <1>3, <1>4, <1>5, <1>6

\* of a frame arrives at most its own mark, and that once
LEMMA LeftOver ==
    ASSUME NEW lost, NEW f \in Frame
    PROVE  /\ Left(lost, f) \in Bytes
           /\ \A j \in DOMAIN Left(lost, f) : \A g \in Frame :
                 Left(lost, f)[j] = Mark(g) => g = f
           /\ \A j, k \in DOMAIN Left(lost, f) :
                 j < k => ~(Left(lost, f)[j] = Mark(f) /\ Left(lost, f)[k] = Mark(f))
<1> DEFINE s == Stream[f]
           n == Len(s)
           one(i) == IF <<f, i>> \in lost THEN <<>> ELSE <<s[i]>>
           seqs == [i \in DOMAIN s |-> one(i)]
           at == n - 3
<1>1. n \in Nat /\ DOMAIN s = 1 .. n /\ \A i \in 1 .. n : s[i] \in Nat
  <2>1. s \in Seq(Nat)
    BY FrameFacts DEF Bytes
  <2> QED
    BY <2>1, SeqFacts
<1>2. \A i \in 1 .. n : one(i) \in Seq(Nat)
  BY <1>1
<1>3. seqs \in Seq(Seq(Nat)) /\ Len(seqs) = n
  <2> HIDE DEF one, s, n
  <2> QED
    BY <1>1, <1>2
<1>4. Left(lost, f) = FlattenSeq(seqs)
  BY DEF Left
<1>5. \A g \in Frame : \A i \in 1 .. n : s[i] = Mark(g) => g = f
  BY <1>1, FrameFacts
<1>6. \A i \in 1 .. n : s[i] = Mark(f) => i = at
  BY <1>1, FrameFacts
<1>7. \A i \in 1 .. n : seqs[i] = <<>> \/ seqs[i] = <<s[i]>>
  BY <1>1
<1> HIDE DEF seqs, s, n, at
<1>8. PICK all : /\ all[0] = <<>>
                 /\ \A i \in 1 .. n : all[i] = all[i - 1] \o seqs[i]
                 /\ \A i \in 0 .. n : all[i] \in Seq(Nat)
                 /\ FlattenSeq(seqs) = all[n]
  BY <1>3, Flattened
<1> DEFINE Good(i) ==
             /\ \A j \in DOMAIN all[i] : \E k \in 1 .. i : all[i][j] = s[k]
             /\ \A j, k \in DOMAIN all[i] :
                   j < k => ~(all[i][j] = Mark(f) /\ all[i][k] = Mark(f))
           T == {i \in 0 .. n : ~Good(i)}
<1>9. ASSUME NEW i \in 1 .. n, Good(i - 1)
      PROVE  Good(i)
  <2> DEFINE old == all[i - 1]
             new == all[i]
  <2>1. i - 1 \in 0 .. n /\ old \in Seq(Nat)
    BY <1>1, <1>8
  <2>2. CASE seqs[i] = <<>>
    <3>1. new = old
      BY <1>8, <2>1, <2>2, ConcatEmptySeq
    <3>2. \A k \in 1 .. i - 1 : k \in 1 .. i
      OBVIOUS
    <3> HIDE DEF old, new
    <3> QED
      BY <1>9, <3>1, <3>2 DEF old, new
  <2>3. CASE seqs[i] = <<s[i]>>
    <3> DEFINE b == s[i]
               last == Len(old) + 1
    <3>1. b \in Nat /\ <<b>> \in Seq(Nat) /\ Len(<<b>>) = 1 /\ <<b>>[1] = b
      BY <1>1
    <3>2. new = old \o <<b>>
      BY <1>8, <2>3
    <3>3. /\ Len(old) \in Nat /\ DOMAIN old = 1 .. Len(old) /\ DOMAIN new = 1 .. last
          /\ \A j \in 1 .. Len(old) : new[j] = old[j]
          /\ new[last] = b
      <4> HIDE DEF old, new, b
      <4>1. Len(old) \in Nat /\ DOMAIN old = 1 .. Len(old)
        BY <2>1, SeqFacts
      <4>2. /\ DOMAIN (old \o <<b>>) = 1 .. (Len(old) + Len(<<b>>))
            /\ \A j \in 1 .. Len(old) : (old \o <<b>>)[j] = old[j]
            /\ \A j \in 1 .. Len(<<b>>) : (old \o <<b>>)[Len(old) + j] = <<b>>[j]
        BY <2>1, <3>1, Cat
      <4> QED
        BY <3>1, <3>2, <4>1, <4>2
    <3>4. /\ \A j \in DOMAIN old : \E k \in 1 .. i - 1 : old[j] = s[k]
          /\ \A j, k \in DOMAIN old : j < k => ~(old[j] = Mark(f) /\ old[k] = Mark(f))
      BY <1>9
    <3>5. b = Mark(f) => i = at
      BY <1>6
    <3> HIDE DEF old, new, last
    <3>6. ASSUME b = Mark(f), NEW j \in DOMAIN old, old[j] = Mark(f)
          PROVE  FALSE
      <4>1. PICK k \in 1 .. i - 1 : old[j] = s[k]
        BY <3>4
      <4>2. k \in 1 .. n /\ k # i
        BY <1>1, <4>1
      <4> QED
        BY <1>6, <3>5, <3>6, <4>1, <4>2
    <3>7. \A j \in DOMAIN new : j \in DOMAIN old \/ j = last
      BY <3>3 DEF last
    <3>8. \A j \in DOMAIN new : \E k \in 1 .. i : new[j] = s[k]
      <4> SUFFICES ASSUME NEW j \in DOMAIN new
                   PROVE  \E k \in 1 .. i : new[j] = s[k]
        OBVIOUS
      <4>1. CASE j = last
        <5>1. i \in 1 .. i
          BY <1>1
        <5> QED
          BY <3>3, <4>1, <5>1
      <4>2. CASE j \in DOMAIN old
        <5>1. PICK k \in 1 .. i - 1 : old[j] = s[k]
          BY <3>4, <4>2
        <5>2. k \in 1 .. i
          BY <1>1, <5>1
        <5> QED
          BY <3>3, <4>2, <5>1, <5>2
      <4> QED
        BY <3>7, <4>1, <4>2
    <3>9. \A j, k \in DOMAIN new : j < k => ~(new[j] = Mark(f) /\ new[k] = Mark(f))
      <4> SUFFICES ASSUME NEW j \in DOMAIN new, NEW k \in DOMAIN new, j < k,
                          new[j] = Mark(f), new[k] = Mark(f)
                   PROVE  FALSE
        OBVIOUS
      <4>1. j \in DOMAIN old
        BY <3>3, <3>7 DEF last
      <4>2. CASE k = last
        BY <3>3, <3>6, <4>1, <4>2
      <4>3. CASE k \in DOMAIN old
        BY <3>3, <3>4, <4>1, <4>3
      <4> QED
        BY <3>7, <4>2, <4>3
    <3> QED
      BY <3>8, <3>9 DEF new
  <2> QED
    BY <1>7, <2>2, <2>3
<1>10. Good(0)
  <2>1. DOMAIN all[0] = {}
    BY <1>8
  <2> QED
    BY <2>1
<1>11. Good(n)
  <2> HIDE DEF Good
  <2>1. CASE T = {}
    BY <1>1, <2>1
  <2>2. CASE T # {}
    <3>1. PICK i \in T : \A k \in Nat : k < i => k \notin T
      <4>1. T \in SUBSET Nat
        BY <1>1
      <4> HIDE DEF T
      <4> QED
        BY <2>2, <4>1, LeastNumber
    <3>2. i \in 1 .. n /\ i - 1 \in 0 .. n /\ i - 1 < i /\ i - 1 \in Nat
      BY <1>1, <1>10, <3>1
    <3>3. Good(i - 1)
      BY <3>1, <3>2
    <3> QED
      BY <1>9, <3>1, <3>2, <3>3
  <2> QED
    BY <2>1, <2>2
<1>12. Left(lost, f) = all[n] /\ all[n] \in Seq(Nat)
  BY <1>1, <1>4, <1>8
<1>13. \A j \in DOMAIN all[n] : \A g \in Frame : all[n][j] = Mark(g) => g = f
  BY <1>5, <1>11
<1> QED
  BY <1>11, <1>12, <1>13 DEF Bytes

\* what follows in order: two sequences, if the marks of the first come before
LEMMA CatInOrder ==
    ASSUME NEW s \in Bytes, NEW t \in Bytes, InOrder(s), InOrder(t),
           \A j \in DOMAIN s : \A k \in DOMAIN t : \A f, g \in Frame :
               s[j] = Mark(f) /\ t[k] = Mark(g) => f < g
    PROVE  InOrder(s \o t)
<1> DEFINE c == s \o t
<1>1. /\ Len(s) \in Nat /\ Len(t) \in Nat /\ DOMAIN s = 1 .. Len(s) /\ DOMAIN t = 1 .. Len(t)
      /\ DOMAIN c = 1 .. (Len(s) + Len(t))
      /\ \A i \in 1 .. Len(s) : c[i] = s[i]
      /\ \A i \in 1 .. Len(t) : c[Len(s) + i] = t[i]
  BY Cat, SeqFacts DEF Bytes
<1> HIDE DEF c
<1>2. \A j \in DOMAIN c :
        \/ j \in DOMAIN s /\ c[j] = s[j]
        \/ j - Len(s) \in DOMAIN t /\ c[j] = t[j - Len(s)] /\ j > Len(s)
  <2> SUFFICES ASSUME NEW j \in DOMAIN c, j \notin DOMAIN s
               PROVE  j - Len(s) \in DOMAIN t /\ c[j] = t[j - Len(s)] /\ j > Len(s)
    BY <1>1
  <2>1. j - Len(s) \in DOMAIN t /\ j > Len(s) /\ Len(s) + (j - Len(s)) = j
    BY <1>1
  <2> QED
    BY <1>1, <2>1
<1>3. ASSUME NEW j \in DOMAIN c, NEW k \in DOMAIN c, NEW f \in Frame, NEW g \in Frame,
             j < k, c[j] = Mark(f), c[k] = Mark(g)
      PROVE  f < g
  <2>1. CASE k \in DOMAIN s /\ c[k] = s[k]
    <3>1. j \in DOMAIN s
      BY <1>1, <1>3, <2>1
    <3>2. c[j] = s[j]
      BY <1>1, <3>1
    <3> QED
      BY <1>3, <2>1, <3>1, <3>2 DEF InOrder
  <2>2. CASE k - Len(s) \in DOMAIN t /\ c[k] = t[k - Len(s)] /\ k > Len(s)
    <3>1. CASE j \in DOMAIN s /\ c[j] = s[j]
      BY <1>3, <2>2, <3>1
    <3>2. CASE j - Len(s) \in DOMAIN t /\ c[j] = t[j - Len(s)] /\ j > Len(s)
      <4>1. j - Len(s) < k - Len(s)
        BY <1>1, <1>3
      <4> QED
        BY <1>3, <2>2, <3>2, <4>1 DEF InOrder
    <3> QED
      BY <1>2, <3>1, <3>2
  <2> QED
    BY <1>2, <2>1, <2>2
<1> QED
  BY <1>3 DEF InOrder, c

\* the marks that arrive are in order
LEMMA Arrives ==
    ASSUME NEW lost
    PROVE  Arriving(lost) \in Bytes /\ InOrder(Arriving(lost))
<1> DEFINE seqs == [f \in DOMAIN Stream |-> Left(lost, f)]
           n == Len(Stream)
<1>1. n \in Nat /\ Frame = 1 .. n
  BY BytesAssumption, SeqFacts DEF Frame
<1>2. \A f \in 1 .. n : Left(lost, f) \in Seq(Nat)
  BY <1>1, LeftOver DEF Bytes
<1>3. seqs \in Seq(Seq(Nat)) /\ Len(seqs) = n /\ \A f \in 1 .. n : seqs[f] = Left(lost, f)
  <2> HIDE DEF n
  <2> QED
    BY <1>1, <1>2 DEF Frame
<1>4. Arriving(lost) = FlattenSeq(seqs)
  BY DEF Arriving
<1> HIDE DEF seqs, n
<1>5. PICK all : /\ all[0] = <<>>
                 /\ \A i \in 1 .. n : all[i] = all[i - 1] \o seqs[i]
                 /\ \A i \in 0 .. n : all[i] \in Seq(Nat)
                 /\ FlattenSeq(seqs) = all[n]
  BY <1>3, Flattened
<1> DEFINE Good(i) ==
             /\ \A j \in DOMAIN all[i] : \A g \in Frame : all[i][j] = Mark(g) => g <= i
             /\ InOrder(all[i])
           T == {i \in 0 .. n : ~Good(i)}
<1>6. ASSUME NEW i \in 1 .. n, Good(i - 1)
      PROVE  Good(i)
  <2> DEFINE s == all[i - 1]
             t == Left(lost, i)
             c == all[i]
  <2>1. i - 1 \in 0 .. n /\ s \in Bytes /\ t \in Bytes /\ c = s \o t
    <3>1. i - 1 \in 0 .. n
      BY <1>1
    <3>2. s \in Seq(Nat)
      BY <1>5, <3>1
    <3>3. t \in Seq(Nat)
      BY <1>2
    <3>4. c = s \o t
      BY <1>3, <1>5
    <3> QED
      BY <3>1, <3>2, <3>3, <3>4 DEF Bytes
  <2>2. /\ \A j \in DOMAIN t : \A g \in Frame : t[j] = Mark(g) => g = i
        /\ \A j, k \in DOMAIN t : j < k => ~(t[j] = Mark(i) /\ t[k] = Mark(i))
    BY <1>1, LeftOver
  <2>3. /\ \A j \in DOMAIN s : \A g \in Frame : s[j] = Mark(g) => g <= i - 1
        /\ InOrder(s)
    BY <1>6
  <2> HIDE DEF s, t, c
  <2>4. InOrder(t)
    BY <2>2 DEF InOrder
  <2>5. \A f, g \in Frame : f <= i - 1 /\ g = i => f < g
    BY <1>1
  <2>6. InOrder(c)
    BY <2>1, <2>3, <2>4, <2>2, <2>5, CatInOrder
  <2>7. \A j \in DOMAIN c : \A g \in Frame : c[j] = Mark(g) => g <= i
    <3> SUFFICES ASSUME NEW j \in DOMAIN c, NEW g \in Frame, c[j] = Mark(g)
                 PROVE  g <= i
      OBVIOUS
    <3>1. /\ Len(s) \in Nat /\ Len(t) \in Nat /\ DOMAIN s = 1 .. Len(s) /\ DOMAIN t = 1 .. Len(t)
          /\ DOMAIN c = 1 .. (Len(s) + Len(t))
          /\ \A k \in 1 .. Len(s) : c[k] = s[k]
          /\ \A k \in 1 .. Len(t) : c[Len(s) + k] = t[k]
      BY <2>1, Cat, SeqFacts DEF Bytes
    <3>2. CASE j \in 1 .. Len(s)
      <4>1. s[j] = Mark(g) /\ j \in DOMAIN s
        BY <3>1, <3>2
      <4>2. g <= i - 1
        BY <2>3, <4>1
      <4> QED
        BY <1>1, <4>2
    <3>3. CASE j \notin 1 .. Len(s)
      <4>1. j - Len(s) \in DOMAIN t /\ Len(s) + (j - Len(s)) = j
        BY <3>1, <3>3
      <4>2. t[j - Len(s)] = Mark(g)
        BY <3>1, <4>1
      <4>3. g = i
        BY <2>2, <4>1, <4>2
      <4> QED
        BY <1>1, <4>3
    <3> QED
      BY <3>2, <3>3
  <2> QED
    BY <2>6, <2>7 DEF c
<1>7. Good(0)
  <2>1. DOMAIN all[0] = {}
    BY <1>5
  <2> QED
    BY <2>1 DEF InOrder
<1>8. Good(n)
  <2> HIDE DEF Good
  <2>1. CASE T = {}
    BY <1>1, <2>1
  <2>2. CASE T # {}
    <3>1. PICK i \in T : \A k \in Nat : k < i => k \notin T
      <4>1. T \in SUBSET Nat
        BY <1>1
      <4> HIDE DEF T
      <4> QED
        BY <2>2, <4>1, LeastNumber
    <3>2. i \in 1 .. n /\ i - 1 \in 0 .. n /\ i - 1 < i /\ i - 1 \in Nat
      BY <1>1, <1>7, <3>1
    <3>3. Good(i - 1)
      BY <3>1, <3>2
    <3> QED
      BY <1>6, <3>1, <3>2, <3>3
  <2> QED
    BY <2>1, <2>2
<1>9. Arriving(lost) = all[n] /\ all[n] \in Seq(Nat)
  BY <1>1, <1>4, <1>5
<1> QED
  BY <1>8, <1>9 DEF Bytes

-----------------------------------------------------------------------------
(* What asicRead does to the marks.                                        *)

\* t has no marks but those of s, which are in it d places earlier, and as
\* many bytes less
ShiftedBy(t, s, d) ==
    /\ Len(t) = Len(s) - d
    /\ \A j \in DOMAIN t : IsMark(t[j]) => j + d \in DOMAIN s /\ s[j + d] = t[j]

LEMMA ShiftSame ==
    ASSUME NEW s \in Bytes
    PROVE  ShiftedBy(s, s, 0)
BY SeqFacts DEF ShiftedBy, Bytes

LEMMA ShiftTwice ==
    ASSUME NEW s \in Bytes, NEW t \in Bytes, NEW u \in Bytes, NEW d \in Int, NEW e \in Int,
           ShiftedBy(t, s, d), ShiftedBy(u, t, e)
    PROVE  ShiftedBy(u, s, d + e)
<1>1. /\ Len(s) \in Nat /\ Len(t) \in Nat /\ Len(u) \in Nat
      /\ DOMAIN u = 1 .. Len(u)
  BY SeqFacts DEF Bytes
<1>2. Len(u) = Len(s) - (d + e)
  BY <1>1 DEF ShiftedBy
<1>3. ASSUME NEW j \in DOMAIN u, IsMark(u[j])
      PROVE  j + (d + e) \in DOMAIN s /\ s[j + (d + e)] = u[j]
  <2>1. j + e \in DOMAIN t /\ t[j + e] = u[j]
    BY <1>3 DEF ShiftedBy
  <2>2. (j + e) + d \in DOMAIN s /\ s[(j + e) + d] = t[j + e]
    BY <1>3, <2>1 DEF ShiftedBy
  <2>3. (j + e) + d = j + (d + e)
    BY <1>1
  <2> QED
    BY <2>1, <2>2, <2>3
<1> QED
  BY <1>2, <1>3 DEF ShiftedBy

LEMMA ShiftCat ==
    ASSUME NEW s \in Bytes, NEW t \in Bytes, NEW w \in Bytes, NEW d \in Int, ShiftedBy(t, s, d)
    PROVE  ShiftedBy(t \o w, s \o w, d)
<1> DEFINE a == t \o w
           b == s \o w
<1>1. /\ Len(s) \in Nat /\ Len(t) \in Nat /\ Len(w) \in Nat
      /\ DOMAIN s = 1 .. Len(s) /\ DOMAIN t = 1 .. Len(t)
  BY SeqFacts DEF Bytes
<1>2. /\ Len(a) = Len(t) + Len(w) /\ DOMAIN a = 1 .. (Len(t) + Len(w))
      /\ \A i \in 1 .. Len(t) : a[i] = t[i]
      /\ \A i \in 1 .. Len(w) : a[Len(t) + i] = w[i]
  BY CatBytes
<1>3. /\ Len(b) = Len(s) + Len(w) /\ DOMAIN b = 1 .. (Len(s) + Len(w))
      /\ \A i \in 1 .. Len(s) : b[i] = s[i]
      /\ \A i \in 1 .. Len(w) : b[Len(s) + i] = w[i]
  BY CatBytes
<1> HIDE DEF a, b
<1>4. Len(t) = Len(s) - d
  BY DEF ShiftedBy
<1>5. ASSUME NEW j \in DOMAIN a, IsMark(a[j])
      PROVE  j + d \in DOMAIN b /\ b[j + d] = a[j]
  <2>1. CASE j \in 1 .. Len(t)
    <3>1. a[j] = t[j] /\ j \in DOMAIN t
      BY <1>1, <1>2, <2>1
    <3>2. j + d \in DOMAIN s /\ s[j + d] = t[j]
      BY <1>5, <3>1 DEF ShiftedBy
    <3> QED
      BY <1>1, <1>3, <3>1, <3>2
  <2>2. CASE j \notin 1 .. Len(t)
    <3> DEFINE i == j - Len(t)
    <3>1. i \in 1 .. Len(w) /\ j = Len(t) + i /\ j + d = Len(s) + i
      <4>1. j \in 1 .. (Len(t) + Len(w))
        BY <1>2
      <4> QED
        BY <1>1, <1>4, <2>2, <4>1
    <3> HIDE DEF i
    <3>2. a[j] = w[i] /\ b[j + d] = w[i]
      BY <1>2, <1>3, <3>1
    <3>3. j + d \in DOMAIN b
      BY <1>1, <1>3, <3>1
    <3> QED
      BY <3>2, <3>3
  <2> QED
    BY <2>1, <2>2
<1>6. Len(a) = Len(b) - d
  BY <1>1, <1>2, <1>3, <1>4
<1> QED
  BY <1>5, <1>6 DEF ShiftedBy, a, b

LEMMA ShiftDrop ==
    ASSUME NEW s \in Bytes, NEW n \in 0 .. Len(s)
    PROVE  Drop(s, n) \in Bytes /\ ShiftedBy(Drop(s, n), s, n)
<1> DEFINE t == Drop(s, n)
<1>1. /\ t \in Seq(Nat) /\ Len(t) = Len(s) - n /\ DOMAIN t = 1 .. (Len(s) - n)
      /\ \A i \in 1 .. (Len(s) - n) : t[i] = s[n + i]
  BY Cut DEF Bytes
<1>2. Len(s) \in Nat /\ DOMAIN s = 1 .. Len(s)
  BY SeqFacts DEF Bytes
<1> HIDE DEF t
<1>3. ASSUME NEW j \in DOMAIN t
      PROVE  j + n \in DOMAIN s /\ s[j + n] = t[j]
  <2>1. j + n = n + j /\ j \in 1 .. (Len(s) - n) /\ n + j \in DOMAIN s
    BY <1>1, <1>2
  <2> QED
    BY <1>1, <2>1
<1> QED
  BY <1>1, <1>3 DEF ShiftedBy, Bytes, t

\* shifted marks are in order, and are marks of what was there
LEMMA ShiftInOrder ==
    ASSUME NEW s \in Bytes, NEW t \in Bytes, NEW d \in Int, ShiftedBy(t, s, d), InOrder(s)
    PROVE  /\ InOrder(t)
           /\ \A j \in DOMAIN t : \A g \in Frame :
                 t[j] = Mark(g) => \E k \in DOMAIN s : s[k] = Mark(g)
<1>1. \A j \in DOMAIN t : \A g \in Frame :
        t[j] = Mark(g) => j + d \in DOMAIN s /\ s[j + d] = Mark(g)
  BY DEF ShiftedBy, IsMark
<1>2. ASSUME NEW j \in DOMAIN t, NEW k \in DOMAIN t, NEW f \in Frame, NEW g \in Frame,
             j < k, t[j] = Mark(f), t[k] = Mark(g)
      PROVE  f < g
  <2>1. j + d < k + d
    BY <1>2, SeqFacts DEF Bytes
  <2> QED
    BY <1>1, <1>2, <2>1 DEF InOrder
<1> QED
  BY <1>1, <1>2 DEF InOrder

\* the bytes of the magic, and those that Mended adds, are no marks
LEMMA NoMark ==
    /\ ~IsMark(0) /\ ~IsMark(CMD_READ)
    /\ \A i \in 1 .. 4 : ~IsMark(resp_magic[i])
    /\ resp_magic \in Bytes /\ Len(resp_magic) = 4
<1>1. ~IsMark(0) /\ ~IsMark(CMD_READ)
  BY FrameFacts DEF IsMark
<1>2. resp_magic \in Seq(Nat) /\ Len(resp_magic) = 4
  BY DEF resp_magic
<1>3. ASSUME NEW i \in 1 .. 4, NEW f \in Frame, resp_magic[i] = Mark(f)
      PROVE  FALSE
  <2>1. /\ Stream[f] \in Seq(Nat) /\ Len(Stream[f]) \in Nat /\ Len(Stream[f]) >= 16
        /\ DOMAIN Stream[f] = 1 .. Len(Stream[f])
    BY FrameFacts DEF Bytes, RSP_LEN_CFG
  <2>2. SubSeq(Stream[f], 1, 4) = resp_magic
    BY StreamAssumption DEF Frame
  <2>3. SubSeq(Stream[f], 1, 4)[i] = Stream[f][i]
    <3>1. 4 \in 0 .. Len(Stream[f])
      BY <2>1
    <3>2. Take(Stream[f], 4)[i] = Stream[f][i]
      BY <2>1, <3>1, Cut
    <3> QED
      BY <3>2 DEF Take
  <2>4. i \in DOMAIN Stream[f] /\ i # Len(Stream[f]) - 3
    BY <2>1
  <2> QED
    BY <1>3, <2>2, <2>3, <2>4, FrameFacts
<1> QED
  BY <1>1, <1>2, <1>3 DEF IsMark, Bytes

\* the place of the first magic
LEMMA IndexFacts ==
    ASSUME NEW s \in Bytes
    PROVE  \/ Index(s) = -1 /\ \A i \in 0 .. (Len(s) - 4) : SubSeq(s, i + 1, i + 4) # resp_magic
           \/ /\ Index(s) \in 0 .. (Len(s) - 4)
              /\ SubSeq(s, Index(s) + 1, Index(s) + 4) = resp_magic
              /\ \A i \in 0 .. (Len(s) - 4) : SubSeq(s, i + 1, i + 4) = resp_magic => Index(s) <= i
<1> DEFINE at == {i \in 0 .. (Len(s) - 4) : SubSeq(s, i + 1, i + 4) = resp_magic}
           i0 == CHOOSE i \in at : \A j \in at : i <= j
<1>0. Len(s) \in Nat
  BY SeqFacts DEF Bytes
<1>1. CASE at = {}
  BY <1>1 DEF Index
<1>2. CASE at # {}
  <2>1. at \in SUBSET Nat
    BY <1>0
  <2>2. \E i \in at : \A j \in at : i <= j
    <3> HIDE DEF at
    <3>1. PICK i \in at : \A m \in Nat : m < i => m \notin at
      BY <1>2, <2>1, LeastNumber
    <3>2. \A j \in at : i <= j
      BY <2>1, <3>1
    <3> QED
      BY <3>2
  <2>3. i0 \in at /\ \A j \in at : i0 <= j
    <3> HIDE DEF at
    <3> QED
      BY <2>2
  <2>4. Index(s) = i0
    BY <1>2 DEF Index
  <2> HIDE DEF i0
  <2> QED
    BY <2>3, <2>4
<1> QED
  BY <1>1, <1>2

\* looking for a magic shifts the marks
LEMMA AlignedShifts ==
    ASSUME NEW s \in Bytes
    PROVE  Aligned(s) \in Bytes /\ \E d \in Int : ShiftedBy(Aligned(s), s, d)
<1>0. Len(s) \in Nat /\ DOMAIN s = 1 .. Len(s)
  BY SeqFacts DEF Bytes
<1>1. CASE Aligned(s) = s
  BY <1>1, ShiftSame
<1>2. CASE Len(s) > 4 /\ Aligned(s) = resp_magic \o Drop(s, 3)
  <2> DEFINE t == Drop(s, 3)
             a == resp_magic \o t
  <2>1. 3 \in 0 .. Len(s)
    BY <1>0, <1>2
  <2>2. /\ t \in Bytes /\ Len(t) = Len(s) - 3
        /\ \A i \in 1 .. (Len(s) - 3) : t[i] = s[3 + i]
    BY <2>1, Cut DEF Bytes
  <2> HIDE DEF t
  <2>3. /\ a \in Bytes /\ Len(a) = 4 + Len(t) /\ DOMAIN a = 1 .. (4 + Len(t))
        /\ \A i \in 1 .. 4 : a[i] = resp_magic[i]
        /\ \A i \in 1 .. Len(t) : a[4 + i] = t[i]
    <3> DEFINE z == resp_magic
    <3>1. z \in Bytes /\ Len(z) = 4 /\ t \in Bytes
      BY <2>2, NoMark
    <3> HIDE DEF z
    <3>2. /\ z \o t \in Bytes /\ Len(z \o t) = Len(z) + Len(t)
          /\ DOMAIN (z \o t) = 1 .. (Len(z) + Len(t))
          /\ \A i \in 1 .. Len(z) : (z \o t)[i] = z[i]
          /\ \A i \in 1 .. Len(t) : (z \o t)[Len(z) + i] = t[i]
      BY <3>1, CatBytes
    <3> QED
      BY <3>1, <3>2 DEF z
  <2> HIDE DEF a
  <2>4. ASSUME NEW j \in DOMAIN a, IsMark(a[j])
        PROVE  j + -1 \in DOMAIN s /\ s[j + -1] = a[j]
    <3>1. j \notin 1 .. 4
      BY <2>3, <2>4, NoMark
    <3> DEFINE i == j - 4
    <3>2. i \in 1 .. (Len(s) - 3) /\ j = 4 + i /\ j + -1 = 3 + i
      BY <1>0, <2>2, <2>3, <3>1
    <3> HIDE DEF i
    <3>3. a[j] = s[3 + i]
      BY <2>2, <2>3, <3>2
    <3> QED
      BY <1>0, <3>2, <3>3
  <2>5. Len(a) = Len(s) - (-1)
    BY <1>0, <2>2, <2>3
  <2>6. ShiftedBy(a, s, -1)
    BY <2>4, <2>5 DEF ShiftedBy
  <2>7. Aligned(s) = a
    BY <1>2 DEF a, t
  <2>8. -1 \in Int
    OBVIOUS
  <2> QED
    BY <2>3, <2>6, <2>7, <2>8
<1>3. CASE Index(s) > 0 /\ Aligned(s) = Drop(s, Index(s))
  <2>1. Index(s) \in 0 .. Len(s) /\ Index(s) \in Int
    BY <1>0, <1>3, IndexFacts
  <2> QED
    BY <1>3, <2>1, ShiftDrop
<1> QED
  BY <1>1, <1>2, <1>3 DEF Aligned

\* a byte put between others
LEMMA Inserted ==
    ASSUME NEW v \in Bytes, NEW n \in 0 .. Len(v), NEW b \in Nat
    PROVE  LET m == (Take(v, n) \o <<b>>) \o Drop(v, n)
           IN  m \in Bytes /\ \A j \in DOMAIN m : m[j] = b \/ \E k \in DOMAIN v : m[j] = v[k]
<1> DEFINE t == Take(v, n)
           d == Drop(v, n)
           a == t \o <<b>>
           m == a \o d
<1>0. Len(v) \in Nat /\ DOMAIN v = 1 .. Len(v)
  BY SeqFacts DEF Bytes
<1>1. /\ t \in Bytes /\ Len(t) = n /\ \A i \in 1 .. n : t[i] = v[i]
      /\ d \in Bytes /\ Len(d) = Len(v) - n /\ \A i \in 1 .. (Len(v) - n) : d[i] = v[n + i]
  BY Cut DEF Bytes
<1> HIDE DEF t, d
<1>2. <<b>> \in Bytes /\ Len(<<b>>) = 1 /\ <<b>>[1] = b
  BY DEF Bytes
<1>3. /\ a \in Bytes /\ Len(a) = n + 1
      /\ \A i \in 1 .. n : a[i] = t[i]
      /\ a[n + 1] = b
  <2>1. /\ a \in Bytes /\ Len(a) = n + 1
        /\ \A i \in 1 .. n : a[i] = t[i]
        /\ \A i \in 1 .. 1 : a[n + i] = <<b>>[i]
    BY <1>1, <1>2, Cat DEF Bytes
  <2> HIDE DEF a
  <2> QED
    BY <1>2, <2>1
<1> HIDE DEF a
<1>4. /\ m \in Bytes /\ DOMAIN m = 1 .. (n + 1 + (Len(v) - n))
      /\ \A i \in 1 .. (n + 1) : m[i] = a[i]
      /\ \A i \in 1 .. (Len(v) - n) : m[n + 1 + i] = d[i]
  <2>1. a \in Seq(Nat) /\ d \in Seq(Nat)
    BY <1>1, <1>3 DEF Bytes
  <2>2. /\ m \in Seq(Nat) /\ DOMAIN m = 1 .. (Len(a) + Len(d))
        /\ \A i \in 1 .. Len(a) : m[i] = a[i]
        /\ \A i \in 1 .. Len(d) : m[Len(a) + i] = d[i]
    BY <2>1, Cat
  <2> QED
    BY <1>1, <1>3, <2>2 DEF Bytes
<1> HIDE DEF m
<1>5. ASSUME NEW j \in DOMAIN m
      PROVE  m[j] = b \/ \E k \in DOMAIN v : m[j] = v[k]
  <2>1. CASE j <= n
    <3>1. j \in 1 .. n /\ j \in 1 .. (n + 1) /\ j \in DOMAIN v
      BY <1>0, <1>4, <2>1
    <3> QED
      BY <1>1, <1>3, <1>4, <3>1
  <2>2. CASE j = n + 1
    <3>1. m[j] = a[n + 1]
      BY <1>4, <2>2
    <3> QED
      BY <1>3, <3>1
  <2>3. CASE j > n + 1
    <3> DEFINE i == j - (n + 1)
    <3>1. i \in 1 .. (Len(v) - n) /\ j = n + 1 + i /\ n + i \in DOMAIN v
      BY <1>0, <1>4, <2>3
    <3> HIDE DEF i
    <3>2. m[j] = v[n + i]
      BY <1>1, <1>4, <3>1
    <3> QED
      BY <3>1, <3>2
  <2> QED
    BY <1>0, <1>4, <2>1, <2>2, <2>3
<1> QED
  BY <1>4, <1>5 DEF m, a, t, d

\* what is handed on of a cut is nothing, or a frame whose mark is in it
LEMMA HandedOn ==
    ASSUME NEW v \in Bytes, NEW out, out = hitResult(v) \/ out = checkCfgRespRaw(v)
    PROVE  \/ out = <<>>
           \/ \E f \in Frame : out = <<f>> /\ \E j \in DOMAIN v : v[j] = Mark(f)
<1>0. \A m : \/ Genuine(m) = <<>>
             \/ \E f \in Frame : Stream[f] = m /\ Genuine(m) = <<f>>
  BY DEF Genuine, Frame
<1>1. \A f \in Frame : Len(Stream[f]) - 3 \in DOMAIN Stream[f] /\ Stream[f] # <<>>
  BY FrameFacts
<1>2. CASE out = Genuine(v)
  <2>1. CASE out = <<>>
    BY <2>1
  <2>2. ASSUME NEW f \in Frame, Stream[f] = v, Genuine(v) = <<f>>
        PROVE  out = <<f>> /\ \E j \in DOMAIN v : v[j] = Mark(f)
    BY <1>1, <1>2, <2>2 DEF Mark
  <2> QED
    BY <1>0, <1>2, <2>1, <2>2
<1>3. CASE out = Genuine(Mended(v)) /\ Mended(v) # v
  <2>1. ASSUME NEW f \in Frame, Stream[f] = Mended(v), out = <<f>>
        PROVE  \E j \in DOMAIN v : v[j] = Mark(f)
    <3> DEFINE m == Mended(v)
    <3>0. Len(v) = 15
      BY <1>3 DEF Mended, RSP_LEN_CFG
    <3>1. m # <<>>
      BY <1>1, <2>1
    <3>2. \/ m = (Take(v, 5) \o <<CMD_READ>>) \o Drop(v, 5)
          \/ m = (Take(v, 6) \o <<0>>) \o Drop(v, 6)
      BY <1>3, <3>1 DEF Mended
    <3>3. 5 \in 0 .. Len(v) /\ 6 \in 0 .. Len(v) /\ CMD_READ \in Nat /\ 0 \in Nat
      BY <3>0 DEF CMD_READ
    <3>4. \A j \in DOMAIN m : m[j] = CMD_READ \/ m[j] = 0 \/ \E k \in DOMAIN v : m[j] = v[k]
      <4>1. CASE m = (Take(v, 5) \o <<CMD_READ>>) \o Drop(v, 5)
        <5> HIDE DEF m
        <5> QED
          BY <3>3, <4>1, Inserted
      <4>2. CASE m = (Take(v, 6) \o <<0>>) \o Drop(v, 6)
        <5> HIDE DEF m
        <5> QED
          BY <3>3, <4>2, Inserted
      <4> QED
        BY <3>2, <4>1, <4>2
    <3>5. Len(Stream[f]) - 3 \in DOMAIN m /\ m[Len(Stream[f]) - 3] = Mark(f)
      BY <1>1, <2>1 DEF Mark
    <3>6. Mark(f) # 0 /\ Mark(f) # CMD_READ
      BY NoMark DEF IsMark
    <3> HIDE DEF m
    <3> QED
      BY <3>4, <3>5, <3>6
  <2> QED
    BY <1>0, <1>3, <2>1
<1> QED
  BY <1>2, <1>3 DEF hitResult, checkCfgRespRaw

\* what does not fit into buf takes its marks with it
LEMMA Trimmed ==
    ASSUME NEW s \in Bytes, NEW w \in Bytes, NEW n \in 0 .. Len(s), InOrder(s \o w)
    PROVE  /\ Take(s, n) \in Bytes /\ InOrder(Take(s, n) \o w)
           /\ \A j \in DOMAIN (Take(s, n) \o w) : \A g \in Frame :
                 (Take(s, n) \o w)[j] = Mark(g) => \E k \in DOMAIN (s \o w) : (s \o w)[k] = Mark(g)
<1> DEFINE t == Take(s, n)
           a == t \o w
           b == s \o w
           d == Len(s) - n
<1>1. /\ Len(s) \in Nat /\ Len(w) \in Nat
      /\ t \in Bytes /\ Len(t) = n /\ \A i \in 1 .. n : t[i] = s[i]
  BY Cut, SeqFacts DEF Bytes
<1> HIDE DEF t
<1>2. /\ DOMAIN a = 1 .. (n + Len(w))
      /\ \A i \in 1 .. n : a[i] = t[i]
      /\ \A i \in 1 .. Len(w) : a[n + i] = w[i]
  BY <1>1, CatBytes
<1>3. /\ DOMAIN b = 1 .. (Len(s) + Len(w))
      /\ \A i \in 1 .. Len(s) : b[i] = s[i]
      /\ \A i \in 1 .. Len(w) : b[Len(s) + i] = w[i]
  BY CatBytes
<1> HIDE DEF a, b
<1> DEFINE place(j) == IF j <= n THEN j ELSE j + d
<1>4. ASSUME NEW j \in DOMAIN a
      PROVE  place(j) \in DOMAIN b /\ b[place(j)] = a[j]
  <2>1. CASE j <= n
    <3>1. j \in 1 .. n /\ j \in 1 .. Len(s) /\ j \in DOMAIN b
      BY <1>1, <1>2, <1>3, <2>1
    <3> QED
      BY <1>1, <1>2, <1>3, <2>1, <3>1
  <2>2. CASE j > n
    <3> DEFINE i == j - n
    <3>1. i \in 1 .. Len(w) /\ j = n + i /\ j + d = Len(s) + i /\ j + d \in DOMAIN b
      BY <1>1, <1>2, <1>3, <2>2
    <3> HIDE DEF i, d
    <3>2. a[j] = w[i] /\ b[j + d] = w[i]
      BY <1>2, <1>3, <3>1
    <3>3. ~(j <= n)
      BY <1>2, <2>2
    <3> QED
      BY <3>1, <3>2, <3>3
  <2> QED
    BY <1>1, <1>2, <2>1, <2>2
<1>5. ASSUME NEW j \in DOMAIN a, NEW k \in DOMAIN a, j < k
      PROVE  place(j) < place(k)
  BY <1>1, <1>2, <1>5
<1> HIDE DEF place
<1>6. InOrder(a)
  BY <1>4, <1>5 DEF InOrder, b
<1>7. \A j \in DOMAIN a : \A g \in Frame : a[j] = Mark(g) => \E k \in DOMAIN b : b[k] = Mark(g)
  BY <1>4
<1> QED
  BY <1>1, <1>6, <1>7 DEF a, b, t

-----------------------------------------------------------------------------
(* The steps.                                                              *)

LEMMA ComingFacts ==
    ASSUME Types
    PROVE  received \o buf \in Bytes /\ Coming \in Bytes
BY CatBytes DEF Types, Coming

\* when nothing is handed on and marks are shifted
LEMMA Shifting ==
    ASSUME FramesInv, Types', got' = got, NEW d \in Int, ShiftedBy(Coming', Coming, d)
    PROVE  FramesInv'
<1> DEFINE old == Coming
           new == Coming'
<1>1. old \in Bytes /\ new \in Bytes
  BY ComingFacts, CatBytes DEF FramesInv, Types, Coming
<1> HIDE DEF old, new
<1>2. /\ InOrder(new)
      /\ \A j \in DOMAIN new : \A g \in Frame :
            new[j] = Mark(g) => \E k \in DOMAIN old : old[k] = Mark(g)
  BY <1>1, ShiftInOrder DEF FramesInv, old, new
<1>3. GotFirst'
  BY <1>2 DEF FramesInv, GotFirst, old, new
<1>4. InOrder(Coming)'
  BY <1>2 DEF new, InOrder, Frame, Mark
<1>5. FramesInOrder'
  BY DEF FramesInv, FramesInOrder
<1> QED
  BY <1>3, <1>4, <1>5 DEF FramesInv

LEMMA ReadKeeps ==
    ASSUME FramesInv, Read
    PROVE  FramesInv'
<1>1. PICK n \in 1 .. BufSize : n <= Len(wire) /\ buf' = Take(wire, n) /\ wire' = Drop(wire, n)
  BY DEF Read
<1>2. n \in 0 .. Len(wire)
  BY <1>1, SizeAssumption, SeqFacts DEF FramesInv, Types, Bytes
<1>3. buf' \in Bytes /\ wire' \in Bytes /\ buf' \o wire' = wire
  BY <1>1, <1>2, Cut DEF FramesInv, Types, Bytes
<1>4. received' = received /\ frameStart' = frameStart /\ got' = got /\ overrun' = overrun
  BY DEF Read
<1>5. Types'
  BY <1>3, <1>4 DEF FramesInv, Types
<1>6. Coming' = Coming
  <2>1. received \in Bytes /\ wire \in Bytes /\ buf = <<>>
    BY DEF FramesInv, Types, Read
  <2>2. received \o buf = received
    BY <2>1, ConcatEmptySeq DEF Bytes
  <2>3. Coming' = (received \o buf') \o wire'
    BY <1>4 DEF Coming
  <2>4. (received \o buf') \o wire' = received \o (buf' \o wire')
    <3>1. received \in Bytes /\ buf' \in Bytes /\ wire' \in Bytes
      BY <1>3, <2>1
    <3> QED
      BY <3>1, CatThrice
  <2> QED
    BY <1>3, <2>2, <2>3, <2>4 DEF Coming
<1>7. ShiftedBy(Coming', Coming, 0)
  BY <1>6, ComingFacts, ShiftSame DEF FramesInv
<1> QED
  BY <1>4, <1>5, <1>7, Shifting

\* the bytes wait for the rest of their frame
LEMMA WaitKeeps ==
    ASSUME FramesInv, NEW all, all = received \o buf, NEW r \in {all, Aligned(all)},
           NEW starts \in BOOLEAN,
           starts => Len(r) < 6 \/ Len(r) < CutAt(r),
           received' = IF ~starts /\ Len(r) > BufSize THEN Drop(r, Len(r) - 3) ELSE r,
           frameStart' = starts, buf' = <<>>, UNCHANGED <<wire, damaged, got, overrun>>
    PROVE  FramesInv'
<1>1. all \in Bytes /\ Coming = all \o wire /\ wire \in Bytes
  BY ComingFacts DEF FramesInv, Types, Coming
<1>2. r \in Bytes /\ \E d \in Int : ShiftedBy(r, all, d)
  <2>1. CASE r = all
    BY <1>1, <2>1, ShiftSame
  <2>2. CASE r = Aligned(all)
    BY <1>1, <2>2, AlignedShifts
  <2> QED
    BY <2>1, <2>2
<1>3. Len(r) \in Nat
  BY <1>2, SeqFacts DEF Bytes
<1>4. /\ received' \in Bytes /\ Len(received') <= BufSize
      /\ \E d \in Int : ShiftedBy(received', r, d)
  <2>1. CASE ~starts /\ Len(r) > BufSize
    <3> DEFINE n == Len(r) - 3
    <3>1. n \in 0 .. Len(r) /\ n \in Int /\ 3 <= BufSize
      BY <1>3, <2>1, SizeAssumption DEF RSP_LEN_CFG
    <3>2. received' = Drop(r, n)
      BY <2>1
    <3>3. Drop(r, n) \in Bytes /\ ShiftedBy(Drop(r, n), r, n)
      BY <1>2, <3>1, ShiftDrop
    <3>4. Len(Drop(r, n)) = 3
      <4>1. Len(Drop(r, n)) = Len(r) - n
        BY <1>2, <3>1, CutBytes
      <4> QED
        BY <1>3, <4>1
    <3> HIDE DEF n
    <3> QED
      BY <3>1, <3>2, <3>3, <3>4
  <2>2. CASE starts
    <3>1. CutAt(r) <= RSP_LEN_HIT /\ CutAt(r) \in Nat
      BY SizeAssumption DEF CutAt, RSP_LEN_CFG
    <3>2. Len(r) <= BufSize
      BY <1>3, <2>2, <3>1, SizeAssumption DEF RSP_LEN_CFG
    <3> QED
      BY <1>2, <2>2, <3>2, ShiftSame
  <2>3. CASE ~starts /\ ~(Len(r) > BufSize)
    <3>1. Len(r) <= BufSize
      BY <1>3, <2>3, SizeAssumption
    <3> QED
      BY <1>2, <2>3, <3>1, ShiftSame
  <2> QED
    BY <2>1, <2>2, <2>3
<1>5. PICK d \in Int, e \in Int : ShiftedBy(r, all, d) /\ ShiftedBy(received', r, e)
  BY <1>2, <1>4
<1> DEFINE kept == received'
<1>6. kept \in Bytes /\ d + e \in Int /\ ShiftedBy(kept \o wire, all \o wire, d + e)
  <2>1. kept \in Bytes
    BY <1>4
  <2>2. ShiftedBy(kept, r, e)
    BY <1>5
  <2> HIDE DEF kept
  <2>3. ShiftedBy(kept, all, d + e)
    BY <1>1, <1>2, <1>5, <2>1, <2>2, ShiftTwice
  <2> QED
    BY <1>1, <2>1, <2>3, ShiftCat
<1>7. Coming' = kept \o wire
  <2>1. kept \o <<>> = kept
    BY <1>6, ConcatEmptySeq DEF Bytes
  <2>2. Coming' = (kept \o buf') \o wire
    BY DEF Coming
  <2> QED
    BY <2>1, <2>2
<1>8. Types'
  BY <1>4, EmptySeq DEF FramesInv, Types, Bytes
<1>9. ShiftedBy(Coming', Coming, d + e)
  BY <1>1, <1>6, <1>7
<1> QED
  BY <1>6, <1>8, <1>9, Shifting

\* a frame is cut out and what follows it goes to buf
LEMMA CutKeeps ==
    ASSUME FramesInv, NEW all, all = received \o buf, NEW r \in {all, Aligned(all)}, NEW out,
           Len(r) >= 6, Len(r) >= CutAt(r),
           out = hitResult(Take(r, CutAt(r))) \/ out = checkCfgRespRaw(Take(r, CutAt(r))),
           got' = got \o out,
           buf' = IF Len(Rest(r)) > BufSize THEN Take(Rest(r), BufSize) ELSE Rest(r),
           received' = <<>>, frameStart' = FALSE, wire' = wire, overrun' \in BOOLEAN
    PROVE  FramesInv'
<1> DEFINE c == CutAt(r)
           v == Take(r, c)
           rest == Drop(r, c)
           m == r \o wire
           x == rest \o wire
<1>1. all \in Bytes /\ Coming = all \o wire /\ wire \in Bytes
  BY ComingFacts DEF FramesInv, Types, Coming
<1>2. r \in Bytes /\ \E d \in Int : ShiftedBy(r, all, d)
  <2>1. CASE r = all
    BY <1>1, <2>1, ShiftSame
  <2>2. CASE r = Aligned(all)
    BY <1>1, <2>2, AlignedShifts
  <2> QED
    BY <2>1, <2>2
<1>3. Len(r) \in Nat /\ c \in 0 .. Len(r)
  <2>1. Len(r) \in Nat
    BY <1>2, SeqFacts DEF Bytes
  <2>2. CutAt(r) \in Nat
    BY SizeAssumption DEF CutAt, RSP_LEN_CFG
  <2> QED
    BY <2>1, <2>2
<1>4. /\ v \in Bytes /\ DOMAIN v = 1 .. c /\ \A i \in 1 .. c : v[i] = r[i]
      /\ rest \in Bytes /\ ShiftedBy(rest, r, c)
  <2> HIDE DEF c
  <2>1. /\ v \in Bytes /\ DOMAIN v = 1 .. c /\ \A i \in 1 .. c : v[i] = r[i]
    BY <1>2, <1>3, CutBytes
  <2>2. rest \in Bytes /\ ShiftedBy(rest, r, c)
    BY <1>2, <1>3, ShiftDrop
  <2> QED
    BY <2>1, <2>2
<1>5. Rest(r) = rest
  BY DEF Rest
<1>6. /\ out = hitResult(v) \/ out = checkCfgRespRaw(v)
      /\ buf' = IF Len(rest) > BufSize THEN Take(rest, BufSize) ELSE rest
  BY <1>5
<1> HIDE DEF c, v, rest
<1>7. m \in Bytes /\ x \in Bytes
  BY <1>1, <1>2, <1>4, CatBytes
<1>8. /\ InOrder(m)
      /\ \A j \in DOMAIN m : \A g \in Frame :
            m[j] = Mark(g) => \E k \in DOMAIN Coming : Coming[k] = Mark(g)
  <2>1. PICK d \in Int : ShiftedBy(r, all, d)
    BY <1>2
  <2>2. ShiftedBy(m, Coming, d)
    BY <1>1, <1>2, <2>1, ShiftCat
  <2>3. Coming \in Bytes /\ InOrder(Coming)
    BY ComingFacts DEF FramesInv
  <2> HIDE DEF m
  <2> QED
    BY <1>7, <2>2, <2>3, ShiftInOrder
<1>9. /\ InOrder(x)
      /\ \A j \in DOMAIN x : \A g \in Frame :
            x[j] = Mark(g) => j + c \in DOMAIN m /\ m[j + c] = Mark(g)
  <2>1. ShiftedBy(x, m, c) /\ c \in Int
    BY <1>1, <1>2, <1>3, <1>4, ShiftCat
  <2> HIDE DEF x, m
  <2>2. InOrder(x)
    BY <1>7, <1>8, <2>1, ShiftInOrder
  <2> QED
    BY <2>1, <2>2 DEF ShiftedBy, IsMark
<1> DEFINE y == Coming'
<1>10. /\ buf' \in Bytes /\ InOrder(y)
       /\ \A j \in DOMAIN y : \A g \in Frame : y[j] = Mark(g) => \E k \in DOMAIN x : x[k] = Mark(g)
  <2> DEFINE b == buf'
  <2>1. b \in Bytes => Coming' = b \o wire
    <3>1. b \in Bytes => <<>> \o b = b
      BY ConcatEmptySeq DEF Bytes
    <3>2. Coming' = (<<>> \o b) \o wire
      BY DEF Coming
    <3> HIDE DEF b
    <3> QED
      BY <3>1, <3>2
  <2>2. CASE Len(rest) > BufSize
    <3>1. BufSize \in 0 .. Len(rest)
      BY <1>4, <2>2, SizeAssumption, SeqFacts DEF Bytes
    <3>2. b = Take(rest, BufSize)
      BY <1>6, <2>2
    <3> HIDE DEF b, y
    <3>3. /\ b \in Bytes /\ InOrder(b \o wire)
          /\ \A j \in DOMAIN (b \o wire) : \A g \in Frame :
                (b \o wire)[j] = Mark(g) => \E k \in DOMAIN x : x[k] = Mark(g)
      <4>1. rest \in Bytes /\ wire \in Bytes
        BY <1>1, <1>4
      <4> QED
        BY <1>9, <3>1, <3>2, <4>1, Trimmed
    <3> QED
      BY <2>1, <3>3 DEF b, y
  <2>3. CASE ~(Len(rest) > BufSize)
    <3>1. b = rest
      BY <1>6, <2>3
    <3>2. b \in Bytes /\ b \o wire = x
      BY <1>4, <3>1
    <3> HIDE DEF b, x
    <3> QED
      BY <1>9, <2>1, <3>2 DEF b
  <2> QED
    BY <2>2, <2>3
<1>11. \/ out = <<>>
       \/ \E f \in Frame : out = <<f>> /\ \E j \in 1 .. c : m[j] = Mark(f) /\ j \in DOMAIN m
  <2>1. \/ out = <<>>
        \/ \E f \in Frame : out = <<f>> /\ \E j \in DOMAIN v : v[j] = Mark(f)
    BY <1>4, <1>6, HandedOn
  <2>2. \A j \in 1 .. c : j \in DOMAIN m /\ m[j] = v[j]
    <3>1. /\ DOMAIN m = 1 .. (Len(r) + Len(wire)) /\ \A i \in 1 .. Len(r) : m[i] = r[i]
          /\ Len(wire) \in Nat
      BY <1>1, <1>2, CatBytes, SeqFacts DEF Bytes
    <3> HIDE DEF m
    <3> SUFFICES ASSUME NEW j \in 1 .. c PROVE j \in DOMAIN m /\ m[j] = v[j]
      OBVIOUS
    <3>2. j \in 1 .. Len(r) /\ j \in 1 .. (Len(r) + Len(wire))
      BY <1>3, <3>1
    <3>3. v[j] = r[j]
      BY <1>4
    <3> QED
      BY <3>1, <3>2, <3>3
  <2> HIDE DEF m
  <2> QED
    BY <1>4, <2>1, <2>2
<1> HIDE DEF m, x, y
<1>12. Types' /\ InOrder(Coming)'
  <2>1. got' \in Seq(Frame)
    <3>1. got \in Seq(Frame)
      BY DEF FramesInv, Types
    <3>2. out \in Seq(Frame)
      <4>1. <<>> \in Seq(Frame) /\ \A f \in Frame : <<f>> \in Seq(Frame)
        OBVIOUS
      <4> QED
        BY <1>11, <4>1
    <3> QED
      BY <3>1, <3>2, ConcatProperties
  <2>2. <<>> \in Bytes /\ Len(<<>>) <= BufSize
    BY EmptySeq, SizeAssumption DEF Bytes
  <2>3. Types'
    BY <1>1, <1>10, <2>1, <2>2 DEF Types
  <2> QED
    BY <1>10, <2>3 DEF y, InOrder, Frame, Mark
<1>13. \A i \in DOMAIN got : \A j \in DOMAIN m : \A g \in Frame : m[j] = Mark(g) => got[i] < g
  BY <1>8 DEF FramesInv, GotFirst
<1>14. \A i \in DOMAIN got : \A j \in DOMAIN y : \A g \in Frame : y[j] = Mark(g) => got[i] < g
  BY <1>9, <1>10, <1>13
<1>15. CASE out = <<>>
  <2>1. got' = got
    BY <1>15, ConcatEmptySeq DEF FramesInv, Types
  <2>2. GotFirst' /\ FramesInOrder'
    BY <1>14, <2>1 DEF FramesInv, GotFirst, FramesInOrder, y, Frame, Mark
  <2> QED
    BY <1>12, <2>2 DEF FramesInv
<1>16. CASE \E f \in Frame : out = <<f>> /\ \E j \in 1 .. c : m[j] = Mark(f) /\ j \in DOMAIN m
  <2>1. PICK f \in Frame : out = <<f>> /\ \E j \in 1 .. c : m[j] = Mark(f) /\ j \in DOMAIN m
    BY <1>16
  <2>2. PICK j \in 1 .. c : m[j] = Mark(f) /\ j \in DOMAIN m
    BY <2>1
  <2>3. \A k \in DOMAIN y : \A g \in Frame : y[k] = Mark(g) => f < g
    <3> SUFFICES ASSUME NEW k \in DOMAIN y, NEW g \in Frame, y[k] = Mark(g)
                 PROVE  f < g
      OBVIOUS
    <3>1. PICK i \in DOMAIN x : x[i] = Mark(g)
      BY <1>10
    <3>2. i + c \in DOMAIN m /\ m[i + c] = Mark(g)
      BY <1>9, <3>1
    <3>3. i \in Nat /\ i > 0
      BY <1>7, <3>1, SeqFacts DEF Bytes
    <3>4. j < i + c
      BY <1>3, <2>2, <3>3
    <3> QED
      BY <1>8, <2>2, <3>2, <3>4 DEF InOrder
  <2>4. \A i \in DOMAIN got : got[i] < f
    BY <1>13, <2>2
  <2> DEFINE n == Len(got)
  <2>5. /\ n \in Nat /\ DOMAIN got = 1 .. n /\ DOMAIN got' = 1 .. (n + 1)
        /\ \A i \in 1 .. n : got'[i] = got[i]
        /\ got'[n + 1] = f
    <3>1. got \in Seq(Frame) /\ <<f>> \in Seq(Frame) /\ Len(<<f>>) = 1 /\ <<f>>[1] = f
      BY DEF FramesInv, Types
    <3>2. /\ DOMAIN (got \o <<f>>) = 1 .. (Len(got) + Len(<<f>>))
          /\ \A i \in 1 .. Len(got) : (got \o <<f>>)[i] = got[i]
          /\ \A i \in 1 .. Len(<<f>>) : (got \o <<f>>)[Len(got) + i] = <<f>>[i]
      BY <3>1, Cat
    <3>3. Len(got) \in Nat /\ DOMAIN got = 1 .. Len(got)
      BY <3>1, SeqFacts
    <3> QED
      BY <2>1, <3>1, <3>2, <3>3
  <2> DEFINE new == got'
  <2>6. \A i \in DOMAIN new : (i \in DOMAIN got /\ new[i] = got[i]) \/ (i = n + 1 /\ new[i] = f)
    BY <2>5
  <2>7. \A i, k \in DOMAIN new : i < k => new[i] < new[k]
    <3> SUFFICES ASSUME NEW i \in DOMAIN new, NEW k \in DOMAIN new, i < k
                 PROVE  new[i] < new[k]
      OBVIOUS
    <3>1. i \in DOMAIN got /\ new[i] = got[i]
      BY <2>5, <2>6
    <3>2. CASE k \in DOMAIN got /\ new[k] = got[k]
      BY <3>1, <3>2 DEF FramesInv, FramesInOrder
    <3>3. CASE k = n + 1 /\ new[k] = f
      BY <2>4, <3>1, <3>3
    <3> QED
      BY <2>6, <3>2, <3>3
  <2>8. \A i \in DOMAIN new : \A k \in DOMAIN y : \A g \in Frame : y[k] = Mark(g) => new[i] < g
    BY <1>14, <2>3, <2>6
  <2>9. GotFirst' /\ FramesInOrder'
    BY <2>7, <2>8 DEF GotFirst, FramesInOrder, y, Frame, Mark
  <2> QED
    BY <1>12, <2>9 DEF FramesInv
<1> QED
  BY <1>11, <1>15, <1>16

LEMMA LeftoverKeeps ==
    ASSUME FramesInv, Leftover
    PROVE  FramesInv'
<1> DEFINE all    == received \o buf
           begun  == frameStart /\ received # <<>>
           r      == IF begun THEN all ELSE Aligned(all)
           starts == begun \/ (Len(all) > 4 /\ Index(r) = 0)
           whole  == starts /\ Len(r) >= 6 /\ Len(r) >= CutAt(r)
           v      == Take(r, CutAt(r))
           out    == IF IsHit(r) THEN hitResult(v) ELSE checkCfgRespRaw(v)
<1>1. \/ /\ ~whole
         /\ received' = IF ~starts /\ Len(r) > BufSize THEN Drop(r, Len(r) - 3) ELSE r
         /\ frameStart' = starts /\ buf' = <<>> /\ UNCHANGED <<wire, damaged, got, overrun>>
      \/ /\ whole
         /\ got' = got \o out
         /\ buf' = IF Len(Rest(r)) > BufSize THEN Take(Rest(r), BufSize) ELSE Rest(r)
         /\ overrun' = (overrun \/ Len(Rest(r)) > BufSize)
         /\ received' = <<>> /\ frameStart' = FALSE /\ UNCHANGED <<wire, damaged>>
  BY DEF Leftover
<1>2. r \in {all, Aligned(all)} /\ starts \in BOOLEAN /\ overrun \in BOOLEAN
  BY DEF FramesInv, Types
<1>3. whole => Len(r) >= 6 /\ Len(r) >= CutAt(r)
  OBVIOUS
<1>4. starts /\ ~whole => Len(r) < 6 \/ Len(r) < CutAt(r)
  <2>1. Len(r) \in Nat
    <3>1. all \in Bytes
      BY ComingFacts DEF FramesInv
    <3> HIDE DEF all
    <3>2. r \in Bytes
      BY <3>1, AlignedShifts
    <3> HIDE DEF r
    <3> QED
      BY <3>2, SeqFacts DEF Bytes
  <2>2. CutAt(r) \in Nat
    BY SizeAssumption DEF CutAt, RSP_LEN_CFG
  <2> HIDE DEF r, starts
  <2> QED
    BY <2>1, <2>2
<1>5. out = hitResult(v) \/ out = checkCfgRespRaw(v)
  OBVIOUS
<1>6. v = Take(r, CutAt(r)) /\ all = received \o buf
  OBVIOUS
<1> HIDE DEF all, r, starts, whole, out, v
<1>7. CASE ~whole
  <2>1. \/ ~starts
        \/ Len(r) < 6 \/ Len(r) < CutAt(r)
    BY <1>4, <1>7
  <2> QED
    BY <1>1, <1>2, <1>6, <1>7, <2>1, WaitKeeps
<1>8. CASE whole
  <2>1. overrun' \in BOOLEAN /\ wire' = wire
    BY <1>1, <1>2, <1>8
  <2>2. /\ got' = got \o out
        /\ buf' = IF Len(Rest(r)) > BufSize THEN Take(Rest(r), BufSize) ELSE Rest(r)
        /\ received' = <<>> /\ frameStart' = FALSE
    BY <1>1, <1>8
  <2>3. out = hitResult(Take(r, CutAt(r))) \/ out = checkCfgRespRaw(Take(r, CutAt(r)))
    BY <1>5, <1>6
  <2> QED
    BY <1>2, <1>3, <1>6, <1>8, <2>1, <2>2, <2>3, CutKeeps
<1> QED
  BY <1>7, <1>8

LEMMA InitFrames == Init => FramesInv
<1> SUFFICES ASSUME Init PROVE FramesInv
  OBVIOUS
<1>1. PICK lost : wire = Arriving(lost)
  BY DEF Init
<1>2. /\ received = <<>> /\ buf = <<>> /\ got = <<>> /\ frameStart = FALSE /\ overrun = FALSE
  BY DEF Init
<1>3. wire \in Bytes /\ InOrder(wire)
  BY <1>1, Arrives
<1>4. Coming = wire
  BY <1>2, <1>3, ConcatEmptySeq DEF Coming, Bytes
<1>5. <<>> \in Bytes /\ <<>> \in Seq(Frame) /\ Len(<<>>) <= BufSize /\ DOMAIN <<>> = {}
  BY EmptySeq, SizeAssumption DEF Bytes
<1>6. Types
  BY <1>2, <1>3, <1>5 DEF Types
<1>7. GotFirst /\ FramesInOrder
  BY <1>2, <1>5 DEF GotFirst, FramesInOrder
<1> QED
  BY <1>3, <1>4, <1>6, <1>7 DEF FramesInv

LEMMA NextFrames == FramesInv /\ [Next]_vars => FramesInv'
<1> SUFFICES ASSUME FramesInv, [Next]_vars PROVE FramesInv'
  OBVIOUS
<1>1. CASE Read
  BY <1>1, ReadKeeps
<1>2. CASE Leftover
  BY <1>2, LeftoverKeeps
<1>3. CASE UNCHANGED vars
  <2>1. Types' /\ got' = got /\ Coming' = Coming
    BY <1>3 DEF vars, FramesInv, Types, Coming, Bytes, Frame
  <2>2. ShiftedBy(Coming', Coming, 0)
    BY <2>1, ComingFacts, ShiftSame DEF FramesInv
  <2> QED
    BY <2>1, <2>2, Shifting
<1> QED
  BY <1>1, <1>2, <1>3 DEF Next

\* Every variable of asicRead has its type, and what it keeps of a frame is
\* never longer than one read: received does not grow, however many rounds of
\* leftover find no frame in it.
THEOREM TypeCorrect == Spec => []TypeOK
<1>1. FramesInv => TypeOK
  BY DEF FramesInv, Types, TypeOK, Bytes, Frame
<1> QED
  BY <1>1, InitFrames, NextFrames, PTL DEF Spec

\* However reads cut the stream and whatever bytes it has lost, asicRead's
\* repairs included, a frame is delivered at most once and frames in the
\* order they were sent.
THEOREM FramesStayInOrder == Spec => []FramesInOrder
<1>1. FramesInv => FramesInOrder
  BY DEF FramesInv
<1> QED
  BY <1>1, InitFrames, NextFrames, PTL DEF Spec

-----------------------------------------------------------------------------
(* A stream that has lost nothing.                                         *)

N == Len(Stream)

\* no byte was lost
Intact == \A f \in Frame : damaged[f] = {}

\* the first frames one after the other, for every number of them
Firsts == CHOOSE all : /\ all[0] = <<>>
                       /\ \A i \in 1 .. N : all[i] = all[i - 1] \o Stream[i]
                       /\ \A i \in 0 .. N : all[i] \in Bytes
                       /\ FlattenSeq(Stream) = all[N]

\* and what follows the first n
From(n) == Drop(Firsts[N], Len(Firsts[n]))

\* n frames were handed on; received has less than the next one
HandedOver(n) ==
    /\ Coming = From(n)
    /\ \A f \in 1 .. n : Delivered(f)
    /\ received # <<>> => n < N /\ Len(received) < Len(Stream[n + 1])

WholeInv ==
    /\ FramesInv /\ Intact
    /\ Len(buf) <= BufSize /\ ~overrun
    /\ \E n \in 0 .. N : HandedOver(n)

\* two cuts of the same bytes
LEMMA TwoCuts ==
    ASSUME NEW x \in Bytes, NEW w \in Bytes, NEW s \in Bytes, NEW t \in Bytes,
           x \o w = s \o t, Len(s) <= Len(x)
    PROVE  Take(x, Len(s)) = s /\ Drop(x, Len(s)) \o w = t
<1> DEFINE n == Len(s)
           a == Take(x, n)
           d == Drop(x, n)
<1>1. n \in 0 .. Len(x) /\ Len(x) \in Nat
  BY SeqFacts DEF Bytes
<1>2. /\ a \in Bytes /\ Len(a) = n /\ \A i \in 1 .. n : a[i] = x[i]
      /\ d \in Bytes /\ a \o d = x
  <2> HIDE DEF n
  <2> QED
    BY <1>1, CutBytes
<1> HIDE DEF a, d
<1>3. ASSUME NEW i \in 1 .. n
      PROVE  a[i] = s[i]
  <2>1. (x \o w)[i] = x[i]
    <3>1. i \in 1 .. Len(x)
      BY <1>1
    <3> QED
      BY <3>1, CatFirst
  <2>2. (s \o t)[i] = s[i]
    BY CatFirst
  <2> QED
    BY <1>2, <2>1, <2>2
<1>4. a = s
  BY <1>2, <1>3, SeqEqual DEF Bytes
<1>5. s \o (d \o w) = s \o t
  <2>1. (a \o d) \o w = a \o (d \o w)
    <3>1. a \in Bytes /\ d \in Bytes
      BY <1>2
    <3> QED
      BY <3>1, CatThrice, SMTT(20)
  <2>2. (a \o d) \o w = s \o t
    BY <1>2
  <2> QED
    BY <1>4, <2>1, <2>2
<1>6. d \o w \in Bytes
  BY <1>2, CatBytes
<1>7. d \o w = t
  <2> DEFINE v == d \o w
  <2>1. v \in Seq(Nat) /\ s \in Seq(Nat) /\ t \in Seq(Nat) /\ s \o v = s \o t
    BY <1>5, <1>6 DEF Bytes
  <2> HIDE DEF v
  <2>2. v = t
    BY <2>1, ConcatSimplifications
  <2> QED
    BY <2>2 DEF v
<1> QED
  BY <1>4, <1>7 DEF a, d

LEMMA FrameNumbers == N \in Nat /\ Frame = 1 .. N /\ Stream \in Seq(Bytes)
BY BytesAssumption, SeqFacts DEF Frame, N, Bytes

LEMMA FirstsFacts ==
    /\ Firsts[0] = <<>>
    /\ \A i \in 1 .. N : Firsts[i] = Firsts[i - 1] \o Stream[i]
    /\ \A i \in 0 .. N : Firsts[i] \in Bytes
    /\ FlattenSeq(Stream) = Firsts[N]
<1>1. \E all : /\ all[0] = <<>>
               /\ \A i \in 1 .. N : all[i] = all[i - 1] \o Stream[i]
               /\ \A i \in 0 .. N : all[i] \in Bytes
               /\ FlattenSeq(Stream) = all[N]
  BY BytesAssumption, Flattened DEF N, Bytes
<1> QED
  BY <1>1 DEF Firsts

\* the first frames begin all of them
LEMMA FirstsBegin ==
    ASSUME NEW n \in 0 .. N
    PROVE  From(n) \in Bytes /\ Firsts[n] \o From(n) = Firsts[N]
<1>0. N \in Nat
  BY FrameNumbers
<1> DEFINE Good(i) == \E t \in Bytes : Firsts[i] \o t = Firsts[N]
           T == {k \in 0 .. N : ~Good(N - k)}
<1>1. Good(N)
  <2>1. Firsts[N] \in Bytes /\ <<>> \in Bytes
    BY <1>0, FirstsFacts, EmptySeq DEF Bytes
  <2> QED
    BY <2>1, ConcatEmptySeq DEF Bytes
<1>2. ASSUME NEW i \in 1 .. N, Good(i)
      PROVE  Good(i - 1)
  <2>1. PICK t \in Bytes : Firsts[i] \o t = Firsts[N]
    BY <1>2
  <2>2. Firsts[i] = Firsts[i - 1] \o Stream[i] /\ Firsts[i - 1] \in Bytes /\ Stream[i] \in Bytes
    <3>1. i - 1 \in 0 .. N /\ i \in Frame
      BY FrameNumbers
    <3> QED
      BY <3>1, FirstsFacts, FrameFacts
  <2>3. Firsts[i - 1] \o (Stream[i] \o t) = Firsts[N] /\ Stream[i] \o t \in Bytes
    <3> DEFINE s == Firsts[i - 1]
               b == Stream[i]
    <3>1. s \in Bytes /\ b \in Bytes /\ (s \o b) \o t = Firsts[N]
      BY <2>1, <2>2
    <3> HIDE DEF s, b
    <3>2. b \o t \in Bytes
      BY <3>1, CatBytes
    <3>3. s \o (b \o t) = (s \o b) \o t
      BY <3>1, CatThrice
    <3> QED
      BY <3>1, <3>2, <3>3 DEF s, b
  <2> QED
    BY <2>3
<1>3. Good(n)
  <2> HIDE DEF Good
  <2>1. CASE T = {}
    <3>1. N - n \in 0 .. N /\ N - (N - n) = n
      BY <1>0
    <3> QED
      BY <2>1, <3>1
  <2>2. CASE T # {}
    <3>1. PICK k \in T : \A m \in Nat : m < k => m \notin T
      <4>1. T \in SUBSET Nat
        BY <1>0
      <4> HIDE DEF T
      <4> QED
        BY <2>2, <4>1, LeastNumber
    <3>2. k # 0
      <4>1. N - 0 = N
        BY <1>0
      <4> QED
        BY <1>1, <3>1, <4>1
    <3>3. k - 1 \in 0 .. N /\ k - 1 < k /\ k - 1 \in Nat /\ N - (k - 1) \in 1 .. N
          /\ (N - (k - 1)) - 1 = N - k
      BY <1>0, <3>1, <3>2
    <3>4. Good(N - (k - 1))
      BY <3>1, <3>3
    <3>5. Good((N - (k - 1)) - 1)
      BY <1>2, <3>3, <3>4
    <3> QED
      BY <3>1, <3>3, <3>5
  <2> QED
    BY <2>1, <2>2
<1>4. PICK t \in Bytes : Firsts[n] \o t = Firsts[N]
  BY <1>3
<1> DEFINE s == Firsts[n]
           x == Firsts[N]
<1>5. s \in Bytes /\ x \in Bytes /\ <<>> \in Bytes /\ x \o <<>> = s \o t
  <2>1. s \in Bytes /\ x \in Bytes
    BY <1>0, FirstsFacts
  <2>2. <<>> \in Bytes
    BY EmptySeq DEF Bytes
  <2> HIDE DEF s, x
  <2>3. x \o <<>> = x
    BY <2>1, ConcatEmptySeq DEF Bytes
  <2> QED
    BY <1>4, <2>1, <2>2, <2>3 DEF s, x
<1>6. Len(s) <= Len(x)
  BY <1>4, <1>5, CatBytes, SeqFacts DEF Bytes
<1> HIDE DEF s, x
<1>7. Drop(x, Len(s)) \o <<>> = t
  BY <1>5, <1>6, TwoCuts
<1>8. Drop(x, Len(s)) = t
  <2>1. Len(s) \in 0 .. Len(x)
    BY <1>5, <1>6, SeqFacts DEF Bytes
  <2> DEFINE d == Drop(x, Len(s))
  <2>2. d \in Bytes
    BY <1>5, <2>1, CutBytes
  <2> HIDE DEF d
  <2>3. d \o <<>> = d
    BY <2>2, ConcatEmptySeq DEF Bytes
  <2> QED
    BY <1>7, <2>3 DEF d
<1> QED
  BY <1>4, <1>8 DEF From, s, x

\* frame by frame
LEMMA FromFacts ==
    /\ From(0) = FlattenSeq(Stream) /\ From(N) = <<>>
    /\ \A n \in 0 .. N : From(n) \in Bytes
    /\ \A n \in 1 .. N : From(n - 1) = Stream[n] \o From(n)
<1>0. N \in Nat
  BY FrameNumbers
<1>1. \A n \in 0 .. N : From(n) \in Bytes /\ Firsts[n] \o From(n) = Firsts[N]
                        /\ Firsts[n] \in Bytes
  BY FirstsBegin, FirstsFacts
<1>2. From(0) = FlattenSeq(Stream)
  <2>1. <<>> \o From(0) = Firsts[N] /\ From(0) \in Bytes
    <3>1. 0 \in 0 .. N
      BY <1>0
    <3>2. Firsts[0] \o From(0) = Firsts[N] /\ From(0) \in Bytes
      BY <1>1, <3>1
    <3> QED
      BY <3>2, FirstsFacts
  <2>2. <<>> \o From(0) = From(0)
    BY <2>1, ConcatEmptySeq DEF Bytes
  <2> QED
    BY <2>1, <2>2, FirstsFacts
<1>3. From(N) = <<>>
  <2> DEFINE s == Firsts[N]
             t == From(N)
  <2>1. s \in Seq(Nat) /\ t \in Seq(Nat) /\ s \o t = s
    BY <1>0, <1>1 DEF Bytes
  <2> HIDE DEF s, t
  <2>2. t = <<>>
    BY <2>1, ConcatEqualIffEmpty
  <2> QED
    BY <2>2 DEF t
<1>4. ASSUME NEW n \in 1 .. N
      PROVE  From(n - 1) = Stream[n] \o From(n)
  <2> DEFINE s == Firsts[n - 1]
             v == From(n - 1)
             w == Stream[n] \o From(n)
  <2>1. n - 1 \in 0 .. N /\ n \in 0 .. N /\ n \in Frame
    BY <1>0, FrameNumbers
  <2>2. s \in Bytes /\ v \in Bytes /\ s \o v = Firsts[N]
    BY <1>1, <2>1
  <2>3. Stream[n] \in Bytes /\ From(n) \in Bytes /\ Firsts[n] = s \o Stream[n]
        /\ Firsts[n] \o From(n) = Firsts[N]
    BY <1>1, <2>1, FirstsFacts, FrameFacts
  <2>4. w \in Bytes /\ s \o w = Firsts[N]
    <3> DEFINE b == Stream[n]
               t == From(n)
    <3>1. s \in Bytes /\ b \in Bytes /\ t \in Bytes /\ (s \o b) \o t = Firsts[N]
      BY <2>2, <2>3
    <3> HIDE DEF s, b, t
    <3>2. b \o t \in Bytes
      BY <3>1, CatBytes
    <3>3. s \o (b \o t) = (s \o b) \o t
      BY <3>1, CatThrice
    <3> QED
      BY <3>1, <3>2, <3>3 DEF b, t
  <2> HIDE DEF s, v, w
  <2>5. v = w
    <3>1. s \in Seq(Nat) /\ v \in Seq(Nat) /\ w \in Seq(Nat) /\ s \o v = s \o w
      BY <2>2, <2>4 DEF Bytes
    <3> QED
      BY <3>1, ConcatSimplifications
  <2> QED
    BY <2>5 DEF v, w
<1> QED
  BY <1>1, <1>2, <1>3, <1>4

\* a frame of which nothing is lost arrives as it is
LEMMA LeftWhole ==
    ASSUME NEW lost, NEW f \in Frame, \A i \in DOMAIN Stream[f] : <<f, i>> \notin lost
    PROVE  Left(lost, f) = Stream[f]
<1> DEFINE s == Stream[f]
           n == Len(s)
           seqs == [i \in DOMAIN s |-> <<s[i]>>]
<1>1. s \in Seq(Nat) /\ n \in Nat /\ DOMAIN s = 1 .. n /\ \A i \in 1 .. n : s[i] \in Nat
  <2>1. s \in Seq(Nat)
    BY FrameFacts DEF Bytes
  <2> QED
    BY <2>1, SeqFacts
<1>2. Left(lost, f) = FlattenSeq(seqs)
  <2>1. [i \in DOMAIN s |-> IF <<f, i>> \in lost THEN <<>> ELSE <<s[i]>>] = seqs
    OBVIOUS
  <2> QED
    BY <2>1 DEF Left
<1> HIDE DEF s, n
<1>3. /\ seqs \in Seq(Seq(Nat)) /\ Len(seqs) = n
      /\ \A i \in 1 .. n : seqs[i] = <<s[i]>>
  BY <1>1
<1> HIDE DEF seqs
<1>4. PICK all : /\ all[0] = <<>>
                 /\ \A i \in 1 .. n : all[i] = all[i - 1] \o seqs[i]
                 /\ \A i \in 0 .. n : all[i] \in Seq(Nat)
                 /\ FlattenSeq(seqs) = all[n]
  BY <1>3, Flattened
<1> DEFINE Good(i) == Len(all[i]) = i /\ \A j \in 1 .. i : all[i][j] = s[j]
           T == {i \in 0 .. n : ~Good(i)}
<1>5. ASSUME NEW i \in 1 .. n, Good(i - 1)
      PROVE  Good(i)
  <2> DEFINE old == all[i - 1]
             b == s[i]
             new == all[i]
  <2>1. old \in Bytes /\ <<b>> \in Bytes /\ Len(<<b>>) = 1 /\ <<b>>[1] = b /\ new = old \o <<b>>
    <3>1. i - 1 \in 0 .. n
      BY <1>1
    <3>2. old \in Seq(Nat)
      BY <1>4, <3>1
    <3>3. new = old \o <<b>>
      BY <1>3, <1>4
    <3>4. b \in Nat
      BY <1>1
    <3> HIDE DEF old, new, b
    <3> QED
      BY <3>2, <3>3, <3>4 DEF Bytes
  <2>2. Len(old) = i - 1 /\ \A j \in 1 .. i - 1 : old[j] = s[j]
    BY <1>5
  <2> HIDE DEF old, new, b
  <2>3. /\ Len(new) = Len(old) + Len(<<b>>)
        /\ \A j \in 1 .. Len(old) : new[j] = old[j]
        /\ \A j \in 1 .. Len(<<b>>) : new[Len(old) + j] = <<b>>[j]
    BY <2>1, CatBytes
  <2>4. Len(new) = i /\ new[i] = b
    <3>1. 1 \in 1 .. Len(<<b>>) /\ (i - 1) + 1 = i
      BY <1>1, <2>1
    <3> QED
      BY <1>1, <2>1, <2>2, <2>3, <3>1
  <2>5. ASSUME NEW j \in 1 .. i
        PROVE  new[j] = s[j]
    <3>1. CASE j = i
      BY <2>4, <3>1 DEF b
    <3>2. CASE j # i
      <4>1. j \in 1 .. i - 1
        BY <1>1, <3>2
      <4> QED
        BY <2>2, <2>3, <4>1
    <3> QED
      BY <3>1, <3>2
  <2> QED
    BY <2>4, <2>5 DEF new
<1>6. Good(0)
  <2>1. Len(all[0]) = 0
    BY <1>4
  <2> QED
    BY <2>1
<1>7. Good(n)
  <2> HIDE DEF Good
  <2>1. CASE T = {}
    BY <1>1, <2>1
  <2>2. CASE T # {}
    <3>1. PICK i \in T : \A k \in Nat : k < i => k \notin T
      <4>1. T \in SUBSET Nat
        BY <1>1
      <4> HIDE DEF T
      <4> QED
        BY <2>2, <4>1, LeastNumber
    <3>2. i \in 1 .. n /\ i - 1 \in 0 .. n /\ i - 1 < i /\ i - 1 \in Nat
      BY <1>1, <1>6, <3>1
    <3>3. Good(i - 1)
      BY <3>1, <3>2
    <3> QED
      BY <1>5, <3>1, <3>2, <3>3
  <2> QED
    BY <2>1, <2>2
<1>8. all[n] = s
  <2> DEFINE x == all[n]
  <2>1. x \in Seq(Nat) /\ Len(x) = Len(s) /\ \A j \in 1 .. Len(x) : x[j] = s[j]
    BY <1>1, <1>4, <1>7 DEF n
  <2> HIDE DEF x
  <2>2. x = s
    BY <1>1, <2>1, SeqEqual
  <2> QED
    BY <2>2 DEF x
<1> QED
  BY <1>2, <1>4, <1>8 DEF s

\* and so does the stream
LEMMA ArrivesWhole ==
    ASSUME NEW lost, \A f \in Frame : \A i \in DOMAIN Stream[f] : <<f, i>> \notin lost
    PROVE  Arriving(lost) = From(0)
<1>1. \A f \in DOMAIN Stream : Left(lost, f) = Stream[f]
  BY LeftWhole DEF Frame
<1>2. [f \in DOMAIN Stream |-> Left(lost, f)] = [f \in DOMAIN Stream |-> Stream[f]]
  BY <1>1
<1>3. [f \in DOMAIN Stream |-> Stream[f]] = Stream
  BY BytesAssumption
<1> QED
  BY <1>2, <1>3, FromFacts DEF Arriving

\* the magic of a frame, and of what begins with one
LEMMA FrameMagic ==
    ASSUME NEW f \in Frame
    PROVE  \A i \in 1 .. 4 : Stream[f][i] = resp_magic[i]
<1> DEFINE s == Stream[f]
<1>1. s \in Bytes /\ 4 \in 0 .. Len(s)
  BY FrameFacts DEF RSP_LEN_CFG
<1>2. Take(s, 4) = resp_magic
  BY StreamAssumption DEF Frame, Take
<1> HIDE DEF s
<1>3. \A i \in 1 .. 4 : Take(s, 4)[i] = s[i]
  BY <1>1, CutBytes
<1> QED
  BY <1>2, <1>3 DEF s

LEMMA AtMagic ==
    ASSUME NEW x \in Bytes, Len(x) > 4, \A i \in 1 .. 4 : x[i] = resp_magic[i]
    PROVE  Index(x) = 0
<1> DEFINE a == Take(x, 4)
           b == resp_magic
<1>0. Len(x) \in Nat
  BY SeqFacts DEF Bytes
<1>1. 4 \in 0 .. Len(x) /\ 0 \in 0 .. (Len(x) - 4)
  BY <1>0
<1>2. a \in Seq(Nat) /\ Len(a) = 4 /\ \A i \in 1 .. 4 : a[i] = x[i]
  BY <1>1, CutBytes DEF Bytes
<1>3. b \in Seq(Nat) /\ Len(b) = 4 /\ \A i \in 1 .. 4 : x[i] = b[i]
  BY NoMark DEF Bytes
<1> HIDE DEF a, b
<1>4. \A i \in 1 .. 4 : a[i] = b[i]
  BY <1>2, <1>3
<1>5. a = b
  BY <1>2, <1>3, <1>4, SeqEqual
<1>6. SubSeq(x, 1, 4) = resp_magic
  BY <1>5 DEF a, b, Take
<1>7. 0 + 1 = 1 /\ 0 + 4 = 4
  OBVIOUS
<1>8. SubSeq(x, 0 + 1, 0 + 4) = resp_magic
  BY <1>6, <1>7
<1>9. Index(x) # -1 /\ Index(x) <= 0
  <2>1. CASE Index(x) = -1 /\ \A i \in 0 .. (Len(x) - 4) : SubSeq(x, i + 1, i + 4) # resp_magic
    BY <1>1, <1>8, <2>1
  <2>2. CASE /\ Index(x) \in 0 .. (Len(x) - 4)
             /\ \A i \in 0 .. (Len(x) - 4) : SubSeq(x, i + 1, i + 4) = resp_magic => Index(x) <= i
    <3>1. Index(x) <= 0
      BY <1>1, <1>8, <2>2
    <3> QED
      BY <1>0, <2>2, <3>1
  <2> QED
    BY <2>1, <2>2, IndexFacts
<1> QED
  BY <1>0, <1>9, IndexFacts

\* a whole frame is recognised by its first bytes, whatever was read after it
LEMMA Recognised ==
    ASSUME NEW n \in 1 .. N, NEW x \in Bytes, NEW w \in Bytes, x \o w = From(n - 1)
    PROVE  /\ Aligned(x) = x
           /\ Len(x) > 4 => Index(x) = 0
           /\ Len(x) >= 6 => CutAt(x) = Len(Stream[n])
           /\ Len(x) >= Len(Stream[n]) =>
                 Take(x, Len(Stream[n])) = Stream[n] /\ Drop(x, Len(Stream[n])) \o w = From(n)
<1> DEFINE s == Stream[n]
           t == From(n)
<1>0. N \in Nat /\ n \in Frame /\ n \in 0 .. N
  BY FrameNumbers
<1>1. /\ s \in Bytes /\ t \in Bytes /\ x \o w = s \o t
      /\ Len(s) \in Nat /\ Len(s) >= 16 /\ Len(x) \in Nat
      /\ Len(s) = IF IsHit(s) THEN RSP_LEN_HIT ELSE 16
  BY <1>0, FromFacts, FrameFacts, SeqFacts DEF RSP_LEN_CFG, Bytes
<1>2. \A i \in 1 .. Len(x) : i <= Len(s) => x[i] = s[i]
  <2> HIDE DEF s, t
  <2> SUFFICES ASSUME NEW i \in 1 .. Len(x), i <= Len(s) PROVE x[i] = s[i]
    OBVIOUS
  <2>1. (x \o w)[i] = x[i]
    BY CatFirst
  <2>2. (s \o t)[i] = s[i]
    <3>1. i \in 1 .. Len(s)
      BY <1>1
    <3>2. s \in Bytes /\ t \in Bytes
      BY <1>1
    <3> QED
      BY <3>1, <3>2, CatFirst
  <2> QED
    BY <1>1, <2>1, <2>2
<1>3. \A i \in 1 .. 4 : s[i] = resp_magic[i]
  BY <1>0, FrameMagic
<1>4. Len(x) > 4 => Index(x) = 0
  <2> HIDE DEF s, t
  <2> SUFFICES ASSUME Len(x) > 4 PROVE Index(x) = 0
    OBVIOUS
  <2>1. \A i \in 1 .. 4 : x[i] = s[i]
    BY <1>1, <1>2
  <2>2. \A i \in 1 .. 4 : x[i] = resp_magic[i]
    BY <1>3, <2>1
  <2> QED
    BY <2>2, AtMagic
<1>5. Aligned(x) = x
  <2>1. Index(x) = 0 => ~LostMagicByte(x)
    BY DEF LostMagicByte, RSP_LEN_CFG
  <2> QED
    BY <1>1, <1>4, <2>1 DEF Aligned
<1>6. Len(x) >= 6 => CutAt(x) = Len(s)
  <2> SUFFICES ASSUME Len(x) >= 6 PROVE CutAt(x) = Len(s)
    OBVIOUS
  <2>1. x[6] = s[6]
    BY <1>1, <1>2
  <2>2. IsHit(x) <=> IsHit(s)
    BY <2>1 DEF IsHit
  <2>3. CASE IsHit(s)
    BY <1>1, <2>2, <2>3 DEF CutAt
  <2>4. CASE ~IsHit(s)
    <3>1. Len(s) = 16
      BY <1>1, <2>4
    <3>2. Len(x) > 16 => x[17] # resp_magic[2]
      <4> SUFFICES ASSUME Len(x) > 16 PROVE x[17] # resp_magic[2]
        OBVIOUS
      <4> HIDE DEF s, t
      <4>1. (x \o w)[17] = x[17]
        <5>1. 17 \in 1 .. Len(x)
          BY <1>1
        <5> QED
          BY <5>1, CatBytes
      <4>2. Len(t) > 0 /\ Len(t) \in Nat
        <5>1. Len(x \o w) = Len(x) + Len(w) /\ Len(s \o t) = Len(s) + Len(t)
          BY <1>1, CatBytes
        <5>2. Len(w) \in Nat /\ Len(t) \in Nat
          BY <1>1, SeqFacts DEF Bytes
        <5>3. Len(x \o w) = Len(s \o t)
          BY <1>1
        <5>4. Len(x) + Len(w) = 16 + Len(t)
          BY <3>1, <5>1, <5>3
        <5>5. Len(x) \in Nat
          BY <1>1
        <5> QED
          BY <5>2, <5>4, <5>5
      <4>3. (s \o t)[17] = t[1]
        <5>1. 1 \in 1 .. Len(t) /\ Len(s) + 1 = 17
          BY <3>1, <4>2
        <5>2. (s \o t)[Len(s) + 1] = t[1]
          <6>1. s \in Bytes /\ t \in Bytes /\ 1 \in 1 .. Len(t)
            BY <1>1, <5>1
          <6> QED
            BY <6>1, CatSecond
        <5> QED
          BY <5>1, <5>2
      <4>4. n # N
        <5>1. Len(<<>>) = 0
          OBVIOUS
        <5> QED
          BY <4>2, <5>1, FromFacts DEF t
      <4>5. n + 1 \in 1 .. N /\ (n + 1) - 1 = n /\ n + 1 \in Frame /\ n + 1 \in 0 .. N
        BY <1>0, <4>4, FrameNumbers
      <4> DEFINE z == Stream[n + 1]
                 y == From(n + 1)
      <4>6. t = z \o y /\ z \in Bytes /\ y \in Bytes /\ Len(z) >= 16 /\ Len(z) \in Nat
        <5>1. z \in Bytes /\ Len(z) >= 16 /\ Len(z) \in Nat
          BY <4>5, FrameFacts DEF RSP_LEN_CFG
        <5>2. From((n + 1) - 1) = z \o y /\ y \in Bytes
          BY <4>5, FromFacts
        <5> QED
          BY <4>5, <5>1, <5>2 DEF t
      <4>7. z[1] = resp_magic[1]
        BY <4>5, FrameMagic
      <4> HIDE DEF z, y
      <4>8. t[1] = z[1]
        <5>1. 1 \in 1 .. Len(z)
          BY <4>6
        <5> QED
          BY <4>6, <5>1, CatBytes
      <4>9. resp_magic[1] # resp_magic[2]
        BY DEF resp_magic
      <4> QED
        BY <1>1, <4>1, <4>3, <4>7, <4>8, <4>9
    <3> QED
      BY <2>2, <2>4, <3>1, <3>2 DEF CutAt, RSP_LEN_CFG
  <2> QED
    BY <2>3, <2>4
<1>7. Len(x) >= Len(s) => Take(x, Len(s)) = s /\ Drop(x, Len(s)) \o w = t
  <2> HIDE DEF s, t
  <2> QED
    BY <1>1, TwoCuts
<1> QED
  BY <1>4, <1>5, <1>6, <1>7

\* and handed on, unless it is a hit for job 0
LEMMA WholeHandedOn ==
    ASSUME NEW f \in Frame, NEW v, v = Stream[f]
    PROVE  (IF IsHit(v) THEN hitResult(v) ELSE checkCfgRespRaw(v))
             = IF Ignored(f) THEN <<>> ELSE <<f>>
<1>1. Genuine(v) = <<f>>
  <2> DEFINE sent == {g \in DOMAIN Stream : Stream[g] = v}
  <2>1. f \in sent /\ \A g \in sent : g = f
    BY StreamAssumption DEF Frame
  <2>2. sent # {} /\ (CHOOSE g \in sent : TRUE) = f
    <3> HIDE DEF sent
    <3> QED
      BY <2>1
  <2> QED
    BY <2>2 DEF Genuine
<1>2. CASE IsHit(v)
  BY <1>1, <1>2 DEF hitResult, Ignored
<1>3. CASE ~IsHit(v)
  <2>1. Len(v) = 16
    BY <1>3, FrameFacts DEF RSP_LEN_CFG
  <2>2. Mended(v) = v
    BY <2>1 DEF Mended, RSP_LEN_CFG
  <2> QED
    BY <1>1, <1>3, <2>2 DEF checkCfgRespRaw, Ignored
<1> QED
  BY <1>2, <1>3

\* nothing of what was sent is missing, and nothing was dropped
LEMMA WholeIsLocal == WholeInv => LossIsLocal
<1> SUFFICES ASSUME WholeInv, wire = <<>>, buf = <<>> PROVE
        /\ Cardinality({f \in DOMAIN Stream : ~Delivered(f)})
              <= 2 * Cardinality(UNION {{f} \X damaged[f] : f \in DOMAIN Stream})
        /\ \A f \in DOMAIN Stream : Delivered(f)
  BY DEF LossIsLocal
<1>1. PICK n \in 0 .. N : HandedOver(n)
  BY DEF WholeInv
<1>2. N \in Nat /\ Frame = 1 .. N
  BY FrameNumbers
<1>3. Coming = received /\ received \in Bytes
  <2>1. received \in Bytes
    BY DEF WholeInv, FramesInv, Types
  <2>2. received \o <<>> = received
    BY <2>1, ConcatEmptySeq DEF Bytes
  <2> QED
    BY <2>1, <2>2 DEF Coming
<1>4. n = N
  <2> SUFFICES ASSUME n # N PROVE FALSE
    OBVIOUS
  <2>1. n + 1 \in 1 .. N /\ (n + 1) - 1 = n /\ n + 1 \in Frame /\ n + 1 \in 0 .. N
    BY <1>2
  <2> DEFINE s == Stream[n + 1]
             t == From(n + 1)
  <2>2. received = s \o t /\ s \in Bytes /\ t \in Bytes /\ Len(s) \in Nat /\ Len(s) >= 16
    <3>1. From((n + 1) - 1) = s \o t /\ t \in Bytes
      BY <2>1, FromFacts
    <3>2. s \in Bytes /\ Len(s) \in Nat /\ Len(s) >= 16
      BY <2>1, FrameFacts DEF RSP_LEN_CFG
    <3>3. received = From(n)
      BY <1>1, <1>3 DEF HandedOver
    <3> QED
      BY <2>1, <3>1, <3>2, <3>3
  <2>3. received # <<>> => Len(received) < Len(s)
    BY <1>1 DEF HandedOver
  <2> HIDE DEF s, t
  <2>4. Len(received) = Len(s) + Len(t) /\ Len(t) \in Nat
    BY <2>2, CatBytes, SeqFacts DEF Bytes
  <2>5. Len(<<>>) = 0
    OBVIOUS
  <2> QED
    BY <2>2, <2>3, <2>4, <2>5
<1>5. \A f \in DOMAIN Stream : Delivered(f)
  BY <1>1, <1>2, <1>4 DEF HandedOver, Frame
<1>6. {f \in DOMAIN Stream : ~Delivered(f)} = {}
  BY <1>5
<1>7. UNION {{f} \X damaged[f] : f \in DOMAIN Stream} = {}
  BY DEF WholeInv, Intact, Frame
<1>8. Cardinality({}) = 0
  BY FS_EmptySet
<1>9. 0 <= 2 * 0
  OBVIOUS
<1> QED
  BY <1>5, <1>6, <1>7, <1>8, <1>9

LEMMA InitWhole == Init /\ Intact => WholeInv
<1> SUFFICES ASSUME Init, Intact PROVE WholeInv
  OBVIOUS
<1>1. PICK choice \in [1 .. MaxLost -> Losable \cup {<<0, 0>>}] :
        /\ wire = Arriving(ToSet(choice))
        /\ damaged = [f \in DOMAIN Stream |-> {b[2] : b \in {x \in ToSet(choice) : x[1] = f}}]
  BY DEF Init
<1>2. /\ received = <<>> /\ buf = <<>> /\ got = <<>> /\ ~overrun
  BY DEF Init
<1>3. ASSUME NEW f \in Frame, NEW i \in DOMAIN Stream[f]
      PROVE  <<f, i>> \notin ToSet(choice)
  <2> SUFFICES ASSUME <<f, i>> \in ToSet(choice) PROVE FALSE
    OBVIOUS
  <2>1. <<f, i>>[1] = f /\ <<f, i>>[2] = i
    OBVIOUS
  <2>2. i \in damaged[f]
    BY <1>1, <2>1 DEF Frame
  <2> QED
    BY <2>2 DEF Intact
<1>4. wire = From(0) /\ wire \in Bytes
  <2>1. N \in Nat
    BY FrameNumbers
  <2> QED
    BY <1>1, <1>3, <2>1, ArrivesWhole, FromFacts
<1>5. Coming = From(0)
  BY <1>2, <1>4, ConcatEmptySeq DEF Coming, Bytes
<1>6. HandedOver(0) /\ 0 \in 0 .. N
  BY <1>2, <1>5, FrameNumbers DEF HandedOver
<1>7. Len(buf) <= BufSize
  BY <1>2, SizeAssumption
<1> QED
  BY <1>2, <1>6, <1>7, InitFrames DEF WholeInv

LEMMA ReadWhole ==
    ASSUME WholeInv, Read
    PROVE  WholeInv'
<1>1. FramesInv'
  BY ReadKeeps DEF WholeInv
<1>2. PICK n \in 1 .. BufSize : n <= Len(wire) /\ buf' = Take(wire, n) /\ wire' = Drop(wire, n)
  BY DEF Read
<1>3. n \in 0 .. Len(wire) /\ wire \in Bytes /\ received \in Bytes
  BY <1>2, SizeAssumption, SeqFacts DEF WholeInv, FramesInv, Types, Bytes
<1>4. buf' \in Bytes /\ wire' \in Bytes /\ buf' \o wire' = wire /\ Len(buf') = n
  BY <1>2, <1>3, Cut DEF Bytes
<1>5. UNCHANGED <<damaged, received, frameStart, got, overrun>> /\ buf = <<>>
  BY DEF Read
<1>6. Coming' = Coming
  <2>1. received \o buf = received
    BY <1>3, <1>5, ConcatEmptySeq DEF Bytes
  <2>2. Coming' = (received \o buf') \o wire'
    BY <1>5 DEF Coming
  <2>3. (received \o buf') \o wire' = received \o (buf' \o wire')
    BY <1>3, <1>4, CatThrice
  <2> QED
    BY <1>4, <2>1, <2>2, <2>3 DEF Coming
<1>7. PICK m \in 0 .. N : HandedOver(m)
  BY DEF WholeInv
<1>8. HandedOver(m)'
  BY <1>5, <1>6, <1>7 DEF HandedOver, Delivered, Ignored, From, Firsts, N
<1>9. Len(buf') <= BufSize /\ ~overrun' /\ Intact'
  BY <1>2, <1>4, <1>5, SizeAssumption DEF WholeInv, Intact, Frame
<1> QED
  BY <1>1, <1>7, <1>8, <1>9 DEF WholeInv, N

LEMMA SameFrames ==
    ASSUME UNCHANGED damaged
    PROVE  /\ Intact => Intact'
           /\ N' = N /\ Stream' = Stream
           /\ \A n \in 0 .. N : From(n)' = From(n)
BY DEF Intact, Frame, N, From, Firsts

LEMMA CatSet ==
    ASSUME NEW S, NEW s \in Seq(S), NEW t \in Seq(S)
    PROVE  ToSet(s \o t) = ToSet(s) \cup ToSet(t)
<1> DEFINE c == s \o t
<1>1. /\ DOMAIN c = 1 .. (Len(s) + Len(t))
      /\ \A i \in 1 .. Len(s) : c[i] = s[i]
      /\ \A i \in 1 .. Len(t) : c[Len(s) + i] = t[i]
  BY Cat
<1>2. /\ Len(s) \in Nat /\ DOMAIN s = 1 .. Len(s)
      /\ Len(t) \in Nat /\ DOMAIN t = 1 .. Len(t)
  BY SeqFacts
<1> HIDE DEF c
<1>3. \A i \in DOMAIN c :
         \/ i \in DOMAIN s
         \/ i - Len(s) \in DOMAIN t /\ i = Len(s) + (i - Len(s))
  BY <1>1, <1>2
<1>4. (\A i \in DOMAIN s : i \in DOMAIN c) /\ (\A i \in DOMAIN t : Len(s) + i \in DOMAIN c)
  BY <1>1, <1>2
<1>5. ToSet(c) \subseteq ToSet(s) \cup ToSet(t)
  BY <1>1, <1>2, <1>3 DEF ToSet
<1>6. ToSet(s) \cup ToSet(t) \subseteq ToSet(c)
  BY <1>1, <1>2, <1>4 DEF ToSet
<1> QED
  BY <1>5, <1>6 DEF c

LEMMA LeftoverWhole ==
    ASSUME WholeInv, Leftover
    PROVE  WholeInv'
<1> DEFINE all    == received \o buf
           begun  == frameStart /\ received # <<>>
           r      == IF begun THEN all ELSE Aligned(all)
           starts == begun \/ (Len(all) > 4 /\ Index(r) = 0)
           whole  == starts /\ Len(r) >= 6 /\ Len(r) >= CutAt(r)
           out    == IF IsHit(r) THEN hitResult(Take(r, CutAt(r)))
                                 ELSE checkCfgRespRaw(Take(r, CutAt(r)))
<1>1. FramesInv'
  BY LeftoverKeeps DEF WholeInv
<1>2. PICK n \in 0 .. N : HandedOver(n)
  BY DEF WholeInv
<1>3. \/ /\ ~whole
         /\ received' = IF ~starts /\ Len(r) > BufSize THEN Drop(r, Len(r) - 3) ELSE r
         /\ buf' = <<>>
         /\ UNCHANGED <<got, overrun>>
      \/ /\ whole
         /\ got' = got \o out
         /\ buf' = IF Len(Rest(r)) > BufSize THEN Take(Rest(r), BufSize) ELSE Rest(r)
         /\ overrun' = (overrun \/ Len(Rest(r)) > BufSize)
         /\ received' = <<>>
  BY DEF Leftover
<1>4. buf # <<>> /\ wire' = wire /\ damaged' = damaged
  BY DEF Leftover
<1>5. received \in Bytes /\ buf \in Bytes /\ wire \in Bytes /\ got \in Seq(Frame)
  BY DEF WholeInv, FramesInv, Types
<1>6. Len(buf) <= BufSize /\ ~overrun /\ Intact
  BY DEF WholeInv
<1>7. /\ all \in Bytes /\ Len(all) = Len(received) + Len(buf)
      /\ Len(received) \in Nat /\ Len(buf) \in Nat /\ Len(buf) > 0
  <2>1. Len(buf) # 0
    BY <1>4, <1>5, EmptySeq DEF Bytes
  <2> QED
    BY <1>5, <2>1, CatBytes, SeqFacts DEF Bytes
<1>8. all \o wire = From(n)
  BY <1>2 DEF HandedOver, Coming
<1>9. n # N
  <2> SUFFICES ASSUME n = N PROVE FALSE
    OBVIOUS
  <2> HIDE DEF all
  <2>1. all \o wire = <<>> /\ Len(<<>>) = 0
    BY <1>8, FromFacts
  <2>2. Len(all \o wire) = Len(all) + Len(wire) /\ Len(wire) \in Nat
    BY <1>5, <1>7, CatBytes, SeqFacts DEF Bytes
  <2>3. Len(all) + Len(wire) = 0
    BY <2>1, <2>2
  <2> QED
    BY <1>7, <2>2, <2>3
<1>10. n + 1 \in 1 .. N /\ (n + 1) - 1 = n /\ n + 1 \in Frame /\ N \in Nat
  BY <1>9, FrameNumbers
<1> DEFINE s == Stream[n + 1]
<1>11. s \in Bytes /\ Len(s) \in Nat /\ Len(s) >= 16
       /\ (received # <<>> => Len(received) < Len(s))
  BY <1>2, <1>10, FrameFacts DEF RSP_LEN_CFG, HandedOver
<1>12. /\ Aligned(all) = all
       /\ Len(all) > 4 => Index(all) = 0
       /\ Len(all) >= 6 => CutAt(all) = Len(s)
       /\ Len(all) >= Len(s) =>
             Take(all, Len(s)) = s /\ Drop(all, Len(s)) \o wire = From(n + 1)
  <2> HIDE DEF all
  <2>1. all \o wire = From((n + 1) - 1)
    BY <1>8, <1>10
  <2> QED
    BY <1>5, <1>7, <1>10, <2>1, Recognised
<1>13. r = all
  BY <1>12
<1>14. 16 <= BufSize /\ BufSize \in Nat
  BY SizeAssumption DEF RSP_LEN_CFG
<1>15. ~starts => Len(all) <= 4
  BY <1>7, <1>12, <1>13
<1> HIDE DEF all, r, starts, begun, s
<1>16. CASE ~whole
  <2>1. Len(r) < Len(s) /\ (~starts => Len(r) <= 4)
    <3>1. ~starts \/ Len(r) < 6 \/ Len(r) < CutAt(r)
      <4>1. CutAt(r) \in Nat
        BY SizeAssumption DEF CutAt, RSP_LEN_CFG
      <4> QED
        BY <1>7, <1>13, <1>16, <4>1
    <3> QED
      BY <1>7, <1>11, <1>12, <1>13, <1>15, <3>1
  <2>2. received' = all
    BY <1>3, <1>7, <1>13, <1>14, <1>16, <2>1
  <2>3. buf' = <<>> /\ got' = got /\ overrun' = overrun
    BY <1>3, <1>16
  <2>4. Coming' = Coming
    <3>1. all \o <<>> = all
      BY <1>7, ConcatEmptySeq DEF Bytes
    <3> QED
      BY <1>4, <2>2, <2>3, <3>1 DEF Coming, all
  <2>5. HandedOver(n)'
    <3>1. Coming' = From(n)
      BY <1>2, <2>4 DEF HandedOver
    <3>2. \A f \in 1 .. n : Delivered(f)'
      BY <1>2, <2>3 DEF HandedOver, Delivered, Ignored
    <3>3. n < N /\ Len(received') < Len(Stream[n + 1])
      BY <1>10, <1>13, <2>1, <2>2 DEF s
    <3> QED
      BY <3>1, <3>2, <3>3 DEF HandedOver, From, Firsts, N
  <2>6. Len(buf') <= BufSize
    BY <1>14, <2>3
  <2> QED
    BY <1>1, <1>4, <1>6, <2>3, <2>5, <2>6, SameFrames DEF WholeInv
<1>17. CASE whole
  <2>1. CutAt(r) = Len(s) /\ Len(all) >= Len(s)
    BY <1>12, <1>13, <1>17
  <2>2. Take(all, Len(s)) = s /\ Drop(all, Len(s)) \o wire = From(n + 1)
    BY <1>12, <2>1
  <2> DEFINE rest == Drop(all, Len(s))
  <2>3. Len(s) \in 0 .. Len(all)
    BY <1>7, <1>11, <2>1
  <2>4. rest \in Bytes /\ Len(rest) = Len(all) - Len(s) /\ all[6] = s[6]
    <3>1. 6 \in 1 .. Len(s)
      BY <1>11
    <3>2. /\ rest \in Bytes /\ Len(rest) = Len(all) - Len(s)
          /\ \A i \in 1 .. Len(s) : Take(all, Len(s))[i] = all[i]
      BY <1>7, <2>3, CutBytes
    <3>3. all[6] = Take(all, Len(s))[6]
      BY <3>1, <3>2
    <3> QED
      BY <2>2, <3>2, <3>3
  <2>5. Len(rest) <= BufSize
    <3>1. Len(received) < Len(s)
      <4>1. Len(<<>>) = 0
        OBVIOUS
      <4> QED
        BY <1>11, <4>1
    <3> QED
      BY <1>6, <1>7, <1>11, <1>14, <2>4, <3>1
  <2>6. Rest(r) = rest
    BY <1>13, <2>1 DEF Rest
  <2> HIDE DEF rest
  <2>7. buf' = rest /\ overrun' = overrun /\ received' = <<>> /\ got' = got \o out
    <3>1. ~(Len(rest) > BufSize)
      BY <1>14, <2>4, <2>5, SeqFacts DEF Bytes
    <3>2. /\ got' = got \o out
          /\ buf' = IF Len(rest) > BufSize THEN Take(rest, BufSize) ELSE rest
          /\ overrun' = (overrun \/ Len(rest) > BufSize)
          /\ received' = <<>>
      BY <1>3, <1>17, <2>6
    <3>3. overrun \in BOOLEAN
      BY DEF WholeInv, FramesInv, Types
    <3> QED
      BY <3>1, <3>2, <3>3
  <2>8. out = IF Ignored(n + 1) THEN <<>> ELSE <<n + 1>>
    <3>1. IsHit(r) <=> IsHit(s)
      BY <1>13, <2>4 DEF IsHit
    <3>2. Take(r, CutAt(r)) = s
      BY <1>13, <2>1, <2>2
    <3>3. out = IF IsHit(s) THEN hitResult(s) ELSE checkCfgRespRaw(s)
      BY <3>1, <3>2
    <3> QED
      BY <1>10, <3>3, WholeHandedOn DEF s
  <2> HIDE DEF out
  <2>9. \A f \in 1 .. n + 1 : Delivered(f)'
    <3>1. ToSet(got') = ToSet(got) \cup ToSet(out)
      <4>1. out \in Seq(Frame)
        <5>1. <<>> \in Seq(Frame) /\ <<n + 1>> \in Seq(Frame)
          BY <1>10, EmptySeq
        <5> QED
          BY <2>8, <5>1
      <4> QED
        BY <1>5, <2>7, <4>1, CatSet
    <3>2. ~Ignored(n + 1) => n + 1 \in ToSet(out)
      <4>1. ToSet(<<n + 1>>) = {n + 1}
        BY DEF ToSet
      <4> QED
        BY <2>8, <4>1
    <3> SUFFICES ASSUME NEW f \in 1 .. n + 1 PROVE f \in ToSet(got') \/ Ignored(f)
      BY DEF Delivered, Ignored
    <3>3. CASE f = n + 1
      BY <3>1, <3>2, <3>3
    <3>4. CASE f # n + 1
      <4>1. f \in 1 .. n
        BY <1>10, <3>4
      <4>2. Delivered(f)
        BY <1>2, <4>1 DEF HandedOver
      <4> QED
        BY <3>1, <4>2 DEF Delivered
    <3> QED
      BY <3>3, <3>4
  <2>10. Coming' = From(n + 1)
    <3>1. <<>> \o rest = rest
      BY <2>4, ConcatEmptySeq DEF Bytes
    <3> QED
      BY <1>4, <2>2, <2>7, <3>1 DEF Coming, rest
  <2>11. HandedOver(n + 1)'
    BY <2>7, <2>9, <2>10 DEF HandedOver, From, Firsts, N
  <2>12. n + 1 \in 0 .. N
    BY <1>10
  <2>13. Len(buf') <= BufSize
    BY <2>5, <2>7
  <2> QED
    BY <1>1, <1>4, <1>6, <2>7, <2>11, <2>12, <2>13, SameFrames DEF WholeInv
<1> QED
  BY <1>16, <1>17

LEMMA NextWhole == WholeInv /\ [Next]_vars => WholeInv'
<1> SUFFICES ASSUME WholeInv, [Next]_vars PROVE WholeInv'
  OBVIOUS
<1>1. CASE UNCHANGED vars
  <2>1. FramesInv'
    BY <1>1, NextFrames DEF WholeInv
  <2>2. PICK n \in 0 .. N : HandedOver(n)
    BY DEF WholeInv
  <2>3. HandedOver(n)'
    BY <1>1, <2>2 DEF vars, HandedOver, Coming, Delivered, Ignored, From, Firsts, N
  <2>4. Len(buf') <= BufSize /\ ~overrun' /\ damaged' = damaged
    BY <1>1 DEF vars, WholeInv
  <2> QED
    BY <2>1, <2>3, <2>4, SameFrames DEF WholeInv
<1>2. CASE Read
  BY <1>2, ReadWhole
<1>3. CASE Leftover
  BY <1>3, LeftoverWhole
<1> QED
  BY <1>1, <1>2, <1>3 DEF Next

\* If no byte is lost, however reads cut the stream, nothing of it is dropped
\* and every frame is delivered: the repairs of asicRead never take a whole
\* frame for a damaged one, nor cut one short where the next begins.
THEOREM NothingLostNothingMissed == Intact /\ Spec => [](LossIsLocal /\ ~overrun)
<1>1. WholeInv => ~overrun
  BY DEF WholeInv
<1> QED
  BY <1>1, InitWhole, NextWhole, WholeIsLocal, PTL DEF Spec

=============================================================================
