-------------------------------- MODULE Frames --------------------------------
(***************************************************************************)
(* The byte stream from the ASICs of a hash board, eval_miner/device/      *)
(* asicio: asicRead cuts it into frames, mends those that lost a byte of   *)
(* their magic, and hands them to cmdreader (checkCfgRespRaw, which mends  *)
(* two more places and checks the CRC) or to the queue of hit results      *)
(* (CheckHitResult).  AsicIO takes from here that an answer is delivered   *)
(* whole, in order and at most once, or lost.                              *)
(*                                                                         *)
(* Stream is what the ASICs sent, frame by frame; which bytes are lost on  *)
(* the way is chosen in Init, and how many are there at each read at that  *)
(* read.  A byte is a number; the first byte of a CRC is one that stands   *)
(* nowhere else, so that a CRC fits the frame it was made for and no       *)
(* other.                                                                  *)
(* No frame has the magic inside (the value of a register could be it):    *)
(* when asicRead looks for a magic it would take that one, and lose two    *)
(* frames more.                                                            *)
(***************************************************************************)
EXTENDS Integers, FiniteSets, Sequences, SequencesExt

CONSTANTS
    Stream,              \* the frames sent
    BufSize,             \* the bytes of a read (1024)
    RSP_LEN_HIT,         \* the bytes of a hit result (92)
    MaxLost,             \* bound: bytes lost
    Losable              \* bound: the bytes that may be lost, as <<frame, place>>

RSP_LEN_CFG == 16

CMD_READ      == 2
CMD_READWRITE == 3
HitCommand    == 68 .. 71          \* CMD_LOAD0..3 + CMD_RETURNHIT

resp_magic == <<84, 118, 192, 218>>

ASSUME BytesAssumption == Stream \in Seq(Seq(Nat))
ASSUME StreamAssumption ==
    \A f \in DOMAIN Stream :
        /\ SubSeq(Stream[f], 1, 4) = resp_magic
        /\ Len(Stream[f]) = IF Stream[f][6] \in HitCommand THEN RSP_LEN_HIT ELSE RSP_LEN_CFG
        /\ \A g \in DOMAIN Stream : Stream[f] = Stream[g] => f = g
        /\ \A i \in 2 .. (Len(Stream[f]) - 3) : SubSeq(Stream[f], i, i + 3) # resp_magic
ASSUME CrcAssumption ==
    \A f, g \in DOMAIN Stream : \A i \in DOMAIN Stream[g] :
        LET at == Len(Stream[f]) - 3 IN
        /\ Stream[g][i] = Stream[f][at] => g = f /\ i = at
        /\ Stream[f][at] \notin {0, CMD_READ}
ASSUME SizeAssumption ==
    /\ RSP_LEN_HIT \in Nat /\ BufSize \in Nat
    /\ RSP_LEN_CFG < RSP_LEN_HIT /\ RSP_LEN_HIT <= BufSize
ASSUME BoundAssumption ==
    /\ MaxLost \in Nat
    /\ Losable \subseteq UNION {{f} \X DOMAIN Stream[f] : f \in DOMAIN Stream}

VARIABLES
    wire,                \* the bytes still to be read
    damaged,             \* which bytes of each frame were lost
    received,            \* what asicRead has of the current frame; <<>> is nil
    frameStart,          \* received begins with the magic
    buf,                 \* what was read and not yet put in received
    got,                 \* the frames that passed their CRC, as numbers in Stream
    overrun              \* history: bytes did not fit into buf and were dropped

vars == <<wire, damaged, received, frameStart, buf, got, overrun>>

\* what arrives of frame f, and of all of them, without the bytes in lost
Left(lost, f) ==
    FlattenSeq([i \in DOMAIN Stream[f] |-> IF <<f, i>> \in lost THEN <<>> ELSE <<Stream[f][i]>>])
Arriving(lost) == FlattenSeq([f \in DOMAIN Stream |-> Left(lost, f)])

Init ==
    /\ \E choice \in [1 .. MaxLost -> Losable \cup {<<0, 0>>}] :
         LET lost == ToSet(choice) IN              \* <<0, 0>> is no byte
         /\ wire = Arriving(lost)
         /\ damaged = [f \in DOMAIN Stream |-> {b[2] : b \in {x \in lost : x[1] = f}}]
    /\ received = <<>>
    /\ frameStart = FALSE
    /\ buf = <<>>
    /\ got = <<>>
    /\ overrun = FALSE

Drop(s, n) == SubSeq(s, n + 1, Len(s))
Take(s, n) == SubSeq(s, 1, n)

-----------------------------------------------------------------------------
(* What becomes of a frame that was cut out of the stream.                 *)

\* checkCfgRespRaw's guess at the byte a frame of 15 bytes has lost after
\* its magic; offsets in the source count from 0
Mended(v) ==
    IF Len(v) # RSP_LEN_CFG - 1 THEN v
    ELSE IF v[5] # CMD_READ /\ v[6] = 0 THEN Take(v, 5) \o <<CMD_READ>> \o Drop(v, 5)
    ELSE IF v[6] = CMD_READ /\ v[7] # 0 THEN Take(v, 6) \o <<0>> \o Drop(v, 6)
    ELSE <<>>

Genuine(v) ==
    LET sent == {f \in DOMAIN Stream : Stream[f] = v}
    IN  IF sent = {} THEN <<>> ELSE <<CHOOSE f \in sent : TRUE>>

MutNoCrc(v) == IF Len(Mended(v)) = RSP_LEN_CFG THEN <<0>> ELSE <<>>
checkCfgRespRaw(v) == Genuine(Mended(v))

\* putHitRawResult ignores hits of job 0; the rest is CheckHitResult
hitResult(v) == IF v[8] = 0 THEN <<>> ELSE Genuine(v)

-----------------------------------------------------------------------------
(* asicRead                                                                *)

\* the offset of the first magic, or -1
Index(s) ==
    LET at == {i \in 0 .. (Len(s) - 4) : SubSeq(s, i + 1, i + 4) = resp_magic}
    IN  IF at = {} THEN -1 ELSE CHOOSE i \in at : \A j \in at : i <= j

\* the magic has lost a byte: two of its neighbours and one end are there,
\* and a register's answer follows
LostMagicByte(s) ==
    /\ Index(s) \in {RSP_LEN_CFG - 1, 2 * (RSP_LEN_CFG - 1)}
         \/ (Index(s) < 0 /\ Len(s) \in {RSP_LEN_CFG - 1, 2 * (RSP_LEN_CFG - 1)})
    /\ \/ s[2] = resp_magic[3] /\ s[3] = resp_magic[4] /\ s[1] \in {resp_magic[1], resp_magic[2]}
       \/ s[1] = resp_magic[1] /\ s[2] = resp_magic[2] /\ s[3] \in {resp_magic[3], resp_magic[4]}
    /\ s[5] \in {CMD_READ, CMD_READWRITE} /\ s[6] = 0

\* what is kept of received while no frame has begun
MutNoRepair(s) ==
    IF Len(s) <= 4 THEN s
    ELSE IF Index(s) > 0 THEN Drop(s, Index(s))
    ELSE s
Aligned(s) ==
    IF Len(s) <= 4 THEN s
    ELSE IF LostMagicByte(s) THEN resp_magic \o Drop(s, 3)
    ELSE IF Index(s) > 0 THEN Drop(s, Index(s))
    ELSE s

IsHit(r) == r[6] \in HitCommand

\* how many bytes of r are its first frame; a register's answer that the
\* next magic begins in has lost a byte
CutAt(r) ==
    IF IsHit(r) THEN RSP_LEN_HIT
    ELSE IF /\ Len(r) > RSP_LEN_CFG
            /\ r[RSP_LEN_CFG] = resp_magic[1] /\ r[RSP_LEN_CFG + 1] = resp_magic[2]
    THEN RSP_LEN_CFG - 1
    ELSE RSP_LEN_CFG

MutRest(r) == r
Rest(r) == Drop(r, CutAt(r))

Read ==
    /\ buf = <<>>
    /\ \E n \in 1 .. BufSize :
         /\ n <= Len(wire)
         /\ buf' = Take(wire, n)
         /\ wire' = Drop(wire, n)
    /\ UNCHANGED <<damaged, received, frameStart, got, overrun>>

(* One round from the label leftover.  The bytes of buf are added to       *)
(* received, and wait there for the rest of their frame ...                *)
Leftover ==
    LET all    == received \o buf
        begun  == frameStart /\ received # <<>>
        r      == IF begun THEN all ELSE Aligned(all)
        starts == begun \/ (Len(all) > 4 /\ Index(r) = 0)
        whole  == starts /\ Len(r) >= 6 /\ Len(r) >= CutAt(r)
        rest   == Rest(r)
    IN
    /\ buf # <<>>
    /\ \/ /\ ~whole
          /\ received' = IF ~starts /\ Len(r) > BufSize THEN Drop(r, Len(r) - 3) ELSE r
          /\ frameStart' = starts
          /\ buf' = <<>>
          /\ UNCHANGED <<got, overrun>>
       \* ... or their frame is handed on, and what follows it copied to buf.
       \/ /\ whole
          /\ got' = got \o (IF IsHit(r) THEN hitResult(Take(r, CutAt(r)))
                                        ELSE checkCfgRespRaw(Take(r, CutAt(r))))
          /\ buf' = IF Len(rest) > BufSize THEN Take(rest, BufSize) ELSE rest
          /\ overrun' = (overrun \/ Len(rest) > BufSize)
          /\ received' = <<>>
          /\ frameStart' = FALSE
    /\ UNCHANGED <<wire, damaged>>

Next == Read \/ Leftover

Spec == Init /\ [][Next]_vars

-----------------------------------------------------------------------------
(* Every variable has its type, and received, which each round of leftover *)
(* adds to, never holds more than one read.                                *)
TypeOK ==
    /\ wire \in Seq(Nat) /\ buf \in Seq(Nat)
    /\ received \in Seq(Nat) /\ Len(received) <= BufSize
    /\ frameStart \in BOOLEAN
    /\ got \in Seq(DOMAIN Stream)
    /\ overrun \in BOOLEAN

(* Whatever is lost and however reads cut the stream, a frame is delivered *)
(* at most once, and frames in the order they were sent.                   *)
FramesInOrder == \A i, j \in DOMAIN got : i < j => got[i] < got[j]

Ignored(f) == IsHit(Stream[f]) /\ Stream[f][8] = 0

\* a frame that is rebuilt wherever the reads cut the stream: the answer to
\* a read with one byte of its magic lost (Mended, too, is right only when
\* the read did not end after one byte of the next frame)
Mendable(f) ==
    /\ Cardinality(damaged[f]) = 1 /\ damaged[f] \subseteq 1 .. 4
    /\ Stream[f][6] \in {CMD_READ, CMD_READWRITE}

Whole(f)     == f \in DOMAIN Stream => damaged[f] = {}
Delivered(f) == f \in ToSet(got) \/ Ignored(f)

(* What lost bytes cost, unless one of the magic was lost before a read    *)
(* that fills buf (the overrun that "shouldn't happen, but it did once"):  *)
(* no more than two frames each, and never a whole frame after a whole     *)
(* one; nothing if it is one of the magic and the frames around are whole. *)
LossIsLocal ==
    wire = <<>> /\ buf = <<>> /\ ~overrun =>
        /\ Cardinality({f \in DOMAIN Stream : ~Delivered(f)})
              <= 2 * Cardinality(UNION {{f} \X damaged[f] : f \in DOMAIN Stream})
        /\ \A f \in DOMAIN Stream :
              \/ Whole(f) /\ Whole(f - 1)
              \/ Mendable(f) /\ \A g \in {f - 2, f - 1, f + 1} : Whole(g)
              => Delivered(f)
=============================================================================
