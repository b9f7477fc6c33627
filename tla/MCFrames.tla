------------------------------ MODULE MCFrames ------------------------------
(* An instance of Frames: answers and hit results, some with data or a CRC *)
(* that ends with the beginning of the magic.                              *)
EXTENDS Frames

Crc(f) == <<1001 + 10 * f, 1002 + 10 * f, 1003 + 10 * f, IF f = 4 THEN 84 ELSE 1004 + 10 * f>>
Cfg(f, id, cmd, addr, data) == resp_magic \o <<id, cmd, 0, addr>> \o data \o Crc(f)
HitOf(f, id, seq) ==
    resp_magic \o <<id, 68, 36, seq>> \o [i \in 1 .. (RSP_LEN_HIT - 12) |-> 100 + i] \o Crc(f)

MCStream == << Cfg(1, 1, CMD_READ, 9, <<7, 0, 0, 84>>),
               Cfg(2, 128, CMD_READ, 0, <<0, 84, 118, 192>>),
               HitOf(3, 1, 5), Cfg(4, 1, CMD_READWRITE, 9, <<84, 118, 0, 0>>), HitOf(5, 128, 0),
               Cfg(6, 2, CMD_READ, 8, <<7, 0, 0, 0>>) >>
MCLosable == (1 .. 4) \X {1, 3, 5, 12}
=============================================================================
