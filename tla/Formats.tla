------------------------------- MODULE Formats -------------------------------
(***************************************************************************)
(* The formats of the advertisements: convert_from_enc and convert_to_enc  *)
(* of the codecs, which place a command and a configuration in a buffer of *)
(* bytes and read them back, with the pivots, matrices and nibbles that    *)
(* move the bits around.                                                   *)
(*                                                                         *)
(* Left out: the fixed headers and footers, the whitening, the CRCs and    *)
(* the AES signature. They are keyed permutations and checks of the whole  *)
(* buffer, which the receiver undoes without reading a field.              *)
(*                                                                         *)
(* A command and its configuration are one record (BleAdvEncCmd and        *)
(* BleAdvConfig), the identifier and the seed cut in bytes, lowest first.  *)
(* A buffer is a function from 0, as in the code.                          *)
(***************************************************************************)
EXTENDS Integers, Sequences

Byte == 0 .. 255

\* The exclusive and the inclusive or of two bytes, bit by bit, as tables.
Bit(a, weight) == (a \div weight) % 2
XorBit(a, b, weight) == IF Bit(a, weight) = Bit(b, weight) THEN 0 ELSE weight
OrBit(a, b, weight)  == IF Bit(a, weight) + Bit(b, weight) = 0 THEN 0 ELSE weight

Xor ==
  [a \in Byte |-> [b \in Byte |->
     XorBit(a, b, 1) + XorBit(a, b, 2) + XorBit(a, b, 4) + XorBit(a, b, 8)
     + XorBit(a, b, 16) + XorBit(a, b, 32) + XorBit(a, b, 64) + XorBit(a, b, 128)]]

Or ==
  [a \in Byte |-> [b \in Byte |->
     OrBit(a, b, 1) + OrBit(a, b, 2) + OrBit(a, b, 4) + OrBit(a, b, 8)
     + OrBit(a, b, 16) + OrBit(a, b, 32) + OrBit(a, b, 64) + OrBit(a, b, 128)]]

a (+) b == Xor[a][b]
a | b   == Or[a][b]

\* The sum of a list.
Total(list) ==
  LET sum[n \in 0 .. Len(list)] == IF n = 0 THEN 0 ELSE sum[n - 1] + list[n]
  IN  sum[Len(list)]

\* The commands with their configurations.
EncCmd ==
  [cmd : Byte, param : Byte, arg0 : Byte, arg1 : Byte, arg2 : Byte, arg3 : Byte,
   id0 : Byte, id1 : Byte, id2 : Byte, id3 : Byte, index : Byte,
   tx : Byte, restart : Byte, seed0 : Byte, seed1 : Byte,
   id4 : Byte, id5 : Byte, seed2 : Byte, seed3 : Byte]

Fields == {"cmd", "param", "arg0", "arg1", "arg2", "arg3", "id0", "id1", "id2", "id3",
           "index", "tx", "restart", "seed0", "seed1", "id4", "id5", "seed2", "seed3"}

\* One of which nothing is set.
Nothing ==
  [cmd |-> 0, param |-> 0, arg0 |-> 0, arg1 |-> 0, arg2 |-> 0, arg3 |-> 0,
   id0 |-> 0, id1 |-> 0, id2 |-> 0, id3 |-> 0, index |-> 0,
   tx |-> 0, restart |-> 1, seed0 |-> 0, seed1 |-> 0,
   id4 |-> 0, id5 |-> 0, seed2 |-> 0, seed3 |-> 0]

\* What a decoder answers for a buffer that is not of its format.
NotMine == [Nothing EXCEPT !.cmd = -1]

\* The bytes of a buffer, from 0.
Buffer(bytes) == [i \in 0 .. Len(bytes) - 1 |-> bytes[i + 1]]

Low(byte)  == byte % 16
High(byte) == byte \div 16

\* Every byte of a buffer under one mask.
Masked(buf, mask) == [i \in DOMAIN buf |-> buf[i] (+) mask]

-----------------------------------------------------------------------------
(* zhijia.py *)

\* The pivot of V0: four bytes, all together. It is the same once they are masked.
Pivot0(buf) == buf[0] (+) buf[1] (+) buf[6] (+) buf[7]

Pivoted0(buf) == Masked(buf, Pivot0(buf))

\* The pivot of V1 and V2: the bytes at six places, made odd.
Pivot(buf, places) ==
  LET At(n) == buf[places[n]]
      p     == At(1) (+) At(2) (+) At(3) (+) At(4) (+) At(5) (+) At(6)
  IN  IF p % 2 = 0 THEN p (+) 255 ELSE p

Pivoted(buf, places) == Masked(buf, Pivot(buf, places))

ZhijiaV0From(c) ==
  Pivoted0(Buffer(<<c.id0, c.arg0, c.index, c.arg1, c.cmd, c.id1,
                   c.id0 (+) c.tx, c.arg0 (+) c.arg2>>))

ZhijiaV0To(buf) ==
  LET d == Pivoted0(buf)
  IN  [Nothing EXCEPT !.cmd = d[4], !.arg0 = d[1], !.arg1 = d[3],
                      !.arg2 = d[1] (+) d[7], !.id0 = d[0], !.id1 = d[5],
                      !.index = d[2], !.tx = d[0] (+) d[6]]

\* common_convert_from_enc: mac is the address of the maker.
ZhijiaFrom(c, mac) ==
  LET key == c.cmd (+) c.arg0 (+) c.arg1 (+) c.arg2 (+) c.id0 (+) c.id1 (+) c.id2
             (+) c.tx (+) c.index (+) mac[1] (+) mac[2] (+) mac[3]
  IN  Buffer(<<c.arg0, key, c.id0, c.arg1, c.tx, c.arg2, c.index, mac[1], 0, c.cmd,
               mac[2], 0, c.id1 (+) c.id0, mac[3] (+) c.tx, 0, c.id2 (+) c.cmd, 0>>)

ZhijiaTo(d, mac) ==
  IF mac # <<d[7], d[10], d[13] (+) d[4]>> THEN NotMine
  ELSE [Nothing EXCEPT !.cmd = d[9], !.arg0 = d[0], !.arg1 = d[3], !.arg2 = d[5],
                       !.id0 = d[2], !.id1 = d[12] (+) d[2], !.id2 = d[15] (+) d[9],
                       !.index = d[6], !.tx = d[4]]

V1Places == <<2, 4, 9, 12, 13, 15>>

ZhijiaV1From(c, mac) ==
  LET b == ZhijiaFrom(c, mac) IN Pivoted([b EXCEPT ![14] = b[7]], V1Places)

ZhijiaV1To(buf, mac) ==
  LET d == Pivoted(buf, V1Places)
  IN  IF d[8] = 0 /\ d[11] = 0 /\ d[14] = d[7] THEN ZhijiaTo(d, mac) ELSE NotMine

V2Places == <<3, 7, 11, 12, 13, 15>>

ZhijiaV2From(c, mac) ==
  LET b == ZhijiaFrom(c, mac)
  IN  Pivoted([b EXCEPT ![1] = @ (+) b[9], ![8] = b[2] (+) b[3] (+) b[4] (+) b[7],
                        ![14] = b[2] (+) b[3] (+) b[4] (+) b[9]], V2Places)

ZhijiaV2To(buf, mac) ==
  LET d == Pivoted(buf, V2Places)
  IN  IF /\ d[8] = d[2] (+) d[3] (+) d[4] (+) d[7]
         /\ d[11] = 0
         /\ d[14] = d[2] (+) d[3] (+) d[4] (+) d[9]
      THEN ZhijiaTo(d, mac) ELSE NotMine

\* The remote's mask is the byte of arg2, which its commands leave at 0.
ZhijiaRemoteFrom(c, mac) ==
  LET b == ZhijiaFrom(c, mac)
  IN  Masked([b EXCEPT ![1] = @ (+) 4, ![8] = 1, ![11] = 2, ![14] = b[2], ![16] = 6],
             201 (+) 6)

ZhijiaRemoteTo(buf, mac) ==
  LET d == Masked(buf, buf[5])
  IN  IF d[8] = 1 /\ d[11] = 2 /\ d[14] = d[2] THEN ZhijiaTo(d, mac) ELSE NotMine

-----------------------------------------------------------------------------
(* fanlamp.py *)

\* V1 R0 and R1: the index shares the bytes of the identifier; no count is sent.
FanLampR0From(c, nullTrailers) ==
  Buffer(<<c.cmd, c.id0, c.id1 | c.index, c.arg0, c.arg1, c.arg2, c.arg3, c.param>>
         \o (IF nullTrailers THEN <<0, 0, 0, 0, 0, 0>>
             ELSE IF c.arg3 = 0
             THEN <<IF c.arg2 # 0 THEN 5 ELSE 2, 0, 0, 0, IF c.arg2 # 0 THEN 2 ELSE 1, 0>>
             ELSE <<c.id1, c.id0, 0, 0, c.arg3, IF c.arg3 = 1 THEN 1 ELSE 0>>))

FanLampR0To(d, nullTrailers) ==
  IF nullTrailers /\ \E i \in 8 .. 13 : d[i] # 0 THEN NotMine
  ELSE [Nothing EXCEPT !.cmd = d[0], !.param = d[7], !.arg0 = d[3], !.arg1 = d[4],
                       !.arg2 = d[5], !.arg3 = d[6], !.id0 = d[1],
                       !.id1 = 16 * High(d[2]), !.index = Low(d[2])]

Pair == 40  \* 0x28
Group == 34 \* 0x22

\* _get_arg2: the third argument is fixed by the codec, but for one command.
FixedArg2(cmd, arg2, fixed, onPairOnly) ==
  IF cmd = Group THEN arg2
  ELSE IF cmd = Pair \/ (~onPairOnly /\ cmd \notin {18, 19, 30, 31}) THEN fixed ELSE 0

\* A V1 codec: its fixed argument, its header and how the seed is marked.
FanLampV1From(c, k) ==
  LET high == 16 * High(c.id1)
  IN  Buffer(<<c.cmd, c.id0, high | Low(c.index),
               IF c.cmd = Pair THEN c.id0 ELSE c.arg0,
               IF c.cmd = Pair THEN high ELSE c.arg1,
               FixedArg2(c.cmd, c.arg2, k.fixed, k.onPairOnly), c.tx,
               IF k.fixed = 0 /\ c.cmd = Pair THEN k.header ELSE c.param,
               IF k.xor1 THEN c.seed0 (+) 1 ELSE c.seed0 (+) c.id2,
               IF k.xor1 THEN c.seed0 (+) 1 ELSE c.seed0, c.seed1, c.seed0>>)

FanLampV1To(d, k) ==
  LET id  == [Nothing EXCEPT !.cmd = d[0], !.id0 = d[1], !.id1 = 16 * High(d[2]),
                             !.id2 = d[11] (+) d[8], !.index = Low(d[2]), !.tx = d[6],
                             !.seed0 = d[11], !.seed1 = d[10]]
  IN  IF \/ d[5] # FixedArg2(d[0], d[5], k.fixed, k.onPairOnly)
         \/ d[9] # (IF k.xor1 THEN d[11] (+) 1 ELSE d[11])
         \/ d[0] = Pair /\ (d[3] # id.id0 \/ d[4] # id.id1)
      THEN NotMine
      ELSE IF d[0] = Pair THEN [id EXCEPT !.param = IF k.fixed = 0 THEN 0 ELSE d[7]]
      ELSE [id EXCEPT !.param = d[7], !.arg0 = d[3], !.arg1 = d[4],
                      !.arg2 = IF d[0] = Group THEN d[5] ELSE 0]

\* V2: device is the type of lamp; what the signature and the prefix take is fixed.
FanLampV2From(c, device) ==
  Buffer(<<c.tx, device % 256, device \div 256, c.id0, c.id1, c.id2, c.id3, c.index,
           c.cmd, 0, c.param, c.arg0, c.arg1, c.arg2, 0, c.seed0, c.seed1>>)

FanLampV2To(d, device) ==
  IF device # 256 * d[2] + d[1] THEN NotMine
  ELSE [Nothing EXCEPT !.tx = d[0], !.id0 = d[3], !.id1 = d[4], !.id2 = d[5],
                       !.id3 = d[6], !.index = d[7], !.cmd = d[8], !.param = d[10],
                       !.arg0 = d[11], !.arg1 = d[12], !.arg2 = d[13],
                       !.seed0 = d[15], !.seed1 = d[16]]

-----------------------------------------------------------------------------
(* agarce.py *)

\* convert_from_enc, after the prefix 0x83 or 0x84.
AgarcePlain(c, prefix) ==
  Buffer(<<prefix, c.seed0, c.seed1, c.tx, c.restart, 0, 16, c.id0, c.id1, c.id2, c.id3,
           c.cmd, c.arg0, c.arg1, c.arg2, c.index>>)

\* Mutated form: the low half of the index is not put beside the command.
AgarceFromHalfIndex(c, prefix) ==
  LET b == AgarcePlain(c, prefix)
  IN  IF c.cmd = 0
      THEN [b EXCEPT ![13] = High(b[0]), ![14] = Low(b[15]),
                     ![15] = High(b[15]) + 192, ![0] = Low(b[0])]
      ELSE [b EXCEPT ![15] = High(b[15])]

\* encrypt moves nibbles: the pairing has no room for its two last arguments.
AgarceFrom(c, prefix) ==
  LET b == AgarcePlain(c, prefix)
  IN  IF c.cmd = 0
      THEN [b EXCEPT ![13] = High(b[0]), ![14] = Low(b[15]),
                     ![15] = High(b[15]) + 192, ![0] = Low(b[0])]
      ELSE [b EXCEPT ![11] = @ | Low(b[15]), ![15] = High(b[15])]

AgarceTo(buf, prefix) ==
  LET pair == High(buf[11]) = 0
      d == IF pair
           THEN [buf EXCEPT ![0] = @ | (16 * Low(buf[13])),
                            ![15] = 16 * Low(buf[15]) + buf[14], ![14] = 0, ![13] = 0]
           ELSE [buf EXCEPT ![15] = 16 * Low(buf[15]) + Low(buf[11])]
  IN  IF (pair /\ buf[15] = 0) \/ d[0] # prefix THEN NotMine
      ELSE [Nothing EXCEPT !.cmd = 16 * High(d[11]), !.arg0 = d[12], !.arg1 = d[13],
                           !.arg2 = d[14], !.tx = d[3], !.restart = d[4], !.id0 = d[7],
                           !.id1 = d[8], !.id2 = d[9], !.id3 = d[10], !.index = d[15],
                           !.seed0 = d[1], !.seed1 = d[2]]

\* The remote, whose identifier has six bytes and whose seed has four: an argument at
\* 0 is replaced, by a rolling code or by 0xFF.
AgarceRemoteFrom(c) ==
  Buffer(<<c.seed0, c.seed1, c.seed2, c.seed3, c.tx, c.restart, 0, 0,
           c.id0, c.id1, c.id2, c.id3, c.id4, c.id5, 0, c.cmd, IF c.arg0 # 0 THEN c.arg0 ELSE c.tx (+) c.cmd,
           IF c.arg1 # 0 THEN c.arg1 ELSE 255, c.arg2>>)

AgarceRemoteTo(d) ==
  [Nothing EXCEPT !.cmd = d[15], !.arg0 = d[16], !.arg1 = d[17], !.arg2 = d[18],
                  !.tx = d[4], !.restart = d[5], !.id0 = d[8], !.id1 = d[9],
                  !.id2 = d[10], !.id3 = d[11], !.id4 = d[12], !.id5 = d[13],
                  !.seed0 = d[0], !.seed1 = d[1], !.seed2 = d[2], !.seed3 = d[3]]

-----------------------------------------------------------------------------
(* zhimei.py *)

ZhimeiV2From(c) ==
  Pivoted0(Buffer(<<c.id1, c.arg0, c.index, c.arg1, c.cmd, c.id0,
                   c.tx (+) c.id1, c.arg0 (+) c.arg2>>))

ZhimeiV2To(buf) ==
  LET d == Pivoted0(buf)
  IN  [Nothing EXCEPT !.cmd = d[4], !.arg0 = d[1], !.arg1 = d[3], !.arg2 = d[7] (+) d[1],
                      !.id0 = d[5], !.id1 = d[0], !.index = d[2], !.tx = d[6] (+) d[0]]

Matrix == Buffer(<<29, 4, 17, 32, 152, 117, 40, 70, 11, 175, 67, 172, 214, 190, 137, 142>>)

\* _apply_matrix, on the bytes from a place: the pivot is drawn from the second one.
MatrixApplied(buf, from, key) ==
  LET p == Matrix[High(buf[from + 1]) (+) Low(buf[from + 1])]
  IN  [i \in DOMAIN buf |-> IF i < from THEN buf[i]
         ELSE ((buf[i] (+) p) + Matrix[(key + i - from) % 16]) % 256]

\* _unapply_matrix: the pivot is found again since the first byte was 0xFF.
MatrixUnapplied(buf, from, key) ==
  LET p == ((buf[from] - Matrix[key % 16]) % 256) (+) 255
  IN  [i \in DOMAIN buf |-> IF i < from THEN buf[i]
         ELSE ((buf[i] - Matrix[(key + i - from) % 16]) % 256) (+) p]

\* The pairing, whose arguments the matrix is applied to once only.
ZhimeiPair == 180 \* 0xB4

ZhimeiV1From(c) ==
  LET b == Buffer(<<255, c.seed0, c.tx, c.id0, c.id1, c.id2, c.id3, c.cmd, c.index,
                    255, c.tx, c.arg0, c.arg1, c.arg2>>)
  IN  MatrixApplied(IF c.cmd = ZhimeiPair THEN b ELSE MatrixApplied(b, 9, 10), 0, 6)

ZhimeiV1To(buf) ==
  LET b == MatrixUnapplied(buf, 0, 6)
      d == IF b[7] = ZhimeiPair THEN b ELSE MatrixUnapplied(b, 9, 10)
  IN  IF d[2] # d[10] \/ d[0] # 255 \/ d[9] # 255 THEN NotMine
      ELSE [Nothing EXCEPT !.cmd = d[7], !.arg0 = d[11], !.arg1 = d[12], !.arg2 = d[13],
                           !.id0 = d[3], !.id1 = d[4], !.id2 = d[5], !.id3 = d[6],
                           !.index = d[8], !.tx = d[2], !.seed0 = d[1]]

-----------------------------------------------------------------------------
(* rw.py: encrypt and decrypt mix the bytes of the plain buffer *)

RwFrom(c) ==
  LET b   == Buffer(<<c.cmd, c.tx, c.id0, c.id1, c.id2, c.id3, c.index,
                      c.arg0, c.arg1, c.arg2, c.seed0>>)
      b12 == b[1] (+) b[2]
  IN  Buffer(<<b[0] (+) b[10], b[1] (+) b[10], b[2] (+) b[1], b[3] (+) b[1], b[4] (+) b[1],
               b[5] (+) b12 (+) b[10], b[6] (+) b12 (+) b[10],
               b[7] (+) b12 (+) b[10], 76, 255, 0, b[8] (+) b12, 1, b[9] (+) b12, 2,
               b[8] (+) b[9] (+) b[10]>>)

RwTo(d) ==
  LET p  == d[11] (+) d[13] (+) d[15]
      By(i, j) == d[i] (+) p (+) d[j]
  IN  IF <<d[8], d[9], d[10], d[12], d[14]>> # <<76, 255, 0, 1, 2>> THEN NotMine
      ELSE [Nothing EXCEPT !.cmd = d[0] (+) p, !.tx = d[1] (+) p, !.id0 = By(2, 1),
                           !.id1 = By(3, 1), !.id2 = By(4, 1), !.id3 = By(5, 2),
                           !.index = By(6, 2), !.arg0 = By(7, 2), !.arg1 = By(11, 5),
                           !.arg2 = By(13, 5), !.seed0 = p]

-----------------------------------------------------------------------------
(* le.py, ruixin.py, remotes.py, smartelfin.py *)

LeBoxes == Buffer(<<203, 106, 149, 141, 182, 123, 53, 90, 110, 73, 92, 133, 55, 60, 166, 136>>)

LeChecksum(bytes) == ((Total(bytes) + 1) % 256) (+) 255

\* The plain bytes: as many arguments as param says.
LePlain(c) ==
  <<c.id0, c.id1, c.id2, c.id3, 254, c.index, c.tx, c.cmd, c.param>>
  \o SubSeq(<<c.arg0, c.arg1, c.arg2>>, 1, c.param)

\* Its length first, a mask drawn from the identifier, zeros up to 21 bytes.
LeFrom(c) ==
  LET data == <<Len(LePlain(c)) + 2, 1>> \o LePlain(c) \o <<LeChecksum(LePlain(c))>>
  IN  [i \in 0 .. 20 |-> IF i >= Len(data) THEN 0
         ELSE IF i < 6 THEN data[i + 1] ELSE data[i + 1] (+) LeBoxes[Low(c.id0)]]

LeTo(buf) ==
  LET last   == buf[0]
      d      == [i \in 0 .. last - 2 |-> IF i < 4 THEN buf[i + 2]
                                         ELSE buf[i + 2] (+) LeBoxes[Low(buf[2])]]
      Arg(n) == IF d[8] < n THEN 0 ELSE d[8 + n]
  IN  IF \/ last > 20 \/ buf[1] # 1 \/ \E i \in last + 1 .. 20 : buf[i] # 0
         \/ d[4] # 254
         \/ d[last - 2] # LeChecksum([i \in 1 .. last - 2 |-> d[i - 1]])
      THEN NotMine
      ELSE [Nothing EXCEPT !.cmd = d[7], !.param = d[8], !.arg0 = Arg(1), !.arg1 = Arg(2),
                           !.arg2 = Arg(3), !.id0 = d[0], !.id1 = d[1], !.id2 = d[2],
                           !.id3 = d[3], !.index = d[5], !.tx = d[6]]

\* The sum of some bytes of a buffer.
SumOf(buf, from, to) == Total([n \in 1 .. to - from + 1 |-> buf[from + n - 1]]) % 256

\* Every byte after the second is moved by the seed and its place.
RuiXinFrom(c) ==
  LET b == Buffer(<<c.seed0, c.tx, c.id0, c.id1, c.id2, c.id3, c.cmd, c.arg0, c.arg1,
                    c.arg2, 0, 0, 0, 0, 0, 0>>)
  IN  [i \in DOMAIN b |-> IF i < 2 THEN b[i]
         ELSE ((IF i = 15 THEN SumOf(b, 2, 14) ELSE b[i]) + b[0] + i - 2) % 256]

RuiXinTo(buf) ==
  LET d == [i \in DOMAIN buf |-> IF i < 2 THEN buf[i] ELSE (buf[i] - buf[0] - (i - 2)) % 256]
  IN  IF d[15] # SumOf(d, 2, 14) THEN NotMine
      ELSE [Nothing EXCEPT !.seed0 = d[0], !.tx = d[1], !.id0 = d[2], !.id1 = d[3],
                           !.id2 = d[4], !.id3 = d[5], !.cmd = d[6], !.arg0 = d[7],
                           !.arg1 = d[8], !.arg2 = d[9]]

\* The physical remotes: the command has six bits, arg1 the two others.
RemoteFrom(c) ==
  LET b == Buffer(<<c.arg0, c.id0, c.id1, c.id2, c.id3, c.cmd | c.arg1, c.tx, 0>>)
  IN  [b EXCEPT ![7] = SumOf(b, 0, 6)]

RemoteTo(d) ==
  IF d[7] # SumOf(d, 0, 6) THEN NotMine
  ELSE [Nothing EXCEPT !.cmd = d[5] % 64, !.arg0 = d[0], !.arg1 = 64 * (d[5] \div 64),
                       !.id0 = d[1], !.id1 = d[2], !.id2 = d[3], !.id3 = d[4], !.tx = d[6]]

SmartElfinFrom(c) ==
  Buffer(<<c.id0, c.id1, c.id2, c.tx, c.param, c.cmd, c.arg0, c.arg1>>)

SmartElfinTo(d) ==
  [Nothing EXCEPT !.id0 = d[0], !.id1 = d[1], !.id2 = d[2], !.tx = d[3], !.param = d[4],
                  !.cmd = d[5], !.arg0 = d[6], !.arg1 = d[7]]
=============================================================================
