-------------------------------- MODULE Frames --------------------------------
(***************************************************************************)
(* The codecs that the formats of Formats are for: what each of them is    *)
(* set up with, the fields of a command it has room for, what it writes    *)
(* and what it reads back (__init__.py: get_codecs).                       *)
(***************************************************************************)
EXTENDS Formats

Mac == <<25, 1, 16>>          \* zhijia_v1, zhijia_v2
RemoteMac == <<32, 3, 5>>     \* zhijia_vr1
Device == 1024                \* the type of lamp of fanlamp_pro_v2

\* The V1 codecs of fanlamp.py: fanlamp_pro_v1, its remote_v1, lampsmart_pro_v1, and its r1.
V1Codecs == {"fanlamp_v1", "remote_v1", "lampsmart", "lamp_r1"}

V1Codec(codec) ==
  CASE codec = "fanlamp_v1" -> [fixed |-> 131, onPairOnly |-> FALSE, xor1 |-> FALSE, header |-> 119]
    [] codec = "remote_v1"  -> [fixed |-> 131, onPairOnly |-> FALSE, xor1 |-> TRUE, header |-> 86]
    [] codec = "lampsmart"  -> [fixed |-> 129, onPairOnly |-> TRUE, xor1 |-> FALSE, header |-> 119]
    [] codec = "lamp_r1"    -> [fixed |-> 0, onPairOnly |-> FALSE, xor1 |-> TRUE, header |-> 98]

Codecs ==
  V1Codecs \cup
    {"zhijia_v0", "zhijia_v1", "zhijia_v2", "zhijia_vr1", "fanlamp_r0", "fanlamp_r1",
     "fanlamp_v2", "agarce", "agarce_vr", "zhimei_v1", "zhimei_v2", "rw", "le", "ruixin",
     "remote", "smartelfin"}

\* The fields that a format has room for, beside the command.
Args3 == {"arg0", "arg1", "arg2"}
Id4   == {"id0", "id1", "id2", "id3"}
Room(codec) ==
  CASE codec = "zhijia_v0"  -> Args3 \cup {"id0", "id1", "index", "tx"}
    [] codec = "zhijia_v1"  -> Args3 \cup {"id0", "id1", "id2", "index", "tx"}
    [] codec = "zhijia_v2"  -> Args3 \cup {"id0", "id1", "id2", "index", "tx"}
    [] codec = "zhijia_vr1" -> {"arg0", "arg1", "id0", "id1", "id2", "index", "tx"}
    [] codec = "fanlamp_r0" -> Args3 \cup {"arg3", "param", "id0", "id1", "index"}
    [] codec = "fanlamp_r1" -> Args3 \cup {"arg3", "param", "id0", "id1", "index"}
    [] codec = "fanlamp_v2" -> Args3 \cup Id4 \cup {"param", "index", "tx", "seed0", "seed1"}
    [] codec = "agarce"     -> Args3 \cup Id4 \cup {"index", "tx", "restart", "seed0", "seed1"}
    [] codec = "agarce_vr"  ->
         Args3 \cup Id4 \cup {"id4", "id5", "tx", "restart", "seed0", "seed1", "seed2", "seed3"}
    [] codec = "zhimei_v1"  -> Args3 \cup Id4 \cup {"index", "tx", "seed0"}
    [] codec = "zhimei_v2"  -> Args3 \cup {"id0", "id1", "index", "tx"}
    [] codec = "rw"         -> Args3 \cup {"id0", "id1", "id2", "index", "tx", "seed0"}
    [] codec = "le"         -> Args3 \cup Id4 \cup {"param", "index", "tx"}
    [] codec = "ruixin"     -> Args3 \cup Id4 \cup {"tx", "seed0"}
    [] codec = "remote"     -> Id4 \cup {"arg0", "arg1", "tx"}
    [] codec = "smartelfin" -> {"param", "arg0", "arg1", "id0", "id1", "id2", "tx"}
    [] codec \in V1Codecs   ->
         Args3 \cup {"param", "id0", "id1", "id2", "index", "tx", "seed0", "seed1"}

\* What a codec is given to encode: nothing it has no room for. The index of fanlamp V1
\* has four bits, and the identifier leaves them to it; the commands of agarce are
\* multiples of 16; those of the remotes have six bits, beside which stands arg1, and
\* le counts its arguments in param.
Commands(codec) ==
  {c \in EncCmd :
     /\ \A f \in Fields \ ({"cmd"} \cup Room(codec)) : c[f] = Nothing[f]
     /\ codec \in V1Codecs \cup {"fanlamp_r0", "fanlamp_r1"} => c.index < 16 /\ Low(c.id1) = 0
     /\ codec = "agarce" => Low(c.cmd) = 0
     /\ codec = "remote" => c.cmd < 64 /\ c.arg1 % 64 = 0
     /\ codec = "le" => c.param < 4}

From(codec, c) ==
  CASE codec = "zhijia_v0"  -> ZhijiaV0From(c)
    [] codec = "zhijia_v1"  -> ZhijiaV1From(c, Mac)
    [] codec = "zhijia_v2"  -> ZhijiaV2From(c, Mac)
    [] codec = "zhijia_vr1" -> ZhijiaRemoteFrom(c, RemoteMac)
    [] codec = "fanlamp_r0" -> FanLampR0From(c, FALSE)
    [] codec = "fanlamp_r1" -> FanLampR0From(c, TRUE)
    [] codec = "fanlamp_v2" -> FanLampV2From(c, Device)
    [] codec = "agarce"     -> AgarceFrom(c, 131)
    [] codec = "agarce_vr"  -> AgarceRemoteFrom(c)
    [] codec = "zhimei_v1"  -> ZhimeiV1From(c)
    [] codec = "zhimei_v2"  -> ZhimeiV2From(c)
    [] codec = "rw"         -> RwFrom(c)
    [] codec = "le"         -> LeFrom(c)
    [] codec = "ruixin"     -> RuiXinFrom(c)
    [] codec = "remote"     -> RemoteFrom(c)
    [] codec = "smartelfin" -> SmartElfinFrom(c)
    [] codec \in V1Codecs   -> FanLampV1From(c, V1Codec(codec))

To(codec, buf) ==
  CASE codec = "zhijia_v0"  -> ZhijiaV0To(buf)
    [] codec = "zhijia_v1"  -> ZhijiaV1To(buf, Mac)
    [] codec = "zhijia_v2"  -> ZhijiaV2To(buf, Mac)
    [] codec = "zhijia_vr1" -> ZhijiaRemoteTo(buf, RemoteMac)
    [] codec = "fanlamp_r0" -> FanLampR0To(buf, FALSE)
    [] codec = "fanlamp_r1" -> FanLampR0To(buf, TRUE)
    [] codec = "fanlamp_v2" -> FanLampV2To(buf, Device)
    [] codec = "agarce"     -> AgarceTo(buf, 131)
    [] codec = "agarce_vr"  -> AgarceRemoteTo(buf)
    [] codec = "zhimei_v1"  -> ZhimeiV1To(buf)
    [] codec = "zhimei_v2"  -> ZhimeiV2To(buf)
    [] codec = "rw"         -> RwTo(buf)
    [] codec = "le"         -> LeTo(buf)
    [] codec = "ruixin"     -> RuiXinTo(buf)
    [] codec = "remote"     -> RemoteTo(buf)
    [] codec = "smartelfin" -> SmartElfinTo(buf)
    [] codec \in V1Codecs   -> FanLampV1To(buf, V1Codec(codec))

\* What is left of a command once a codec wrote it. Lost are the third byte of the
\* identifier where the seed is marked in its place, the arguments of the pairings, and
\* those that a codec sets itself.
V1Carried(c, k) ==
  LET id == [c EXCEPT !.id2 = IF k.xor1 THEN 1 ELSE c.id2,
                      !.arg2 = IF c.cmd = Group THEN c.arg2 ELSE 0]
  IN  IF c.cmd # Pair THEN id
      ELSE [id EXCEPT !.arg0 = 0, !.arg1 = 0, !.param = IF k.fixed = 0 THEN 0 ELSE c.param]

Carried(codec, c) ==
  CASE codec \in V1Codecs -> V1Carried(c, V1Codec(codec))
    [] codec = "agarce" /\ c.cmd = 0 -> [c EXCEPT !.arg1 = 0, !.arg2 = 0]
    [] codec = "agarce_vr" ->
         [c EXCEPT !.arg0 = IF c.arg0 = 0 THEN c.tx (+) c.cmd ELSE c.arg0,
                   !.arg1 = IF c.arg1 = 0 THEN 255 ELSE c.arg1]
    [] codec = "le" -> [c EXCEPT !.arg0 = IF c.param < 1 THEN 0 ELSE c.arg0,
                                 !.arg1 = IF c.param < 2 THEN 0 ELSE c.arg1,
                                 !.arg2 = IF c.param < 3 THEN 0 ELSE c.arg2]
    [] OTHER -> c
=============================================================================
