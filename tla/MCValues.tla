------------------------------- MODULE MCValues -------------------------------
(***************************************************************************)
(* Instances of Values for TLC: the commands that each codec is tried on.  *)
(***************************************************************************)
EXTENDS Values, TLC

CONSTANT Bytes  \* the values of a byte tried

\* Commands that each codec is used for.
Cmds(codec) ==
  CASE codec \in V1Codecs                               -> {16, 34, 40}
    [] codec \in {"zhijia_v0", "zhimei_v1", "zhimei_v2"} -> {180, 165}
    [] codec \in {"zhijia_v1", "zhijia_v2", "zhijia_vr1"} -> {162, 179}
    [] codec \in {"fanlamp_r0", "fanlamp_r1"}            -> {4, 16}
    [] codec = "agarce"                                  -> {0, 16, 128}
    [] codec = "remote"                                  -> {8, 63}
    [] codec = "le"                                      -> {0, 8}
    [] OTHER                                             -> {1, 16, 40, 251}

\* The values of a field that are tried with a codec.
Values(codec, field) ==
  CASE codec \in V1Codecs \cup {"fanlamp_r0", "fanlamp_r1"} /\ field = "index" -> {0, 1, 15}
    [] codec \in V1Codecs \cup {"fanlamp_r0", "fanlamp_r1"} /\ field = "id1"   -> {0, 16, 240}
    [] codec = "remote" /\ field = "arg1" -> {0, 64, 192}
    [] codec = "le" /\ field = "param" -> 0 .. 3
    [] OTHER -> Bytes

\* Every value of every two fields, the others left at their first value.
MCTried ==
  [codec \in Codecs |->
     UNION {{[Nothing EXCEPT !.cmd = cmd, !.param = IF codec = "le" THEN 3 ELSE 0,
                             ![f] = v, ![g] = w]
               : cmd \in Cmds(codec), v \in Values(codec, f), w \in Values(codec, g)}
            : f, g \in Room(codec)}]

-----------------------------------------------------------------------------
\* The codec of rw.py with an identifier of four bytes, as an application may have.
InitRw ==
  /\ task = "frame"
  /\ \E arg \in Bytes, id \in Bytes : LET c == [Nothing EXCEPT !.cmd = 1, !.arg1 = arg, !.id3 = id]
     IN  input = [codec |-> "rw", c |-> c] /\ work = From("rw", c)
  /\ out = <<>>

RwSpec == InitRw /\ [][ReadBack]_vars
=============================================================================
