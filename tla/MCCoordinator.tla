---------------------------- MODULE MCCoordinator ----------------------------
(***************************************************************************)
(* Instances of Coordinator for TLC. d1 listens to a lamp and to a remote, *)
(* and so does d2. The payload "v" is the lamp's (two raws), "w" and "x"   *)
(* are the remote's, whose commands are numbered and carry no transmission *)
(* count, and no codec decodes "u". With dupes, the codec of the remote    *)
(* decodes "v" too, and d2 listens to another remote only.                 *)
(***************************************************************************)
EXTENDS Coordinator, TLC

CONSTANT Dupes   \* whether a payload may be decoded by two codecs

C(id, stamp, cmd, count) == [id |-> id, stamp |-> stamp, cmd |-> cmd, count |-> count]

MCInner ==
  LET inner == ("v1" :> "v") @@ ("v2" :> "v") @@ ("w1" :> "w") @@ ("x1" :> "x") @@ ("u1" :> "u")
  IN [r \in Raw |-> inner[r]]

MCMatchId == [c \in Codec |-> c]

MCConf ==
  ("v" :> IF Dupes THEN ("lamp" :> C(1, 5, "on", 0)) @@ ("fan" :> C(1, 5, "on", 0))
                   ELSE ("lamp" :> C(1, 5, "on", 0)))
  @@ ("w" :> ("fan" :> C(2, 0, "toggle", 1)))
  @@ ("x" :> ("fan" :> C(2, 0, "toggle", 2)))
  @@ ("u" :> << >>)

MCListens ==
  LET both == {[match |-> "lamp", id |-> 1], [match |-> "fan", id |-> 2]} IN
  ("d1" :> both) @@ ("d2" :> IF Dupes THEN {[match |-> "fan", id |-> 3]} ELSE both)

MCAdaptersOf == ("d1" :> {"a1"}) @@ ("d2" :> {"a1", "a2"} \cap Adapter)

MCIgnDur == ("lamp" :> 2) @@ ("fan" :> 1)
=============================================================================
