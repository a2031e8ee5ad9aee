------------------------------ MODULE MCSetup ------------------------------
EXTENDS Setup

MCMigrating ==
  [plain |-> <<"plain", "none">>, remote_v2 |-> <<"base", "p1">>,
   zhijia_v2_fl |-> <<"zhijia_v2_fl", "none">>]

NoCodec == [old |-> {}, codec |-> {}, params |-> {}]

\* Where each version kept the adapter, the codecs and the repetitions (tests/test_init.py).
MCLegacy ==
  {[version |-> v, name |-> extra, remAdapter |-> extra,
    devAdapter  |-> IF v = 1 THEN {"a1"} ELSE {},
    techAdapter |-> IF v \in 2 .. 4 THEN {"a1"} ELSE {},
    adapterIds  |-> IF v > 4 THEN ids ELSE {},
    fans |-> n, lights |-> n,
    refresh |-> IF v < 4 THEN {extra} ELSE {},
    useDir |-> TRUE, useOsc |-> FALSE, startDir |-> {}, startOsc |-> {},
    repeat |-> {2}, repeats |-> IF v > 5 THEN {5} ELSE {},
    dev |-> IF v < 7 THEN [NoCodec EXCEPT !.old = {c}] ELSE
              [old |-> {}, codec |-> {MCMigrating[c][1]}, params |-> {MCMigrating[c][2]}],
    remote |-> IF r = "none" THEN {} ELSE
                 IF v < 7 THEN {[NoCodec EXCEPT !.old = {r}]} ELSE
                   {[old |-> {}, codec |-> {MCMigrating[r][1]}, params |-> {MCMigrating[r][2]}]},
    transSet |-> {}] :
     v \in {1, 2, 6, 7}, extra \in BOOLEAN, ids \in {{"a1"}, {"a1", "a2"}}, n \in {1, 3},
     c \in DOMAIN MCMigrating, r \in {"none", "plain", "remote_v2"}}
=============================================================================
