--------------------------- MODULE MCAdapterQueue ---------------------------
(***************************************************************************)
(* Instances of AdapterQueue for TLC.                                      *)
(***************************************************************************)
EXTENDS AdapterQueue, TLC

CONSTANTS k1, k2

\* 60 ms per piece, as for an HCI adapter: at 20 ms, 4 repetitions make a piece of
\* 3 and one of 1; two advertisements make two pieces.
MCCommand(key, repeat, data, delay) ==
  [key |-> key, repeat |-> repeat, interval |-> 20, data |-> data,
   delay_after |-> delay]

\* Commands of one and two pieces, of one and several advertisements, with and without
\* a key and a delay.
FourKinds ==
  {MCCommand(k1, 4, 1, 100), MCCommand(k1, 2, 1, 0), MCCommand(NoKey, 2, 1, 0),
   MCCommand(k2, 4, 2, 100)}
=============================================================================
