------------------------------ MODULE CodecModel ------------------------------
(***************************************************************************)
(* What every codec does around its format (codecs/models.py): the counts  *)
(* that make a command new, and, for the remotes that count while a button *)
(* is held, what is kept of a command given the one before                 *)
(* (fanlamp.py: consolidate; coordinator.py: _publish_to_devices).         *)
(***************************************************************************)
EXTENDS Integers

\* app_restart_count is counted up to here.
RestartMax == 255

\* BleAdvConfig: the counts of a device nothing was sent to.
FirstCount == [tx |-> 0, restart |-> 1]

\* Mutated form: the second count is forgotten when the first one wraps.
NextCountNoRestart(count, step, max) ==
  [count EXCEPT !.tx = (count.tx + step) % max]

\* encode_advs: the counts of the next command.
NextCount(count, step, max) ==
  LET tx == (count.tx + step) % max
  IN  [tx |-> tx,
       restart |-> IF tx = 0 THEN (count.restart + 1) % RestartMax ELSE count.restart]

-----------------------------------------------------------------------------
\* What the remote says: the button, whether it is a ramp (arg2), and a count (arg3)
\* that grows while the button is held.
Heard(button, ramp, count) == [button |-> button, ramp |-> ramp, count |-> count]

NoneHeard == Heard("none", FALSE, 0)

\* What consolidate answers for a command to discard.
Discarded == Heard("discarded", FALSE, 0)

\* consolidate: a ramp goes by the difference, another button counts once.
Consolidated(cmd, prev) ==
  IF cmd.button # prev.button THEN cmd
  ELSE IF ~cmd.ramp THEN (IF cmd.count > prev.count THEN Discarded ELSE cmd)
  ELSE IF cmd.count > prev.count THEN [cmd EXCEPT !.count = @ - prev.count]
  ELSE IF cmd.count = prev.count THEN Discarded ELSE cmd

\* Mutated form: consolidate works on the command itself and not on a copy.
PrevCmdAltered(cmd, prev) ==
  IF Consolidated(cmd, prev) = Discarded THEN cmd ELSE Consolidated(cmd, prev)

\* prev_cmd once the command is published: as it was received.
PrevCmd(cmd, prev) == cmd
=============================================================================
