------------------------------ MODULE QueueItem ------------------------------
(***************************************************************************)
(* The items of an adapter's queues: class BleAdvQueueItem of              *)
(* adapters/__init__.py, with the splitting of its repetitions into        *)
(* pieces an adapter can advertise in one go.                              *)
(*                                                                         *)
(* The bytes to advertise are abstracted to their number (cmd.data); a     *)
(* piece (BleAdvAdapterAdvItem) is abstracted to its repeat count.         *)
(***************************************************************************)
EXTENDS Integers, Sequences

(***************************************************************************)
(* A request as its callers build it (coordinator.py 106 and 250): the     *)
(* repeat count and the interval are the user's (1..20 and 10..150 ms),    *)
(* and there is at least one raw advertisement.                            *)
(***************************************************************************)
Command(Keys) ==
  [key : Keys, repeat : Nat \ {0}, interval : Nat \ {0},
   data : Nat \ {0}, delay_after : Nat]

\* A queued item: what is left to advertise, and the delay that follows.
Item(Keys) == [key : Keys, advs : Seq(Nat \ {0}), delay_after : Nat]

-----------------------------------------------------------------------------

\* Mutated form: one repetition too many.
MaxRepeatTooLong(interval, bunch) ==
  IF bunch \div interval >= 1 THEN (bunch \div interval) + 1 ELSE 1

\* adapter_max_repeat: how many repetitions fit in one bunch, at least one.
MaxRepeat(interval, bunch) ==
  IF bunch \div interval >= 1 THEN bunch \div interval ELSE 1

\* The repetitions cut in full bunches, and the remaining ones.
Repeats(repeat, max) ==
  [i \in 1..((repeat \div max) + (IF repeat % max > 0 THEN 1 ELSE 0)) |->
     IF i <= repeat \div max THEN max ELSE repeat % max]

\* Several advertisements are sent in turn, so they are not repeated.
Repeat(cmd) == IF cmd.data = 1 THEN cmd.repeat ELSE 1

\* Every advertisement of the command, each with all its pieces.
Advs(cmd, bunch) ==
  LET reps == Repeats(Repeat(cmd), MaxRepeat(cmd.interval, bunch))
  IN  [i \in 1..(cmd.data * Len(reps)) |-> reps[((i - 1) % Len(reps)) + 1]]

\* The item that is queued for a command, split for the adapter.
NewItem(cmd, bunch) ==
  [key |-> cmd.key, advs |-> Advs(cmd, bunch), delay_after |-> cmd.delay_after]

HasNext(item) == item.advs # <<>>

\* What is left of an item after get_next.
AfterNext(item) ==
  IF HasNext(item)
  THEN [key |-> item.key, advs |-> Tail(item.advs), delay_after |-> item.delay_after]
  ELSE item

\* A queue without its item of the given key. The code filters the whole list;
\* a queue never holds two items of one key (KeyUnique in AdapterQueue), so at
\* most one item goes.
Without(queue, key) ==
  LET same == {i \in DOMAIN queue : queue[i].key = key}
      i    == CHOOSE j \in same : TRUE
  IN  IF same = {} THEN queue
      ELSE SubSeq(queue, 1, i - 1) \o SubSeq(queue, i + 1, Len(queue))

\* The queue once an item is added: a keyed item first drops the one it replaces.
Enqueued(queue, item, noKey) ==
  Append(IF item.key = noKey THEN queue ELSE Without(queue, item.key), item)

\* No two items of the queue have the same key, noKey apart.
OnePerKey(queue, noKey) ==
  \A i, j \in DOMAIN queue :
    queue[i].key = queue[j].key /\ i # j => queue[i].key = noKey
=============================================================================
