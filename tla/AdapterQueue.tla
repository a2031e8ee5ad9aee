---------------------------- MODULE AdapterQueue ----------------------------
(***************************************************************************)
(* The queues of one advertising adapter: class BleAdvAdapter of           *)
(* adapters/__init__.py.                                                   *)
(*                                                                         *)
(* One task, _dequeue, picks the next piece to advertise among the queues  *)
(* in round robin, waits for it to be advertised, holds its queue back for *)
(* the delay of the item if it was the last piece, and starts again. The   *)
(* coordinator enqueues, the unlock timers release the queues, and the     *)
(* manager ends the adapter, at any await of the task.                     *)
(*                                                                         *)
(* asyncio runs a task from one suspension to the next as one step, and so *)
(* does this module. The bodies of `async with self._lock` contain no      *)
(* await, so the lock is always free and taking it does not suspend; nor   *)
(* does waiting for an event that is set. The task is therefore suspended  *)
(* only in _add_event.wait() (pc = "wait"), in _advertise ("adv") and in   *)
(* _on_error ("error").                                                    *)
(***************************************************************************)
EXTENDS QueueItem, FiniteSets

CONSTANTS
  QueueIds,    \* the queue identifiers (one per device, or the user's choice)
  Keys,        \* the keys of the commands, with NoKey
  NoKey,       \* the key None: the command replaces nothing
  Commands,    \* the commands that may be enqueued
  Bunch,       \* _bunch_adv_time in ms (60 for HCI, 100 for ESPHome)
  MaxQueue     \* bound: the items enqueued at the same time in one queue

ASSUME QueueAssumption ==
  /\ NoKey \in Keys
  /\ Commands \subseteq Command(Keys)
  /\ Bunch \in Nat \ {0}
  /\ MaxQueue \in Nat \ {0}

VARIABLES
  processing,  \* _processing
  event,       \* _add_event is set
  order,       \* the queue identifiers in order of creation (_queues_index, _qlen)
  queues,      \* queues[q]: the items of _queues[_queues_index[q]]
  locked,      \* the queues whose entry of _locked_tasks is a task
  curInd,      \* _cur_ind
  lockDelay,   \* lock_delay, the local variable of _dequeue
  advGoing,    \* _advertise_on_going
  pc,          \* where the _dequeue task is
  onAir,       \* auxiliary: the queue of the piece being advertised, or {}
  failed,      \* auxiliary: the last piece failed, and _on_error was called
  bypass       \* auxiliary: pieces of other queues served since q could be

vars == <<processing, event, order, queues, locked, curInd, lockDelay,
          advGoing, pc, onAir, failed, bypass>>

Created == {order[i] : i \in DOMAIN order}

TypeOK ==
  /\ processing \in BOOLEAN
  /\ event \in BOOLEAN
  /\ order \in Seq(QueueIds)
  /\ queues \in [QueueIds -> Seq(Item(Keys))]
  /\ locked \in SUBSET QueueIds
  /\ curInd \in -1 .. (Len(order) - 1)
  /\ lockDelay \in Nat
  /\ advGoing \in BOOLEAN
  /\ pc \in {"none", "start", "wait", "adv", "error", "done"}
  /\ onAir \in SUBSET QueueIds
  /\ failed \in BOOLEAN
  /\ bypass \in [QueueIds -> Nat]

Init ==
  /\ processing = FALSE
  /\ event = FALSE
  /\ order = <<>>
  /\ queues = [q \in QueueIds |-> <<>>]
  /\ locked = {}
  /\ curInd = -1
  /\ lockDelay = 0
  /\ advGoing = FALSE
  /\ pc = "none"
  /\ onAir = {}
  /\ failed = FALSE
  /\ bypass = [q \in QueueIds |-> 0]

-----------------------------------------------------------------------------
(***************************************************************************)
(* One pass of the loop of _dequeue over the queues, given the table of    *)
(* locked queues.                                                          *)
(***************************************************************************)

\* A queue the pass may take a piece from.
Ready(q, lk) == q \notin lk /\ queues[q] # <<>>

\* Mutated form: every pass starts from the first queue again.
IndexFromFirst(k) == (k - 1) % Len(order)

\* The value of _cur_ind at the k-th turn of the pass.
Index(k) == (curInd + k) % Len(order)

\* The queue looked at in the k-th turn.
At(k) == order[Index(k) + 1]

\* Turn k is the first one that finds a queue to serve.
FirstReady(k, lk) ==
  /\ Ready(At(k), lk)
  /\ \A j \in 1 .. (k - 1) : ~Ready(At(j), lk)

\* Mutated form: the delay is applied after every piece.
LockDelayEachPiece(item) == item.delay_after

\* The delay to apply once the piece taken from the item is advertised.
LockDelay(item) == IF HasNext(AfterNext(item)) THEN 0 ELSE item.delay_after

\* The queue after get_next on its head, removed when nothing remains of it.
Popped(queue) ==
  LET left == AfterNext(Head(queue))
  IN  IF HasNext(left) THEN <<left>> \o Tail(queue) ELSE Tail(queue)

\* The pass finds a queue and takes the next piece of its head. An item without
\* a piece would be dropped, the pass ending with nothing to advertise and the
\* event cleared (NoEmptyItem says that there is none).
Serve(lk) ==
  \E k \in 1 .. Len(order) :
    LET q     == At(k)
        item  == Head(queues[q])
        piece == HasNext(item)
    IN
    /\ FirstReady(k, lk)
    /\ curInd' = Index(k)
    /\ queues' = [queues EXCEPT ![q] = Popped(@)]
    /\ event' = FALSE
    /\ lockDelay' = IF piece THEN LockDelay(item) ELSE 0
    /\ advGoing' = piece
    /\ pc' = IF piece THEN "adv" ELSE IF processing THEN "wait" ELSE "done"
    /\ onAir' = IF piece THEN {q} ELSE {}
    /\ bypass' = [p \in QueueIds |->
                    IF p # q /\ Ready(p, lk) THEN bypass[p] + 1 ELSE 0]

\* The pass finds nothing: it has cleared the event, so the task waits, or
\* stops if the adapter was ended meanwhile.
Rest(lk) ==
  /\ \A q \in Created : ~Ready(q, lk)
  /\ curInd' = IF order = <<>> THEN curInd ELSE Index(Len(order))
  /\ event' = FALSE
  /\ lockDelay' = 0
  /\ advGoing' = FALSE
  /\ pc' = IF processing THEN "wait" ELSE "done"
  /\ onAir' = {}
  /\ UNCHANGED <<queues, bypass>>

Pass(lk) == Serve(lk) \/ Rest(lk)

\* The head of the loop: the task stops, waits for the event, or goes through
\* a set event to the next pass. A task that stops leaves advGoing as it is.
Loop(lk, ev) ==
  \/ /\ ~processing
     /\ pc' = "done"
     /\ event' = ev
     /\ onAir' = {}
     /\ UNCHANGED <<queues, curInd, lockDelay, advGoing, bypass>>
  \/ /\ processing /\ ~ev
     /\ pc' = "wait"
     /\ event' = FALSE
     /\ lockDelay' = 0
     /\ advGoing' = FALSE
     /\ onAir' = {}
     /\ UNCHANGED <<queues, curInd, bypass>>
  \/ /\ processing /\ ev
     /\ Pass(lk)

-----------------------------------------------------------------------------
\* async_init, once open() has succeeded: the task is created.
AsyncInit ==
  /\ pc = "none"
  /\ processing' = TRUE
  /\ pc' = "start"
  /\ UNCHANGED <<event, order, queues, locked, curInd, lockDelay, advGoing,
                 onAir, failed, bypass>>

\* enqueue, called by the coordinator on the adapters its managers have registered:
\* they are initialised, but one may be ended already (CallbackFail in HciManager),
\* which enqueue does not look at. MaxQueue is the model's bound.
Enqueue(q, cmd) ==
  /\ pc # "none"
  /\ Len(queues[q]) < MaxQueue
  /\ order' = IF q \in Created THEN order ELSE Append(order, q)
  /\ queues' = [queues EXCEPT ![q] = Enqueued(@, NewItem(cmd, Bunch), NoKey)]
  /\ event' = TRUE
  /\ UNCHANGED <<processing, locked, curInd, lockDelay, advGoing, pc, onAir,
                 failed, bypass>>

\* The task created by async_init starts to run.
DequeueStart ==
  /\ pc = "start"
  /\ Loop(locked, event)
  /\ UNCHANGED <<processing, order, locked, failed>>

\* The task returns from _add_event.wait().
DequeueWake ==
  /\ pc = "wait"
  /\ event
  /\ Pass(locked)
  /\ UNCHANGED <<processing, order, locked, failed>>

\* _queues[_cur_ind]: the index -1 of an ended adapter is that of the last queue.
Current == order[IF curInd < 0 THEN Len(order) ELSE curInd + 1]

\* _lock_queue_for(_cur_ind, lock_delay): the locked queues after a piece.
LockedAfter == IF lockDelay = 0 THEN locked ELSE locked \cup {Current}

\* _advertise returns: the queue is locked, and the loop goes on with the event ev.
\* When the adapter was ended meanwhile and got no command since, _locked_tasks is
\* empty: locking raises IndexError, which AdvertiseFail stands for.
AdvertiseDoneWith(ev) ==
  /\ pc = "adv"
  /\ lockDelay # 0 => order # <<>>
  /\ locked' = LockedAfter
  /\ failed' = FALSE
  /\ Loop(LockedAfter, ev)
  /\ UNCHANGED <<processing, order>>

\* Mutated form: the task forgets to set the event after a piece.
AdvertiseDoneNoEvent == AdvertiseDoneWith(event)

\* The event is set once a piece is advertised, for the next pass to happen.
AdvertiseDone == AdvertiseDoneWith(TRUE)

\* _advertise raises, or lasts more than MAX_ADV_WAIT, or locking raises: no
\* lock is taken, the event is not set, and _on_error is awaited.
AdvertiseFail ==
  /\ pc = "adv"
  /\ pc' = "error"
  /\ failed' = TRUE
  /\ onAir' = {}
  /\ UNCHANGED <<processing, event, order, queues, locked, curInd, lockDelay,
                 advGoing, bypass>>

\* _on_error returns. Its effect on the adapter, if any, is an AsyncFinal by the
\* manager, at once (ESPHome) or later (HCI).
ErrorHandled ==
  /\ pc = "error"
  /\ Loop(locked, event)
  /\ UNCHANGED <<processing, order, locked, failed>>

\* The lock of a queue is released, the event being ev.
UnlockQueueWith(q, ev) ==
  /\ q \in locked
  /\ locked' = locked \ {q}
  /\ event' = ev
  /\ UNCHANGED <<processing, order, queues, curInd, lockDelay, advGoing, pc,
                 onAir, failed, bypass>>

\* Mutated form: releasing a queue does not wake the task up.
UnlockQueueSilent(q) == UnlockQueueWith(q, event)

\* _unlock_queue, after its delay. The timers still running when the adapter is
\* ended are left out: they raise IndexError in their own task, or release a queue
\* of an adapter whose task is about to stop.
UnlockQueue(q) == UnlockQueueWith(q, TRUE)

\* async_final, by the manager: also when open() failed and there is no task
\* (pc = "none"), and again by the next clean-up when the adapter stays registered.
\* Adapters are not initialised again: managers create new ones.
AsyncFinalWith(ev, ind) ==
  /\ processing' = FALSE
  /\ curInd' = ind
  /\ order' = <<>>
  /\ queues' = [q \in QueueIds |-> <<>>]
  /\ locked' = {}
  /\ event' = ev
  /\ pc' = IF pc = "none" THEN "done" ELSE pc
  /\ bypass' = [q \in QueueIds |-> 0]
  /\ UNCHANGED <<lockDelay, advGoing, onAir, failed>>

\* The index of the round robin is reset and the task woken up.
AsyncFinal == AsyncFinalWith(TRUE, -1)

Next ==
  \/ AsyncInit
  \/ \E q \in QueueIds, cmd \in Commands : Enqueue(q, cmd)
  \/ DequeueStart
  \/ DequeueWake
  \/ AdvertiseDone
  \/ AdvertiseFail
  \/ ErrorHandled
  \/ \E q \in QueueIds : UnlockQueue(q)
  \/ AsyncFinal

SafeSpec == Init /\ [][Next]_vars

\* The event loop runs the task when it is ready, wait_for bounds _advertise,
\* the error callbacks return, and the sleep of an unlock timer ends.
Fairness ==
  /\ WF_vars(DequeueStart \/ DequeueWake \/ ErrorHandled)
  /\ WF_vars(AdvertiseDone \/ AdvertiseFail)
  /\ \A q \in QueueIds : WF_vars(UnlockQueue(q))

Spec == SafeSpec /\ Fairness

-----------------------------------------------------------------------------
(***************************************************************************)
(* Properties.                                                             *)
(***************************************************************************)

\* A queue holds at most one command per key: a newer command of a device
\* replaces the older one that is still waiting (enqueue).
KeyUnique == \A q \in QueueIds : OnePerKey(queues[q], NoKey)

\* Every queued item has something left to advertise: otherwise a pass would
\* drop it, clear the event, and leave the other queues waiting (_dequeue).
NoEmptyItem ==
  \A q \in QueueIds : \A i \in DOMAIN queues[q] : HasNext(queues[q][i])

\* No lost wake-up: the task never sleeps on a cleared event while a queue could
\* be served, unless its last piece failed and it has called _on_error.
NoLostWakeup ==
  pc = "wait" /\ ~event /\ ~failed => \A q \in QueueIds : ~Ready(q, locked)

\* Round robin: while a queue can be served, each of the other queues is served
\* at most once before it, however the commands arrive.
BoundedBypass ==
  \A q \in QueueIds : queues[q] # <<>> => bypass[q] < Len(order)

(***************************************************************************)
(* The inductive invariant behind them (see AdapterQueueProofs).           *)
(***************************************************************************)

\* The index table: one entry per queue, no other queue holds or locks anything, and
\* an adapter that never ran has none.
IndexOK ==
  /\ \A i, j \in DOMAIN order : order[i] = order[j] => i = j
  /\ \A q \in QueueIds : queues[q] # <<>> => q \in Created
  /\ locked \subseteq Created
  /\ pc = "none" => order = <<>>

\* Where the task is, what it has put on the air, and what drain sees of it.
TaskOK ==
  /\ pc \in {"none", "done"} => ~processing
  /\ pc # "adv" => onAir = {}
  /\ pc = "none" => ~advGoing
  /\ processing /\ pc = "adv" => curInd >= 0 /\ onAir = {order[curInd + 1]}
  /\ processing => (advGoing <=> pc \in {"adv", "error"})
  /\ pc = "error" => failed
  /\ pc = "start" /\ ~event => \A q \in QueueIds : queues[q] = <<>>

\* How far the round robin has gone since the queue of rank i was served.
Distance(i) ==
  IF curInd >= i - 1 THEN curInd - (i - 1) ELSE curInd - (i - 1) + Len(order)

\* A queue is bypassed at most once per queue the round robin has gone over.
BypassOK ==
  /\ \A i \in DOMAIN order : bypass[order[i]] <= Distance(i)
  /\ \A q \in QueueIds \ Created : bypass[q] = 0

\* The inductive invariant: it holds initially, every step preserves it, and it
\* implies the safety properties above and below (async code of BleAdvAdapter).
IInv ==
  /\ TypeOK
  /\ KeyUnique
  /\ NoEmptyItem
  /\ IndexOK
  /\ TaskOK
  /\ BypassOK
  /\ NoLostWakeup

\* Mutated form: drain looks at the queues only.
DrainedQueuesOnly == \A q \in Created : queues[q] = <<>>

\* The condition on which drain returns.
Drained ==
  /\ \A q \in Created : queues[q] = <<>>
  /\ ~advGoing
  /\ locked = {}

\* drain returns only once nothing is left: no piece is on the air and none of the
\* queues can come back, whatever the timers do.
DrainSound == Drained /\ processing => onAir = {} /\ pc \in {"start", "wait"}

\* Every queue with a pending item is eventually served, unless a piece fails or
\* the adapter is ended.
EveryQueueServed ==
  \A q \in QueueIds :
    queues[q] # <<>> ~> q \in onAir \/ failed \/ ~processing

\* The service the adapter gives to the devices, from the state of its queues. What
\* an ended adapter is given is lost.
Service == INSTANCE AdapterService WITH
  phase     <- IF processing THEN "up" ELSE IF pc = "none" THEN "new" ELSE "closed",
  pending   <- IF processing THEN queues ELSE [q \in QueueIds |-> <<>>],
  held      <- IF processing THEN locked ELSE {},
  air       <- IF processing THEN onAir ELSE {},
  holdAfter <- processing /\ pc = "adv" /\ lockDelay # 0

\* The adapter implements the service: per-queue order, one piece at a time, the
\* delay of each item respected by its own queue, no idling between two pieces.
Implements == Service!Spec
=============================================================================
