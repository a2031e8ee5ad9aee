--------------------------- MODULE AdapterService ---------------------------
(***************************************************************************)
(* What an advertising adapter promises to the devices that use it,        *)
(* without its event, its task, its round robin or its index tables: one   *)
(* FIFO per queue identifier, one piece on the air at a time, a queue held *)
(* back for the delay of the item it has just finished, and no idling      *)
(* between two pieces while some queue could be served.                    *)
(* AdapterQueue is shown to implement it.                                  *)
(***************************************************************************)
EXTENDS QueueItem

CONSTANTS
  QueueIds,    \* queue identifiers: one per device
  Commands,    \* the commands submitted
  NoKey,       \* the key of a command that replaces nothing
  Bunch,       \* the longest time of a piece, in ms
  MaxQueue     \* bound on the length of a queue

VARIABLES
  phase,       \* "new", "up" or "closed"
  pending,     \* pending[q]: the items of queue q not advertised yet
  held,        \* the queues held back by the delay of their last item
  air,         \* the queue being served: {} or {q}
  holdAfter    \* the piece on the air ends an item with a delay

vars == <<phase, pending, held, air, holdAfter>>

-----------------------------------------------------------------------------
Init ==
  /\ phase = "new"
  /\ pending = [q \in QueueIds |-> <<>>]
  /\ held = {}
  /\ air = {}
  /\ holdAfter = FALSE

Open ==
  /\ phase = "new"
  /\ phase' = "up"
  /\ UNCHANGED <<pending, held, air, holdAfter>>

\* A keyed command takes the place of the pending one with the same key.
Submit(q, cmd) ==
  /\ phase = "up"
  /\ Len(pending[q]) < MaxQueue
  /\ pending' = [pending EXCEPT ![q] = Enqueued(@, NewItem(cmd, Bunch), NoKey)]
  /\ UNCHANGED <<phase, held, air, holdAfter>>

\* The queues held once the piece on the air, if any, is done.
HeldNext == IF holdAfter THEN held \cup air ELSE held

CanServe(q) == q \notin HeldNext /\ pending[q] # <<>>

\* The piece on the air, if any, ends, and the next piece of q starts.
Serve(q) ==
  /\ phase = "up"
  /\ CanServe(q)
  /\ air' = {q}
  /\ held' = HeldNext
  /\ LET item == Head(pending[q])
         left == Tail(item.advs)
     IN  /\ pending' = [pending EXCEPT ![q] =
                          (IF left = <<>> THEN <<>>
                           ELSE <<[item EXCEPT !.advs = left]>>) \o Tail(@)]
         /\ holdAfter' = (left = <<>> /\ item.delay_after # 0)
  /\ UNCHANGED phase

\* The piece on the air ends, and no queue can be served.
Settle ==
  /\ phase = "up"
  /\ air # {}
  /\ \A q \in QueueIds : ~CanServe(q)
  /\ air' = {}
  /\ held' = HeldNext
  /\ holdAfter' = FALSE
  /\ UNCHANGED <<phase, pending>>

\* The piece on the air fails; its delay is not applied.
Fault ==
  /\ phase = "up"
  /\ air # {}
  /\ air' = {}
  /\ holdAfter' = FALSE
  /\ UNCHANGED <<phase, pending, held>>

Release(q) ==
  /\ q \in held
  /\ held' = held \ {q}
  /\ UNCHANGED <<phase, pending, air, holdAfter>>

\* Everything pending is dropped.
Close ==
  /\ phase # "closed"
  /\ phase' = "closed"
  /\ pending' = [q \in QueueIds |-> <<>>]
  /\ held' = {}
  /\ air' = {}
  /\ holdAfter' = FALSE

Next ==
  \/ Open
  \/ \E q \in QueueIds, cmd \in Commands : Submit(q, cmd)
  \/ \E q \in QueueIds : Serve(q)
  \/ Settle
  \/ Fault
  \/ \E q \in QueueIds : Release(q)
  \/ Close

Spec == Init /\ [][Next]_vars
=============================================================================
