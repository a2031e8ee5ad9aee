----------------------------- MODULE HciManager -----------------------------
(***************************************************************************)
(* The manager of the local Bluetooth controllers: BleAdvBtHciManager of   *)
(* adapters/__init__.py, with the registry of BleAdvBtManager and what the *)
(* coordinator shows of it to the devices.                                 *)
(*                                                                         *)
(* Two activities run _async_init_retry: the initialisation, awaited by    *)
(* the coordinator ("init"), and the reconnection task that an event or an *)
(* error starts ("refresh"). Each is suspended in the management commands  *)
(* ("list", then "names"), in the opening of an adapter ("open") or in a   *)
(* sleep ("mgmt", "again", and "pause" before a reconnection). The clean-up*)
(* of async_final suspends nowhere.                                        *)
(*                                                                         *)
(* The adapter being opened is not chosen when its opening starts but when *)
(* it ends, or when its reception ends before that: nothing else depends   *)
(* on it in between.                                                       *)
(***************************************************************************)
EXTENDS Naturals, FiniteSets

CONSTANTS
  Adapters,         \* the controllers that may be plugged
  NbInitRetry,      \* NB_INIT_RETRY
  NbRefreshRetry,   \* the retries of a reconnection (300 in the code)
  MaxFaults         \* bound: the faults and changes of the environment

ASSUME HciAssumption ==
  /\ NbInitRetry \in Nat \ {0}
  /\ NbRefreshRetry \in Nat \ {0}
  /\ MaxFaults \in Nat

Flows == {"init", "refresh"}

NbRetry(f) == IF f = "init" THEN NbInitRetry ELSE NbRefreshRetry

VARIABLES
  present,       \* the controllers that are plugged
  pending,       \* an event of the management socket is not read yet
  mgmt,          \* _mgmt_sock: "closed", "open", or "broken" (by its peer)
  owner,         \* the activity that opened the current socket, as a set
  adapter,       \* _adapters: "none", "up", "deaf" (its reception has ended)
                 \* or "ended" (registered, but finalised)
  leaked,        \* adapters that run and are not registered any more
  late,          \* an adapter ended in the middle of a piece will report it
  shown,         \* the adapters the devices were last told to be available
  reconnecting,  \* _reconnecting
  pc,            \* where each activity is
  tries,         \* nb_retry_mgmt, then nb_retry_adapt, of each activity
  todo,          \* the adapters the round has still to open
  failed,        \* rem_failed_adapt: those that failed in the round
  unheard,       \* the adapter being opened, once its reception has ended, as a set
  stop,          \* "no", or what was going on when the coordinator ended
  overlap,       \* auxiliary: a refresh was started during the initialisation
  missed,        \* auxiliary: a refresh was asked for and dropped
  gaveUp,        \* auxiliary: the last activity ran out of retries
  faults         \* auxiliary: the faults and changes so far

env  == <<present, pending>>
sock == <<mgmt, owner>>
reg  == <<adapter, leaked, late, shown>>
work == <<tries, todo, failed, unheard>>
aux  == <<stop, overlap, missed, gaveUp, faults>>
vars == <<env, sock, reg, reconnecting, pc, work, aux>>

Registered == {a \in Adapters : adapter[a] # "none"}

\* The adapters whose object runs: their task and their socket are alive.
Running == {a \in Adapters : adapter[a] \in {"up", "deaf"}}

\* Where an activity may be.
PcValues ==
  {"idle", "start", "pause", "list", "names", "mgmt", "open", "again", "done"}

Active(f) == pc[f] \notin {"idle", "done"}

TypeOK ==
  /\ present \in SUBSET Adapters
  /\ pending \in BOOLEAN
  /\ mgmt \in {"closed", "open", "broken"}
  /\ owner \in SUBSET Flows
  /\ adapter \in [Adapters -> {"none", "up", "deaf", "ended"}]
  /\ leaked \in SUBSET Adapters
  /\ late \in BOOLEAN
  /\ shown \in SUBSET Adapters
  /\ reconnecting \in BOOLEAN
  /\ pc \in [Flows -> PcValues]
  /\ tries \in [Flows -> Nat]
  /\ todo \in [Flows -> SUBSET Adapters]
  /\ failed \in [Flows -> SUBSET Adapters]
  /\ unheard \in [Flows -> SUBSET Adapters]
  /\ stop \in {"no", "rest", "busy"}
  /\ overlap \in BOOLEAN
  /\ missed \in BOOLEAN
  /\ gaveUp \in BOOLEAN
  /\ faults \in 0 .. MaxFaults

Init ==
  /\ present \in SUBSET Adapters
  /\ pending = FALSE
  /\ mgmt = "closed"
  /\ owner = {}
  /\ adapter = [a \in Adapters |-> "none"]
  /\ leaked = {}
  /\ late = FALSE
  /\ shown = {}
  /\ reconnecting = FALSE
  /\ pc = [f \in Flows |-> "idle"]
  /\ tries = [f \in Flows |-> 0]
  /\ todo = [f \in Flows |-> {}]
  /\ failed = [f \in Flows |-> {}]
  /\ unheard = [f \in Flows |-> {}]
  /\ stop = "no"
  /\ overlap = FALSE
  /\ missed = FALSE
  /\ gaveUp = FALSE
  /\ faults = 0

-----------------------------------------------------------------------------
(***************************************************************************)
(* Pieces of the handlers.                                                 *)
(***************************************************************************)

\* Something happens that the program does not decide.
Fault == faults < MaxFaults /\ faults' = faults + 1

\* Mutated form: the clean-up forgets to clear the registry.
AsyncFinalKeepAdapters ==
  /\ mgmt' = "closed"
  /\ owner' = {}
  /\ pending' = FALSE
  /\ late' \in {late, late \/ Running # {}}
  /\ adapter' = [a \in Adapters |-> IF adapter[a] = "none" THEN "none" ELSE "ended"]
  /\ UNCHANGED <<present, leaked, shown>>

\* async_final: every registered adapter is finalised, the registry cleared, the
\* socket closed. An adapter ended while it advertises reports an error later.
\* The devices are told nothing.
AsyncFinal ==
  /\ mgmt' = "closed"
  /\ owner' = {}
  /\ pending' = FALSE
  /\ late' \in {late, late \/ Running # {}}
  /\ adapter' = [a \in Adapters |-> "none"]
  /\ UNCHANGED <<present, leaked, shown>>

\* _launch_refresh: dropped during a reconnection, else a task is created.
\* A refresh dropped before the reconnection has listed the adapters is harmless.
LaunchRefresh ==
  /\ reconnecting' = TRUE
  /\ pc' = IF reconnecting THEN pc ELSE [pc EXCEPT !["refresh"] = "start"]
  /\ missed' = (missed \/ (reconnecting /\ pc["refresh"] \in {"names", "open", "again"}))
  /\ overlap' = (overlap \/ (~reconnecting /\ Active("init")))

\* _async_init_retry returns, and with it the activity.
Finished(f) ==
  /\ pc' = [pc EXCEPT ![f] = IF f = "init" THEN "done" ELSE "idle"]
  /\ reconnecting' = (reconnecting /\ f # "refresh")

\* The activity goes on.
Goes(f, where) ==
  /\ pc' = [pc EXCEPT ![f] = where]
  /\ UNCHANGED reconnecting

\* The management loop, n attempts being left: _init_mgmt opens the socket again
\* even if it exists, or the activity gives up.
Connect(f, n) ==
  \/ /\ n > 0
     /\ tries' = [tries EXCEPT ![f] = n - 1]
     /\ mgmt' = "open"
     /\ owner' = {f}
     /\ pending' = FALSE
     /\ Goes(f, "list")
     /\ UNCHANGED gaveUp
  \/ /\ n = 0
     /\ gaveUp' = TRUE
     /\ Finished(f)
     /\ UNCHANGED <<tries, pending, sock>>

\* The end of one adapter's turn, rest being left in the round, bad having failed.
Turn(f, rest, bad) ==
  /\ todo' = [todo EXCEPT ![f] = rest]
  /\ failed' = [failed EXCEPT ![f] = bad]
  /\ unheard' = [unheard EXCEPT ![f] = {}]
  /\ \/ rest # {} /\ Goes(f, "open")
     \/ rest = {} /\ bad # {} /\ Goes(f, "again")
     \/ rest = {} /\ bad = {} /\ Finished(f)

\* The socket answers the commands of the activity.
Answers(f) == mgmt = "open" /\ f \in owner

-----------------------------------------------------------------------------
(***************************************************************************)
(* The activities.                                                         *)
(***************************************************************************)

\* async_init.
AsyncInit ==
  /\ pc["init"] = "idle"
  /\ Connect("init", NbInitRetry)
  /\ UNCHANGED <<present, reg, todo, failed, unheard, stop, overlap, missed, faults>>

\* _reacquire_connection starts: clean everything, then pause.
RefreshStart ==
  /\ pc["refresh"] = "start"
  /\ AsyncFinal
  /\ Goes("refresh", "pause")
  /\ gaveUp' = FALSE
  /\ UNCHANGED <<work, stop, overlap, missed, faults>>

\* The pause is over.
RefreshConnect ==
  /\ pc["refresh"] = "pause"
  /\ Connect("refresh", NbRefreshRetry)
  /\ UNCHANGED <<present, reg, todo, failed, unheard, stop, overlap, missed, faults>>

\* Mutated form: the pause is shorter than the timeout of a command.
ListReadEarly(f) ==
  /\ pc[f] = "list"
  /\ Answers(f)
  /\ todo' = [todo EXCEPT ![f] = present]
  /\ Goes(f, "names")
  /\ UNCHANGED <<env, sock, reg, tries, failed, unheard, aux>>

\* The index list is received. An adapter that was ended in the middle of a piece
\* has reported its error by then: the sleeps before an attempt (RECONNECT_RTO)
\* are as long as the timeout of an adapter's command (CMD_RTO), and the lock on
\* the management commands is held until a pending one times out.
ListRead(f) ==
  /\ pc[f] = "list"
  /\ ~late
  /\ Answers(f)
  /\ todo' = [todo EXCEPT ![f] = present]
  /\ Goes(f, "names")
  /\ UNCHANGED <<env, sock, reg, tries, failed, unheard, aux>>

\* The information of each controller is received: the first round starts.
NamesRead(f) ==
  /\ pc[f] = "names"
  /\ Answers(f)
  /\ tries' = [tries EXCEPT ![f] = NbRetry(f) - 1]
  /\ Turn(f, todo[f], {})
  /\ UNCHANGED <<env, sock, reg, aux>>

\* _init_mgmt raises (the socket is closed, a command times out or fails).
MgmtFail(f) ==
  /\ pc[f] \in {"list", "names"}
  /\ Answers(f) => Fault
  /\ ~Answers(f) => UNCHANGED faults
  /\ AsyncFinal
  /\ Goes(f, "mgmt")
  /\ UNCHANGED <<work, stop, overlap, missed, gaveUp>>

\* The next attempt, after the sleep.
MgmtRetry(f) ==
  /\ pc[f] = "mgmt"
  /\ Connect(f, tries[f])
  /\ UNCHANGED <<present, reg, todo, failed, unheard, stop, overlap, missed, faults>>

\* An adapter of that name that runs is replaced without being finalised.
Replaced(a) == IF a \in Running THEN leaked \cup {a} ELSE leaked

\* The adapter that the activity opens: the one whose reception has ended, if any.
Opening(f) == IF unheard[f] = {} THEN todo[f] ELSE unheard[f]

\* _add_adapter: the adapter is opened and registered, and the devices told.
OpenOk(f, a) ==
  /\ pc[f] = "open"
  /\ a \in Opening(f) \cap present
  /\ leaked' = Replaced(a)
  /\ adapter' = [adapter EXCEPT ![a] = IF a \in unheard[f] THEN "deaf" ELSE "up"]
  /\ shown' = shown \cup {a}
  /\ Turn(f, todo[f] \ {a}, failed[f])
  /\ UNCHANGED <<env, sock, late, tries, aux>>

\* The adapter does not open, because it is not there, because its commands are not
\* answered any more, or by accident.
OpenFail(f, a) ==
  /\ pc[f] = "open"
  /\ a \in Opening(f)
  /\ IF a \in present \ unheard[f] THEN Fault ELSE UNCHANGED faults
  /\ Turn(f, todo[f] \ {a}, failed[f] \cup {a})
  /\ UNCHANGED <<env, sock, reg, tries, stop, overlap, missed, gaveUp>>

\* _add_adapter raises after the registration, the adapter being left in the given
\* state, and bad being the adapters to open again.
CallbackFailWith(f, a, state, bad) ==
  /\ pc[f] = "open"
  /\ a \in Opening(f) \cap present
  /\ Fault
  /\ leaked' = Replaced(a)
  /\ adapter' = [adapter EXCEPT ![a] = state]
  /\ shown' \in {shown, shown \cup {a}}
  /\ Turn(f, todo[f] \ {a}, bad)
  /\ UNCHANGED <<env, sock, late, tries, stop, overlap, missed, gaveUp>>

\* Mutated form: the adapter that failed is not finalised.
CallbackFailRunning(f, a) == CallbackFailWith(f, a, "up", failed[f] \cup {a})

\* The adapter is opened and registered, but telling the devices raises: it is
\* finalised, stays in the registry, and is opened again in the next round.
CallbackFail(f, a) == CallbackFailWith(f, a, "ended", failed[f] \cup {a})

\* The next round over the failed adapters, after the sleep, if a try is left.
NextRound(f) ==
  /\ pc[f] = "again"
  /\ \/ /\ tries[f] > 0
        /\ tries' = [tries EXCEPT ![f] = @ - 1]
        /\ todo' = [todo EXCEPT ![f] = failed[f]]
        /\ failed' = [failed EXCEPT ![f] = {}]
        /\ Goes(f, "open")
        /\ UNCHANGED <<unheard, gaveUp>>
     \/ /\ tries[f] = 0
        /\ gaveUp' = TRUE
        /\ Finished(f)
        /\ UNCHANGED work
  /\ UNCHANGED <<env, sock, reg, stop, overlap, missed, faults>>

\* The coordinator ends the manager (end of Home Assistant). Neither activity is
\* cancelled.
Stop ==
  /\ stop = "no"
  /\ AsyncFinal
  /\ stop' = IF pc["init"] = "done" /\ ~reconnecting /\ leaked = {} /\ ~late'
             THEN "rest" ELSE "busy"
  /\ UNCHANGED <<reconnecting, pc, work, overlap, missed, gaveUp, faults>>

-----------------------------------------------------------------------------
(***************************************************************************)
(* The environment.                                                        *)
(***************************************************************************)

\* A controller is plugged or unplugged: the kernel sends an event.
Replug(a) ==
  /\ Fault
  /\ present' = IF a \in present THEN present \ {a} ELSE present \cup {a}
  /\ pending' = (pending \/ mgmt = "open")
  /\ UNCHANGED <<sock, reg, reconnecting, pc, work, stop, overlap, missed, gaveUp>>

\* Mutated form: the code of the event is not recognised.
MgmtEventIgnored ==
  /\ pending
  /\ pending' = FALSE
  /\ UNCHANGED <<present, sock, reg, reconnecting, pc, work, aux>>

\* _mgmt_recv on an event that tells of a change.
MgmtEvent ==
  /\ pending
  /\ pending' = FALSE
  /\ LaunchRefresh
  /\ UNCHANGED <<present, sock, reg, work, stop, gaveUp, faults>>

\* _mgmt_close: the management socket hangs up.
MgmtClose ==
  /\ mgmt = "open"
  /\ Fault
  /\ mgmt' = "broken"
  /\ pending' = FALSE
  /\ LaunchRefresh
  /\ UNCHANGED <<present, owner, reg, work, stop, gaveUp>>

\* _hci_adapter_error, from the reception of a registered adapter, which ends,
\* or from its task, a piece having failed.
HciAdapterError(a) ==
  /\ a \in Running
  /\ Fault
  /\ adapter' \in {adapter, [adapter EXCEPT ![a] = "deaf"]}
  /\ LaunchRefresh
  /\ UNCHANGED <<env, sock, leaked, late, shown, work, stop, gaveUp>>

\* _hci_adapter_error, from the reception of an adapter that is being opened: it ends
\* after async_start_recv and before the registration.
OpeningError(f, a) ==
  /\ pc[f] = "open" /\ unheard[f] = {}
  /\ a \in todo[f] \cap present
  /\ Fault
  /\ unheard' = [unheard EXCEPT ![f] = {a}]
  /\ LaunchRefresh
  /\ UNCHANGED <<env, sock, reg, tries, todo, failed, stop, gaveUp>>

\* _hci_adapter_error, from the task of an adapter that was finalised while a
\* piece was on the air.
LateError ==
  /\ late
  /\ late' = FALSE
  /\ LaunchRefresh
  /\ UNCHANGED <<env, sock, adapter, leaked, shown, work, stop, gaveUp, faults>>

Next ==
  \/ AsyncInit
  \/ RefreshStart
  \/ RefreshConnect
  \/ \E f \in Flows :
       \/ ListRead(f)
       \/ NamesRead(f)
       \/ MgmtFail(f)
       \/ MgmtRetry(f)
       \/ NextRound(f)
       \/ \E a \in Adapters :
            OpenOk(f, a) \/ OpenFail(f, a) \/ CallbackFail(f, a) \/ OpeningError(f, a)
  \/ Stop
  \/ \E a \in Adapters : Replug(a) \/ HciAdapterError(a)
  \/ MgmtEvent
  \/ MgmtClose
  \/ LateError

SafeSpec == Init /\ [][Next]_vars

\* Commands are answered or time out, adapters open or fail, sleeps end, tasks
\* run, and the events and errors that are due arrive.
Fairness ==
  /\ WF_vars(AsyncInit)
  /\ WF_vars(RefreshStart \/ RefreshConnect)
  /\ \A f \in Flows :
       WF_vars(\/ ListRead(f) \/ NamesRead(f) \/ MgmtFail(f) \/ MgmtRetry(f)
               \/ NextRound(f)
               \/ \E a \in Adapters : OpenOk(f, a) \/ OpenFail(f, a))
  /\ WF_vars(MgmtEvent)
  /\ WF_vars(LateError)

Spec == SafeSpec /\ Fairness

-----------------------------------------------------------------------------
(***************************************************************************)
(* Properties.                                                             *)
(***************************************************************************)

\* There is one reconnection task at most, and the flag says when there is one:
\* a flag left up would make the manager deaf to every later event and error.
OneRefresh == reconnecting <=> pc["refresh"] # "idle"

\* An adapter runs unregistered, its socket open and out of reach of async_final,
\* only if a refresh was started while the initialisation was going on.
LeakOnlyOnOverlap == leaked # {} => overlap

\* An adapter registered though finalised (the devices could not be told) is one
\* that an activity opens again, or has given up.
EndedIsRetried ==
  \A a \in Adapters :
    adapter[a] = "ended" => \E f \in Flows : a \in todo[f] \cup failed[f]

\* A stop that finds the manager at rest is final: nothing starts afterwards.
StopAtRest ==
  stop = "rest" =>
    Registered = {} /\ leaked = {} /\ mgmt = "closed" /\ ~reconnecting /\ ~late

(***************************************************************************)
(* The inductive invariant behind them (see ManagerProofs).                *)
(***************************************************************************)

\* Where each activity may be, and what has not happened before the first one.
PcOK ==
  /\ pc["refresh"] # "done"
  /\ pc["init"] \notin {"start", "pause"}
  /\ pc["init"] = "idle" =>
       mgmt = "closed" /\ ~pending /\ Registered = {} /\ ~late /\ pc["refresh"] = "idle"
  /\ mgmt = "closed" => ~pending
  /\ \A f \in Flows : /\ pc[f] = "again" => todo[f] = {}
                      /\ unheard[f] \subseteq todo[f]
                      /\ unheard[f] # {} => pc[f] = "open"

\* Without overlap, the activities exclude each other, and the one that goes on
\* has nothing running before its rounds, and nothing of what it has still to
\* open during them.
RoundsOK ==
  ~overlap =>
    /\ leaked = {}
    /\ ~Active("init") \/ ~Active("refresh")
    /\ \A f \in Flows :
         /\ pc[f] \in {"pause", "list", "names", "mgmt"} => Running = {}
         /\ pc[f] \in {"open", "again"} =>
              (todo[f] \cup failed[f]) \cap Running = {} /\ todo[f] \cap failed[f] = {}

\* An ended adapter is in the rounds of an activity that has not begun again.
EndedOK ==
  \A a \in Adapters :
    adapter[a] = "ended" =>
      \E f \in Flows : /\ a \in todo[f] \cup failed[f]
                       /\ pc[f] \notin {"pause", "list", "names", "mgmt"}

\* After a stop at rest, nothing goes on any more.
StopOK ==
  stop = "rest" =>
    /\ pc["init"] = "done"
    /\ pc["refresh"] = "idle"
    /\ Registered = {} /\ leaked = {} /\ mgmt = "closed" /\ ~late

\* The inductive invariant of the manager: it implies the four properties above
\* (_launch_refresh, _async_init_retry and async_final taken together).
IInv ==
  /\ TypeOK
  /\ OneRefresh
  /\ PcOK
  /\ RoundsOK
  /\ EndedOK
  /\ StopOK

\* Once the faults are over, and unless a refresh was dropped, the initialisation
\* overlapped or the retries were too few, the adapters that run are exactly
\* those that are plugged.
Converges ==
  <>[](\/ stop # "no" \/ overlap \/ missed \/ gaveUp
       \/ Running = present /\ mgmt = "open")

\* Whatever happens, both activities eventually end: no loop of refreshes feeds
\* itself, and the flag that drops the refreshes does not stay up.
Settles == <>[](~reconnecting /\ pc["init"] = "done")

\* What a comment of _mgmt_recv says of errors and changes, that they trigger a
\* refresh: an adapter that cannot receive any more is eventually replaced.
DeafIsRefreshed ==
  \A a \in Adapters : adapter[a] = "deaf" ~> adapter[a] # "deaf"

\* What the documentation of on_adapter_change says: the devices follow the
\* adapters that are removed. At rest, none shows an adapter that is not there. The
\* clean-up of a refresh breaks it (see the README).
AvailabilityFollows ==
  pc["init"] = "done" /\ ~reconnecting /\ stop = "no" => shown \subseteq Registered
=============================================================================
