----------------------------- MODULE EspManager -----------------------------
(***************************************************************************)
(* The manager of the ESPHome proxies: BleAdvEspBtManager of               *)
(* esp_adapters.py, with the registry of BleAdvBtManager.                  *)
(*                                                                         *)
(* The adapters of a proxy, which all have its name, are numbered as they  *)
(* are created. An adapter is followed until its dequeue task ends: it may *)
(* be finalised in the middle of a piece and report an error afterwards.   *)
(* The service calls do not wait for the proxy, so that every handler runs *)
(* without being suspended, but for the sleep of a reset. Names that the   *)
(* manager of the local controllers has too begin with esp.                *)
(***************************************************************************)
EXTENDS Naturals, FiniteSets

CONSTANTS
  Proxies,      \* the proxies Home Assistant knows: their names
  MayRaise,     \* the devices may raise when they are told of a change
  MaxEspFaults \* bound: the changes of the proxies and the errors

ASSUME EspAssumption == MayRaise \in BOOLEAN /\ MaxEspFaults \in Nat

VARIABLES
  here,        \* the proxies whose name is known and whose services are there
  listening,   \* _cnl_clbck is not empty
  adapters,    \* _adapters: the number of the adapter of each proxy, 0 if none
  ids,         \* _id_to_name: the proxies whose advertisements are recognised
  born,        \* how many adapters each proxy has had
  processing,  \* those that are not finalised (_processing)
  working,     \* those whose dequeue task advertises, or waits for it
  resetting,   \* those whose dequeue task sleeps in reset_adapter
  espStop,     \* "no", or whether anything was going on when the manager ended
  renamed,     \* auxiliary: a proxy took another name while it was there
  raised,      \* auxiliary: the devices raised while they were told
  espFaults    \* auxiliary: the changes and errors so far

espReg  == <<adapters, ids, born>>
tasks   == <<processing, working, resetting>>
espVars == <<here, listening, espReg, tasks, espStop, renamed, raised, espFaults>>

EspRegistered == {p \in Proxies : adapters[p] # 0}

EspTypeOK ==
  /\ here \in SUBSET Proxies
  /\ listening \in BOOLEAN
  /\ ids \in SUBSET Proxies
  /\ born \in [Proxies -> Nat]
  /\ adapters \in [Proxies -> Nat]
  /\ processing \in [Proxies -> SUBSET Nat]
  /\ working \in [Proxies -> SUBSET Nat]
  /\ resetting \in [Proxies -> SUBSET Nat]
  /\ espStop \in {"no", "rest", "busy"}
  /\ renamed \in BOOLEAN
  /\ raised \in BOOLEAN
  /\ espFaults \in 0 .. MaxEspFaults
  /\ \A p \in Proxies :
       /\ adapters[p] <= born[p]
       /\ processing[p] \cup working[p] \cup resetting[p] \subseteq 1 .. born[p]

EspInit ==
  /\ here \in SUBSET Proxies
  /\ listening = FALSE
  /\ ids = {}
  /\ adapters = [p \in Proxies |-> 0]
  /\ born = [p \in Proxies |-> 0]
  /\ processing = [p \in Proxies |-> {}]
  /\ working = [p \in Proxies |-> {}]
  /\ resetting = [p \in Proxies |-> {}]
  /\ espStop = "no"
  /\ renamed = FALSE
  /\ raised = FALSE
  /\ espFaults = 0

-----------------------------------------------------------------------------
(* Pieces of the handlers.                                                 *)

\* Something happens that the program does not decide.
EspFault == espFaults < MaxEspFaults /\ espFaults' = espFaults + 1

\* The devices are told, and one of them raises.
Raises == MayRaise /\ raised' = TRUE

\* _create_adapter for each proxy of Q: the adapter is opened, its task started,
\* and it is registered; the tasks that were working are busy, and the proxies that
\* were recognised, and still are, are known.
CreateAmong(known, Q, busy) ==
  LET new(p) == IF p \in Q THEN {born[p] + 1} ELSE {}
  IN  /\ adapters' = [p \in Proxies |-> IF p \in Q THEN born[p] + 1 ELSE adapters[p]]
      /\ born' = [p \in Proxies |-> IF p \in Q THEN born[p] + 1 ELSE born[p]]
      /\ ids' = known \cup Q
      /\ processing' = [p \in Proxies |-> processing[p] \cup new(p)]
      /\ working' = [p \in Proxies |-> busy[p] \cup new(p)]

Create(Q, busy) == CreateAmong(ids, Q, busy)

\* Mutated form: an adapter that is removed is not finalised.
RemovedAlive(p, busy) ==
  /\ adapters' = [adapters EXCEPT ![p] = 0]
  /\ ids' = ids \ ({p} \cap EspRegistered)
  /\ working' = busy
  /\ UNCHANGED <<born, processing, raised>>

\* _remove_adapter: the adapter of p, if there is one, is dropped, the devices are
\* told, and it is finalised: its task ends, at once or after the piece it is
\* advertising.
Removed(p, busy) ==
  /\ adapters' = [adapters EXCEPT ![p] = 0]
  /\ ids' = ids \ ({p} \cap EspRegistered)
  /\ processing' = [processing EXCEPT ![p] = @ \ {adapters[p]}]
  /\ working' \in {busy, [busy EXCEPT ![p] = @ \ {adapters[p]}]}
  /\ UNCHANGED <<born, raised>>

\* The same when a device raises: the adapter is dropped and goes on.
RemovalRaises(p, busy) ==
  /\ p \in EspRegistered
  /\ Raises
  /\ adapters' = [adapters EXCEPT ![p] = 0]
  /\ working' = busy
  /\ UNCHANGED <<born, ids, processing>>

\* The proxies a discovery finds, that have no adapter.
Missing == here \ EspRegistered

-----------------------------------------------------------------------------
(* The manager.                                                            *)

\* async_init: the proxies there are, then the listeners. There is no device yet.
EspAsyncInit ==
  /\ ~listening /\ espStop = "no"
  /\ Create(Missing, working)
  /\ listening' = TRUE
  /\ UNCHANGED <<here, resetting, espStop, renamed, raised, espFaults>>

\* _async_name_state_changed_listener, the proxy being there again.
Appear(p) ==
  /\ p \notin here /\ EspFault
  /\ here' = here \cup {p}
  /\ IF listening THEN Create({p} \ EspRegistered, working) ELSE UNCHANGED <<espReg, processing, working>>
  /\ \/ UNCHANGED raised
     \/ listening /\ p \notin EspRegistered /\ Raises
  /\ UNCHANGED <<listening, resetting, espStop, renamed>>

\* Mutated form: only the names that appear are handled.
VanishKept(p) ==
  /\ p \in here /\ EspFault
  /\ here' = here \ {p}
  /\ UNCHANGED <<listening, espReg, tasks, espStop, renamed, raised>>

\* The same, the proxy being unavailable, or removed.
Vanish(p) ==
  /\ p \in here /\ EspFault
  /\ here' = here \ {p}
  /\ IF listening THEN Removed(p, working) \/ RemovalRaises(p, working)
                  ELSE UNCHANGED <<espReg, processing, working, raised>>
  /\ UNCHANGED <<listening, resetting, espStop, renamed>>

\* The same, the proxy p taking the name q while it is there: the new name gets an
\* adapter, to which its advertisements go, and the old one keeps its own. Once, which
\* is a bound.
Rename(p, q) ==
  /\ p \in here /\ q \notin here /\ ~renamed /\ EspFault
  /\ here' = (here \ {p}) \cup {q}
  /\ renamed' = listening
  /\ IF listening
     THEN CreateAmong(IF q \in EspRegistered THEN ids ELSE ids \ {p}, {q} \ EspRegistered, working)
     ELSE UNCHANGED <<espReg, processing, working>>
  /\ \/ UNCHANGED raised
     \/ listening /\ q \notin EspRegistered /\ Raises
  /\ UNCHANGED <<listening, resetting, espStop>>

\* A finalised adapter is over, its last piece being advertised.
Ends(p, n) ==
  /\ n \in working[p] \ processing[p]
  /\ working' = [working EXCEPT ![p] = @ \ {n}]
  /\ UNCHANGED <<here, listening, espReg, processing, resetting, espStop, renamed, raised, espFaults>>

\* reset_adapter, called by the task of the adapter n of p, that is working: the
\* adapter that has the name is removed, were it another one, and the task sleeps.
\* If a device raises, that is the end of the task.
Reset(p, n) ==
  LET busy == [working EXCEPT ![p] = @ \ {n}]
  IN  /\ n \in working[p] /\ EspFault
      /\ \/ Removed(p, busy) /\ resetting' = [resetting EXCEPT ![p] = @ \cup {n}]
         \/ RemovalRaises(p, busy) /\ UNCHANGED resetting
      /\ UNCHANGED <<here, listening, espStop, renamed>>

\* Mutated form: only the proxy that was reset is looked for, under another name.
RediscoverNone(p, n) ==
  /\ n \in resetting[p]
  /\ resetting' = [resetting EXCEPT ![p] = @ \ {n}]
  /\ UNCHANGED <<here, listening, espReg, processing, working, espStop, renamed, raised, espFaults>>

\* The reset goes on after its sleep, even if the manager has ended: the proxies
\* that are there get an adapter. The task goes on if its adapter was not finalised.
\* If a device raises, the discovery stops there, and so does the task.
Rediscover(p, n) ==
  /\ n \in resetting[p]
  /\ resetting' = [resetting EXCEPT ![p] = @ \ {n}]
  /\ \/ /\ Create(Missing, [working EXCEPT ![p] = @ \cup ({n} \cap processing[p])])
        /\ UNCHANGED raised
     \/ \E Q \in SUBSET Missing \ {{}} : Create(Q, working) /\ Raises
  /\ UNCHANGED <<here, listening, espStop, renamed, espFaults>>

\* Mutated form: the listeners are left registered.
AsyncFinalListening ==
  /\ espStop = "no" /\ listening
  /\ adapters' = [p \in Proxies |-> 0]
  /\ ids' = {}
  /\ processing' = [p \in Proxies |-> processing[p] \ {adapters[p]}]
  /\ \E late \in SUBSET EspRegistered :
       working' = [p \in Proxies |-> IF p \in late THEN working[p] ELSE working[p] \ {adapters[p]}]
  /\ espStop' = IF \A p \in Proxies : working'[p] = {} /\ resetting[p] = {} THEN "rest" ELSE "busy"
  /\ UNCHANGED <<here, listening, born, resetting, renamed, raised, espFaults>>

\* async_final: no listener any more, the adapters registered are finalised.
EspAsyncFinal ==
  /\ espStop = "no" /\ listening
  /\ listening' = FALSE
  /\ adapters' = [p \in Proxies |-> 0]
  /\ ids' = {}
  /\ processing' = [p \in Proxies |-> processing[p] \ {adapters[p]}]
  /\ \E late \in SUBSET EspRegistered :
       working' = [p \in Proxies |-> IF p \in late THEN working[p] ELSE working[p] \ {adapters[p]}]
  /\ espStop' = IF \A p \in Proxies : working'[p] = {} /\ resetting[p] = {} THEN "rest" ELSE "busy"
  /\ UNCHANGED <<here, born, resetting, renamed, raised, espFaults>>

EspNext ==
  \/ EspAsyncInit
  \/ EspAsyncFinal
  \/ \E p \in Proxies :
       \/ Appear(p) \/ Vanish(p)
       \/ \E q \in Proxies : Rename(p, q)
       \/ \E n \in 1 .. born[p] : Ends(p, n) \/ Reset(p, n) \/ Rediscover(p, n)

\* The event loop starts the manager, and the sleeps end: the one of a reset and
\* the one of a piece.
EspFairness ==
  /\ WF_espVars(EspAsyncInit)
  /\ \A p \in Proxies :
       WF_espVars(\E n \in 1 .. born[p] : Ends(p, n) \/ Rediscover(p, n))

EspSpec == EspInit /\ [][EspNext]_espVars /\ EspFairness

-----------------------------------------------------------------------------
(* Properties.                                                             *)

\* Until a device raises, an adapter whose task goes on is the one registered under
\* the name of its proxy, whatever resets and changes of the proxy follow one
\* another: none is left running that async_final would not find, and the
\* advertisements recognised are those of the adapters there are, unless a proxy took
\* another name.
NoOrphan ==
  ~raised => /\ \A p \in Proxies : processing[p] = {adapters[p]} \ {0}
             /\ renamed \/ ids = EspRegistered

\* Until a device raises, a proxy that is there has an adapter unless a reset is
\* pending, which will see it, and one that is not there has none, unless it is the
\* former name of a proxy.
Covered ==
  listening /\ ~raised =>
    /\ renamed \/ EspRegistered \subseteq here
    /\ ~(here \subseteq EspRegistered) => \E p \in Proxies : resetting[p] # {}

\* A stop that finds no piece on the air and no reset pending is final. Otherwise
\* a reset may create adapters after it, that nothing ends.
EspStopAtRest ==
  espStop = "rest" =>
    /\ EspRegistered = {} /\ ids = {}
    /\ \A p \in Proxies : working[p] \cup resetting[p] = {}

\* Once the changes and the errors are over, the proxies that are there have an
\* adapter, and only those but for a former name: the resets neither feed one another
\* nor give up.
Recovers ==
  <>[](\/ espStop # "no" \/ raised
       \/ here \subseteq EspRegistered /\ (renamed \/ EspRegistered \subseteq here))

-----------------------------------------------------------------------------
(* The inductive invariant behind them (see ManagerProofs).             *)

\* The manager listens from its start to its end, and has no adapter before
\* (async_init, async_final).
StartedOK ==
  /\ listening => espStop = "no"
  /\ ~listening /\ espStop = "no" => \A p \in Proxies : born[p] = 0

\* The inductive invariant of the manager of the proxies: it implies the three
\* properties above (_create_adapter, _remove_adapter, reset_adapter).
EspIInv == EspTypeOK /\ NoOrphan /\ Covered /\ EspStopAtRest /\ StartedOK
=============================================================================
