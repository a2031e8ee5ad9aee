---------------------------- MODULE ManagerProofs ----------------------------
(***************************************************************************)
(* The two managers. First HciManager, for any set of controllers and any  *)
(* number of retries and faults: the inductive invariant IInv, and what    *)
(* follows from it. The pieces the handlers are built from come first,     *)
(* each with what it does to the types and to the flag _reconnecting. Then *)
(* EspManager, for any set of proxies and any number of changes and        *)
(* errors, in the same way.                                                *)
(***************************************************************************)
EXTENDS HciManager, EspManager, TLAPS

-----------------------------------------------------------------------------
(***************************************************************************)
(* The manager of the controllers.                                         *)
(***************************************************************************)

\* An activity that goes on keeps the types, and the flag if it was not at rest
\* (any await of _async_init_retry).
LEMMA GoesPreserves ==
  ASSUME TypeOK, NEW f \in Flows, NEW where \in PcValues, Goes(f, where)
  PROVE  /\ pc' \in [Flows -> PcValues]
         /\ reconnecting' \in BOOLEAN
         /\ OneRefresh /\ Active(f) /\ where # "idle" => OneRefresh'
<1>1. pc' \in [Flows -> PcValues] /\ reconnecting' \in BOOLEAN
  BY DEF TypeOK, Goes, PcValues
<1>2. OneRefresh /\ Active(f) /\ where # "idle" => OneRefresh'
  BY DEF TypeOK, Goes, PcValues, OneRefresh, Active, Flows
<1> QED BY <1>1, <1>2

\* An activity that ends keeps the types, and clears the flag if it is the
\* reconnection (the end of _async_init_retry).
LEMMA FinishedPreserves ==
  ASSUME TypeOK, NEW f \in Flows, Finished(f)
  PROVE  /\ pc' \in [Flows -> PcValues]
         /\ reconnecting' \in BOOLEAN
         /\ OneRefresh => OneRefresh'
<1>1. pc' \in [Flows -> PcValues]
  BY DEF TypeOK, Finished, PcValues
<1>2. reconnecting' \in BOOLEAN
  BY Zenon DEF Finished
<1>3. CASE f = "init"
  <2>1. reconnecting' = reconnecting
    BY <1>3, Zenon DEF Finished, TypeOK
  <2>2. pc'["refresh"] = pc["refresh"]
    BY <1>3 DEF Finished, TypeOK, Flows
  <2> QED BY <1>1, <1>2, <2>1, <2>2 DEF OneRefresh
<1>4. CASE f = "refresh"
  <2>1. reconnecting' = FALSE
    BY <1>4, Zenon DEF Finished, TypeOK
  <2>2. pc'["refresh"] = "idle"
    BY <1>4 DEF Finished, TypeOK, Flows
  <2> QED BY <1>1, <1>2, <2>1, <2>2 DEF OneRefresh
<1> QED BY <1>1, <1>2, <1>3, <1>4 DEF Flows

\* One attempt of the management loop (_init_mgmt).
LEMMA ConnectPreserves ==
  ASSUME TypeOK, NEW f \in Flows, NEW n \in Nat, Connect(f, n)
  PROVE  /\ pc' \in [Flows -> PcValues]
         /\ reconnecting' \in BOOLEAN
         /\ tries' \in [Flows -> Nat]
         /\ mgmt' \in {"closed", "open", "broken"}
         /\ owner' \in SUBSET Flows
         /\ pending' \in BOOLEAN
         /\ gaveUp' \in BOOLEAN
         /\ OneRefresh /\ Active(f) => OneRefresh'
<1>1. CASE n > 0
  <2>1. Goes(f, "list") /\ UNCHANGED gaveUp /\ pending' = FALSE
    BY <1>1 DEF Connect
  <2>2. tries' = [tries EXCEPT ![f] = n - 1] /\ n - 1 \in Nat
    BY <1>1 DEF Connect
  <2>3. tries' \in [Flows -> Nat]
    BY <2>2 DEF TypeOK
  <2>4. mgmt' = "open" /\ owner' = {f}
    BY <1>1 DEF Connect
  <2>5. "list" \in PcValues /\ "list" # "idle"
    BY DEF PcValues
  <2> QED BY <2>1, <2>3, <2>4, <2>5, GoesPreserves DEF TypeOK
<1>2. CASE n = 0
  <2>1. Finished(f) /\ gaveUp' = TRUE /\ UNCHANGED <<tries, pending, mgmt, owner>>
    BY <1>2 DEF Connect, sock
  <2> QED BY <2>1, FinishedPreserves DEF TypeOK
<1> QED BY <1>1, <1>2

\* One turn of a round over the adapters (the for loop of _async_init_retry).
LEMMA TurnPreserves ==
  ASSUME TypeOK, NEW f \in Flows, NEW rest \in SUBSET Adapters,
         NEW bad \in SUBSET Adapters, Turn(f, rest, bad)
  PROVE  /\ pc' \in [Flows -> PcValues]
         /\ reconnecting' \in BOOLEAN
         /\ todo' \in [Flows -> SUBSET Adapters]
         /\ failed' \in [Flows -> SUBSET Adapters]
         /\ unheard' \in [Flows -> SUBSET Adapters]
         /\ OneRefresh /\ Active(f) => OneRefresh'
<1>1. /\ todo' \in [Flows -> SUBSET Adapters] /\ failed' \in [Flows -> SUBSET Adapters]
      /\ unheard' \in [Flows -> SUBSET Adapters]
  BY DEF Turn, TypeOK
<1>2. {"open", "again"} \subseteq PcValues
  BY DEF PcValues
<1>3. Goes(f, "open") \/ Goes(f, "again") \/ Finished(f)
  BY DEF Turn
<1>4. CASE Goes(f, "open") BY <1>1, <1>2, <1>4, GoesPreserves
<1>5. CASE Goes(f, "again") BY <1>1, <1>2, <1>5, GoesPreserves
<1>6. CASE Finished(f) BY <1>1, <1>6, FinishedPreserves
<1> QED BY <1>3, <1>4, <1>5, <1>6

\* A refresh that is asked for (_launch_refresh).
LEMMA LaunchPreserves ==
  ASSUME TypeOK, LaunchRefresh
  PROVE  /\ pc' \in [Flows -> PcValues]
         /\ reconnecting' = TRUE
         /\ missed' \in BOOLEAN
         /\ overlap' \in BOOLEAN
         /\ OneRefresh => OneRefresh'
<1>1. pc' \in [Flows -> PcValues]
  BY DEF TypeOK, LaunchRefresh, PcValues
<1>2. reconnecting' = TRUE /\ missed' \in BOOLEAN /\ overlap' \in BOOLEAN
  BY Zenon DEF LaunchRefresh
<1>3. OneRefresh => OneRefresh'
  BY <1>2 DEF TypeOK, LaunchRefresh, OneRefresh, Flows
<1> QED BY <1>1, <1>2, <1>3

\* The clean-up (async_final).
LEMMA FinalPreserves ==
  ASSUME TypeOK, AsyncFinal
  PROVE  /\ mgmt' = "closed" /\ owner' = {} /\ pending' = FALSE
         /\ late' \in BOOLEAN
         /\ adapter' \in [Adapters -> {"none", "up", "deaf", "ended"}]
         /\ UNCHANGED <<present, leaked, shown>>
<1>1. late' \in BOOLEAN BY Zenon DEF AsyncFinal, TypeOK
<1> QED BY <1>1 DEF AsyncFinal

-----------------------------------------------------------------------------
\* Type correctness is preserved by every step of the manager (every handler of
\* BleAdvBtHciManager).
LEMMA TypePreserved == TypeOK /\ [Next]_vars => TypeOK'
<1> SUFFICES ASSUME TypeOK, [Next]_vars PROVE TypeOK'
  OBVIOUS
<1> USE HciAssumption
<1>0. PcValues = {"idle", "start", "pause", "list", "names", "mgmt", "open", "again", "done"}
  BY DEF PcValues
<1>1. CASE AsyncInit
  <2>1. Connect("init", NbInitRetry) /\ "init" \in Flows
    BY <1>1 DEF AsyncInit, Flows
  <2>2. UNCHANGED <<present, adapter, leaked, late, shown, todo, failed, unheard, stop, overlap, missed, faults>>
    BY <1>1 DEF AsyncInit, reg
  <2> QED BY <2>1, <2>2, ConnectPreserves DEF TypeOK
<1>2. CASE RefreshStart
  <2>1. AsyncFinal /\ Goes("refresh", "pause") /\ "refresh" \in Flows /\ gaveUp' = FALSE
    BY <1>2 DEF RefreshStart, Flows
  <2>2. UNCHANGED <<tries, todo, failed, unheard, stop, overlap, missed, faults>>
    BY <1>2 DEF RefreshStart, work
  <2> QED BY <1>0, <2>1, <2>2, FinalPreserves, GoesPreserves DEF TypeOK
<1>3. CASE RefreshConnect
  <2>1. Connect("refresh", NbRefreshRetry) /\ "refresh" \in Flows
    BY <1>3 DEF RefreshConnect, Flows
  <2>2. UNCHANGED <<present, adapter, leaked, late, shown, todo, failed, unheard, stop, overlap, missed, faults>>
    BY <1>3 DEF RefreshConnect, reg
  <2> QED BY <2>1, <2>2, ConnectPreserves DEF TypeOK
<1>4. ASSUME NEW f \in Flows, ListRead(f) PROVE TypeOK'
  <2>1. Goes(f, "names") /\ todo' = [todo EXCEPT ![f] = present]
    BY <1>4 DEF ListRead
  <2>2. todo' \in [Flows -> SUBSET Adapters]
    BY <2>1 DEF TypeOK
  <2>3. UNCHANGED <<present, pending, mgmt, owner, adapter, leaked, late, shown, tries, failed, unheard,
                    stop, overlap, missed, gaveUp, faults>>
    BY <1>4 DEF ListRead, env, sock, reg, aux
  <2> QED BY <1>0, <2>1, <2>2, <2>3, GoesPreserves DEF TypeOK
<1>5. ASSUME NEW f \in Flows, NamesRead(f) PROVE TypeOK'
  <2>1. Turn(f, todo[f], {}) /\ todo[f] \in SUBSET Adapters
    BY <1>5 DEF NamesRead, TypeOK
  <2>2. tries' = [tries EXCEPT ![f] = NbRetry(f) - 1] /\ NbRetry(f) - 1 \in Nat
    BY <1>5 DEF NamesRead, NbRetry
  <2>3. tries' \in [Flows -> Nat]
    BY <2>2 DEF TypeOK
  <2>4. UNCHANGED <<present, pending, mgmt, owner, adapter, leaked, late, shown, stop, overlap, missed, gaveUp, faults>>
    BY <1>5 DEF NamesRead, env, sock, reg, aux
  <2>5. /\ pc' \in [Flows -> PcValues] /\ reconnecting' \in BOOLEAN
        /\ todo' \in [Flows -> SUBSET Adapters] /\ failed' \in [Flows -> SUBSET Adapters]
        /\ unheard' \in [Flows -> SUBSET Adapters]
    BY <2>1, TurnPreserves
  <2> QED BY <2>3, <2>4, <2>5 DEF TypeOK
<1>6. ASSUME NEW f \in Flows, MgmtFail(f) PROVE TypeOK'
  <2>1. AsyncFinal /\ Goes(f, "mgmt")
    BY <1>6 DEF MgmtFail
  <2>2. faults' \in 0 .. MaxFaults
    BY <1>6 DEF MgmtFail, Fault, TypeOK
  <2>3. UNCHANGED <<tries, todo, failed, unheard, stop, overlap, missed, gaveUp>>
    BY <1>6 DEF MgmtFail, work
  <2> QED BY <1>0, <2>1, <2>2, <2>3, FinalPreserves, GoesPreserves DEF TypeOK
<1>7. ASSUME NEW f \in Flows, MgmtRetry(f) PROVE TypeOK'
  <2>1. Connect(f, tries[f]) /\ tries[f] \in Nat
    BY <1>7 DEF MgmtRetry, TypeOK
  <2>2. UNCHANGED <<present, adapter, leaked, late, shown, todo, failed, unheard, stop, overlap, missed, faults>>
    BY <1>7 DEF MgmtRetry, reg
  <2> QED BY <2>1, <2>2, ConnectPreserves DEF TypeOK
<1>8. ASSUME NEW f \in Flows, NextRound(f) PROVE TypeOK'
  <2>1. UNCHANGED <<present, pending, mgmt, owner, adapter, leaked, late, shown, stop, overlap, missed, faults>>
    BY <1>8 DEF NextRound, env, sock, reg
  <2>2. CASE tries[f] > 0
    <3>1. Goes(f, "open") /\ UNCHANGED <<unheard, gaveUp>>
      BY <1>8, <2>2 DEF NextRound
    <3>2. tries' \in [Flows -> Nat]
      BY <1>8, <2>2 DEF NextRound, TypeOK
    <3>3. todo' = [todo EXCEPT ![f] = failed[f]] /\ failed' = [failed EXCEPT ![f] = {}]
      BY <1>8, <2>2 DEF NextRound
    <3>4. todo' \in [Flows -> SUBSET Adapters] /\ failed' \in [Flows -> SUBSET Adapters]
      BY <3>3 DEF TypeOK
    <3> QED BY <1>0, <2>1, <3>1, <3>2, <3>4, GoesPreserves DEF TypeOK
  <2>3. CASE ~(tries[f] > 0)
    <3>1. Finished(f) /\ UNCHANGED <<tries, todo, failed, unheard>> /\ gaveUp' = TRUE
      BY <1>8, <2>3 DEF NextRound, work
    <3> QED BY <2>1, <3>1, FinishedPreserves, <1>0 DEF TypeOK
  <2> QED BY <2>2, <2>3
<1>9. ASSUME NEW f \in Flows, NEW a \in Adapters, OpenOk(f, a) PROVE TypeOK'
  <2>1. Turn(f, todo[f] \ {a}, failed[f]) /\ todo[f] \ {a} \in SUBSET Adapters /\ failed[f] \in SUBSET Adapters
    BY <1>9 DEF OpenOk, TypeOK
  <2>2. leaked' \in SUBSET Adapters /\ shown' \in SUBSET Adapters
    BY <1>9 DEF OpenOk, Replaced, TypeOK
  <2>3. adapter' \in [Adapters -> {"none", "up", "deaf", "ended"}]
    BY <1>9 DEF OpenOk, TypeOK
  <2>4. UNCHANGED <<present, pending, mgmt, owner, late, tries, stop, overlap, missed, gaveUp, faults>>
    BY <1>9 DEF OpenOk, env, sock, aux
  <2> QED BY <1>0, <2>1, <2>2, <2>3, <2>4, TurnPreserves DEF TypeOK
<1>10. ASSUME NEW f \in Flows, NEW a \in Adapters, OpenFail(f, a) PROVE TypeOK'
  <2>1. /\ Turn(f, todo[f] \ {a}, failed[f] \cup {a})
        /\ todo[f] \ {a} \in SUBSET Adapters /\ failed[f] \cup {a} \in SUBSET Adapters
    BY <1>10 DEF OpenFail, TypeOK
  <2>2. faults' \in 0 .. MaxFaults
    BY <1>10 DEF OpenFail, Fault, TypeOK
  <2>3. UNCHANGED <<present, pending, mgmt, owner, adapter, leaked, late, shown, tries, stop, overlap, missed, gaveUp>>
    BY <1>10 DEF OpenFail, env, sock, reg
  <2> QED BY <1>0, <2>1, <2>2, <2>3, TurnPreserves DEF TypeOK
<1>11. ASSUME NEW f \in Flows, NEW a \in Adapters, CallbackFail(f, a) PROVE TypeOK'
  <2>1. /\ Turn(f, todo[f] \ {a}, failed[f] \cup {a})
        /\ todo[f] \ {a} \in SUBSET Adapters /\ failed[f] \cup {a} \in SUBSET Adapters
    BY <1>11 DEF CallbackFail, CallbackFailWith, TypeOK
  <2>2. faults' \in 0 .. MaxFaults
    BY <1>11 DEF CallbackFail, CallbackFailWith, Fault, TypeOK
  <2>3. leaked' \in SUBSET Adapters /\ shown' \in SUBSET Adapters
    BY <1>11 DEF CallbackFail, CallbackFailWith, Replaced, TypeOK
  <2>4. adapter' \in [Adapters -> {"none", "up", "deaf", "ended"}]
    BY <1>11 DEF CallbackFail, CallbackFailWith, TypeOK
  <2>5. UNCHANGED <<present, pending, mgmt, owner, late, tries, stop, overlap, missed, gaveUp>>
    BY <1>11 DEF CallbackFail, CallbackFailWith, env, sock
  <2> QED BY <1>0, <2>1, <2>2, <2>3, <2>4, <2>5, TurnPreserves DEF TypeOK
<1>12. CASE Stop
  <2>1. AsyncFinal /\ stop' \in {"no", "rest", "busy"}
    BY <1>12 DEF Stop
  <2>2. UNCHANGED <<reconnecting, pc, tries, todo, failed, unheard, overlap, missed, gaveUp, faults>>
    BY <1>12 DEF Stop, work
  <2> QED BY <2>1, <2>2, FinalPreserves DEF TypeOK
<1>13. ASSUME NEW a \in Adapters, Replug(a) PROVE TypeOK'
  <2>1. present' \in SUBSET Adapters /\ faults' \in 0 .. MaxFaults
    BY <1>13 DEF Replug, Fault, TypeOK
  <2>2. pending' \in BOOLEAN
    BY <1>13, Zenon DEF Replug
  <2>3. UNCHANGED <<mgmt, owner, adapter, leaked, late, shown, reconnecting, pc, tries, todo, failed, unheard,
                    stop, overlap, missed, gaveUp>>
    BY <1>13 DEF Replug, sock, reg, work
  <2> QED BY <2>1, <2>2, <2>3 DEF TypeOK
<1>14. ASSUME NEW a \in Adapters, HciAdapterError(a) PROVE TypeOK'
  <2>1. adapter' \in [Adapters -> {"none", "up", "deaf", "ended"}] /\ faults' \in 0 .. MaxFaults
    BY <1>14 DEF HciAdapterError, Fault, TypeOK
  <2>2. LaunchRefresh
    BY <1>14 DEF HciAdapterError
  <2>3. UNCHANGED <<present, pending, mgmt, owner, leaked, late, shown, tries, todo, failed, unheard, stop, gaveUp>>
    BY <1>14 DEF HciAdapterError, env, sock, work
  <2> QED BY <1>0, <2>1, <2>2, <2>3, LaunchPreserves DEF TypeOK
<1>15. CASE MgmtEvent
  <2>1. LaunchRefresh /\ pending' = FALSE
    BY <1>15 DEF MgmtEvent
  <2>2. UNCHANGED <<present, mgmt, owner, adapter, leaked, late, shown, tries, todo, failed, unheard, stop, gaveUp, faults>>
    BY <1>15 DEF MgmtEvent, sock, reg, work
  <2> QED BY <1>0, <2>1, <2>2, LaunchPreserves DEF TypeOK
<1>16. CASE MgmtClose
  <2>1. LaunchRefresh /\ pending' = FALSE /\ mgmt' = "broken"
    BY <1>16 DEF MgmtClose
  <2>2. faults' \in 0 .. MaxFaults
    BY <1>16 DEF MgmtClose, Fault, TypeOK
  <2>3. UNCHANGED <<present, owner, adapter, leaked, late, shown, tries, todo, failed, unheard, stop, gaveUp>>
    BY <1>16 DEF MgmtClose, reg, work
  <2> QED BY <1>0, <2>1, <2>2, <2>3, LaunchPreserves DEF TypeOK
<1>17. CASE LateError
  <2>1. LaunchRefresh /\ late' = FALSE
    BY <1>17 DEF LateError
  <2>2. UNCHANGED <<present, pending, mgmt, owner, adapter, leaked, shown, tries, todo, failed, unheard, stop, gaveUp, faults>>
    BY <1>17 DEF LateError, env, sock, work
  <2> QED BY <1>0, <2>1, <2>2, LaunchPreserves DEF TypeOK
<1>18. ASSUME NEW f \in Flows, NEW a \in Adapters, OpeningError(f, a) PROVE TypeOK'
  <2>1. unheard' \in [Flows -> SUBSET Adapters] /\ faults' \in 0 .. MaxFaults
    BY <1>18 DEF OpeningError, Fault, TypeOK
  <2>2. LaunchRefresh
    BY <1>18 DEF OpeningError
  <2>3. UNCHANGED <<present, pending, mgmt, owner, adapter, leaked, late, shown, tries, todo, failed, stop, gaveUp>>
    BY <1>18 DEF OpeningError, env, sock, reg
  <2> QED BY <1>0, <2>1, <2>2, <2>3, LaunchPreserves DEF TypeOK
<1>19. CASE UNCHANGED vars
  BY <1>19 DEF vars, env, sock, reg, work, aux, TypeOK
<1> QED
  BY <1>1, <1>2, <1>3, <1>4, <1>5, <1>6, <1>7, <1>8, <1>9, <1>10, <1>11, <1>12, <1>13,
     <1>14, <1>15, <1>16, <1>17, <1>18, <1>19 DEF Next

\* The flag _reconnecting keeps saying whether there is a reconnection task
\* (_launch_refresh and the end of _reacquire_connection).
LEMMA FlagPreserved == IInv /\ [Next]_vars => OneRefresh'
<1> SUFFICES ASSUME IInv, [Next]_vars PROVE OneRefresh'
  OBVIOUS
<1>0. /\ TypeOK /\ OneRefresh /\ PcOK
     /\ {"list", "names", "mgmt", "pause", "open", "again"} \subseteq PcValues
     /\ "init" \in Flows /\ "refresh" \in Flows
  BY DEF IInv, PcValues, Flows
<1>1. CASE AsyncInit
  <2>1. CASE NbInitRetry = 0
    BY <1>0, <2>1, HciAssumption
  <2>2. CASE NbInitRetry > 0
    <3>1. Goes("init", "list")
      BY <1>1, <2>2 DEF AsyncInit, Connect
    <3> QED BY <1>0, <3>1 DEF Goes, OneRefresh, TypeOK, Flows
  <2> QED BY <2>1, <2>2, HciAssumption
<1>2. CASE RefreshStart
  BY <1>2, <1>0, GoesPreserves DEF RefreshStart, Active
<1>3. CASE RefreshConnect
  BY <1>3, <1>0, ConnectPreserves, HciAssumption DEF RefreshConnect, Active
<1>4. ASSUME NEW f \in Flows, ListRead(f) PROVE OneRefresh'
  BY <1>4, <1>0, GoesPreserves DEF ListRead, Active
<1>5. ASSUME NEW f \in Flows, NamesRead(f) PROVE OneRefresh'
  <2>1. Turn(f, todo[f], {}) /\ Active(f) /\ todo[f] \in SUBSET Adapters
    BY <1>5, <1>0 DEF NamesRead, Active, TypeOK
  <2> QED BY <1>0, <2>1, TurnPreserves
<1>6. ASSUME NEW f \in Flows, MgmtFail(f) PROVE OneRefresh'
  BY <1>6, <1>0, GoesPreserves DEF MgmtFail, Active
<1>7. ASSUME NEW f \in Flows, MgmtRetry(f) PROVE OneRefresh'
  BY <1>7, <1>0, ConnectPreserves DEF MgmtRetry, Active, TypeOK
<1>8. ASSUME NEW f \in Flows, NextRound(f) PROVE OneRefresh'
  BY <1>8, <1>0, GoesPreserves, FinishedPreserves DEF NextRound, Active
<1>9. ASSUME NEW f \in Flows, NEW a \in Adapters, OpenOk(f, a) PROVE OneRefresh'
  <2>1. Turn(f, todo[f] \ {a}, failed[f]) /\ Active(f)
    BY <1>9 DEF OpenOk, Active
  <2>2. todo[f] \ {a} \in SUBSET Adapters /\ failed[f] \in SUBSET Adapters
    BY <1>0 DEF TypeOK
  <2> QED BY <1>0, <2>1, <2>2, TurnPreserves
<1>10. ASSUME NEW f \in Flows, NEW a \in Adapters, OpenFail(f, a) PROVE OneRefresh'
  <2>1. Turn(f, todo[f] \ {a}, failed[f] \cup {a}) /\ Active(f)
    BY <1>10 DEF OpenFail, Active
  <2>2. todo[f] \ {a} \in SUBSET Adapters /\ failed[f] \cup {a} \in SUBSET Adapters
    BY <1>0 DEF TypeOK
  <2> QED BY <1>0, <2>1, <2>2, TurnPreserves
<1>11. ASSUME NEW f \in Flows, NEW a \in Adapters, CallbackFail(f, a) PROVE OneRefresh'
  <2>1. Turn(f, todo[f] \ {a}, failed[f] \cup {a}) /\ Active(f)
    BY <1>11 DEF CallbackFail, CallbackFailWith, Active
  <2>2. todo[f] \ {a} \in SUBSET Adapters /\ failed[f] \cup {a} \in SUBSET Adapters
    BY <1>0 DEF TypeOK
  <2> QED BY <1>0, <2>1, <2>2, TurnPreserves
<1>12. CASE Stop
  BY <1>12, <1>0 DEF Stop, OneRefresh
<1>13. ASSUME NEW a \in Adapters, Replug(a) PROVE OneRefresh'
  BY <1>13, <1>0 DEF Replug, OneRefresh
<1>14. ASSUME NEW a \in Adapters, HciAdapterError(a) PROVE OneRefresh'
  BY <1>14, <1>0, LaunchPreserves DEF HciAdapterError
<1>15. CASE MgmtEvent
  BY <1>15, <1>0, LaunchPreserves DEF MgmtEvent
<1>16. CASE MgmtClose
  BY <1>16, <1>0, LaunchPreserves DEF MgmtClose
<1>17. CASE LateError
  BY <1>17, <1>0, LaunchPreserves DEF LateError
<1>18. ASSUME NEW f \in Flows, NEW a \in Adapters, OpeningError(f, a) PROVE OneRefresh'
  BY <1>18, <1>0, LaunchPreserves DEF OpeningError
<1>19. CASE UNCHANGED vars
  BY <1>19, <1>0 DEF vars, OneRefresh
<1> QED
  BY <1>1, <1>2, <1>3, <1>4, <1>5, <1>6, <1>7, <1>8, <1>9, <1>10, <1>11, <1>12, <1>13, <1>14, <1>15, <1>16, <1>17,
     <1>18, <1>19 DEF Next

\* The activities stay where they may be (the awaits of _async_init_retry and of
\* _reacquire_connection).
LEMMA PcPreserved == IInv /\ [Next]_vars => PcOK'
<1> SUFFICES ASSUME IInv, [Next]_vars PROVE PcOK'
  OBVIOUS
<1> USE HciAssumption DEF IInv, TypeOK, OneRefresh, PcOK, RoundsOK, Flows, Active, Running, Registered, PcValues,
         env, sock, reg, work, aux
<1>1. CASE AsyncInit
  BY <1>1 DEF AsyncInit, Connect, Goes, Finished
<1>2. CASE RefreshStart
  BY <1>2 DEF RefreshStart, AsyncFinal, Goes
<1>3. CASE RefreshConnect
  BY <1>3 DEF RefreshConnect, Connect, Goes, Finished
<1>4. ASSUME NEW f \in Flows, ListRead(f) PROVE PcOK'
  BY <1>4 DEF ListRead, Answers, Goes
<1>5. ASSUME NEW f \in Flows, NamesRead(f) PROVE PcOK'
  BY <1>5 DEF NamesRead, Answers, Turn, Goes, Finished, NbRetry
<1>6. ASSUME NEW f \in Flows, MgmtFail(f) PROVE PcOK'
  BY <1>6 DEF MgmtFail, Answers, AsyncFinal, Goes, Fault
<1>7. ASSUME NEW f \in Flows, MgmtRetry(f) PROVE PcOK'
  BY <1>7 DEF MgmtRetry, Connect, Goes, Finished
<1>8. ASSUME NEW f \in Flows, NextRound(f) PROVE PcOK'
  BY <1>8 DEF NextRound, Goes, Finished
<1>9. ASSUME NEW f \in Flows, NEW a \in Adapters, OpenOk(f, a) PROVE PcOK'
  BY <1>9 DEF OpenOk, Opening, Turn, Goes, Finished, Replaced
<1>10. ASSUME NEW f \in Flows, NEW a \in Adapters, OpenFail(f, a) PROVE PcOK'
  BY <1>10 DEF OpenFail, Opening, Turn, Goes, Finished, Fault
<1>11. ASSUME NEW f \in Flows, NEW a \in Adapters, CallbackFail(f, a) PROVE PcOK'
  BY <1>11 DEF CallbackFail, CallbackFailWith, Opening, Turn, Goes, Finished, Fault, Replaced
<1>12. CASE Stop
  BY <1>12 DEF Stop, AsyncFinal
<1>13. ASSUME NEW a \in Adapters, Replug(a) PROVE PcOK'
  BY <1>13 DEF Replug, Fault
<1>14. ASSUME NEW a \in Adapters, HciAdapterError(a) PROVE PcOK'
  BY <1>14 DEF HciAdapterError, Fault, LaunchRefresh
<1>15. CASE MgmtEvent
  BY <1>15 DEF MgmtEvent, LaunchRefresh
<1>16. CASE MgmtClose
  BY <1>16 DEF MgmtClose, Fault, LaunchRefresh
<1>17. CASE LateError
  BY <1>17 DEF LateError, LaunchRefresh
<1>18. ASSUME NEW f \in Flows, NEW a \in Adapters, OpeningError(f, a) PROVE PcOK'
  BY <1>18 DEF OpeningError, Fault, LaunchRefresh
<1>19. CASE UNCHANGED vars
  BY <1>19 DEF vars
<1> QED
  BY <1>1, <1>2, <1>3, <1>4, <1>5, <1>6, <1>7, <1>8, <1>9, <1>10, <1>11, <1>12, <1>13, <1>14, <1>15, <1>16, <1>17,
     <1>18, <1>19 DEF Next

\* Without overlap, a round opens no adapter that runs (_async_init_retry).
LEMMA RoundsPreserved == IInv /\ [Next]_vars => RoundsOK'
<1> SUFFICES ASSUME IInv, [Next]_vars PROVE RoundsOK'
  OBVIOUS
<1> USE HciAssumption DEF IInv, TypeOK, OneRefresh, PcOK, RoundsOK, Flows, Active, Running, Registered, PcValues,
         env, sock, reg, work, aux
<1>1. CASE AsyncInit
  BY <1>1 DEF AsyncInit, Connect, Goes, Finished
<1>2. CASE RefreshStart
  BY <1>2 DEF RefreshStart, AsyncFinal, Goes
<1>3. CASE RefreshConnect
  BY <1>3 DEF RefreshConnect, Connect, Goes, Finished
<1>4. ASSUME NEW f \in Flows, ListRead(f) PROVE RoundsOK'
  BY <1>4 DEF ListRead, Answers, Goes
<1>5. ASSUME NEW f \in Flows, NamesRead(f) PROVE RoundsOK'
  BY <1>5 DEF NamesRead, Answers, Turn, Goes, Finished, NbRetry
<1>6. ASSUME NEW f \in Flows, MgmtFail(f) PROVE RoundsOK'
  BY <1>6 DEF MgmtFail, Answers, AsyncFinal, Goes, Fault
<1>7. ASSUME NEW f \in Flows, MgmtRetry(f) PROVE RoundsOK'
  BY <1>7 DEF MgmtRetry, Connect, Goes, Finished
<1>8. ASSUME NEW f \in Flows, NextRound(f) PROVE RoundsOK'
  BY <1>8 DEF NextRound, Goes, Finished
<1>9. ASSUME NEW f \in Flows, NEW a \in Adapters, OpenOk(f, a) PROVE RoundsOK'
  BY <1>9 DEF OpenOk, Opening, Turn, Goes, Finished, Replaced
<1>10. ASSUME NEW f \in Flows, NEW a \in Adapters, OpenFail(f, a) PROVE RoundsOK'
  BY <1>10 DEF OpenFail, Opening, Turn, Goes, Finished, Fault
<1>11. ASSUME NEW f \in Flows, NEW a \in Adapters, CallbackFail(f, a) PROVE RoundsOK'
  BY <1>11 DEF CallbackFail, CallbackFailWith, Opening, Turn, Goes, Finished, Fault, Replaced
<1>12. CASE Stop
  BY <1>12 DEF Stop, AsyncFinal
<1>13. ASSUME NEW a \in Adapters, Replug(a) PROVE RoundsOK'
  BY <1>13 DEF Replug, Fault
<1>14. ASSUME NEW a \in Adapters, HciAdapterError(a) PROVE RoundsOK'
  BY <1>14 DEF HciAdapterError, Fault, LaunchRefresh
<1>15. CASE MgmtEvent
  BY <1>15 DEF MgmtEvent, LaunchRefresh
<1>16. CASE MgmtClose
  BY <1>16 DEF MgmtClose, Fault, LaunchRefresh
<1>17. CASE LateError
  BY <1>17 DEF LateError, LaunchRefresh
<1>18. ASSUME NEW f \in Flows, NEW a \in Adapters, OpeningError(f, a) PROVE RoundsOK'
  BY <1>18 DEF OpeningError, Fault, LaunchRefresh
<1>19. CASE UNCHANGED vars
  BY <1>19 DEF vars
<1> QED
  BY <1>1, <1>2, <1>3, <1>4, <1>5, <1>6, <1>7, <1>8, <1>9, <1>10, <1>11, <1>12, <1>13, <1>14, <1>15, <1>16, <1>17,
     <1>18, <1>19 DEF Next

\* An adapter that was ended while it was registered stays in the rounds
\* (rem_failed_adapt of _async_init_retry).
LEMMA EndedPreserved == IInv /\ [Next]_vars => EndedOK'
<1> SUFFICES ASSUME IInv, [Next]_vars PROVE EndedOK'
  OBVIOUS
<1> USE HciAssumption DEF IInv, TypeOK, OneRefresh, PcOK, RoundsOK, EndedOK, Flows, Active, Running, Registered, PcValues,
         env, sock, reg, work, aux
<1>1. CASE AsyncInit
  BY <1>1 DEF AsyncInit, Connect, Goes, Finished
<1>2. CASE RefreshStart
  BY <1>2 DEF RefreshStart, AsyncFinal, Goes
<1>3. CASE RefreshConnect
  BY <1>3 DEF RefreshConnect, Connect, Goes, Finished
<1>4. ASSUME NEW f \in Flows, ListRead(f) PROVE EndedOK'
  BY <1>4 DEF ListRead, Answers, Goes
<1>5. ASSUME NEW f \in Flows, NamesRead(f) PROVE EndedOK'
  BY <1>5 DEF NamesRead, Answers, Turn, Goes, Finished, NbRetry
<1>6. ASSUME NEW f \in Flows, MgmtFail(f) PROVE EndedOK'
  BY <1>6 DEF MgmtFail, Answers, AsyncFinal, Goes, Fault
<1>7. ASSUME NEW f \in Flows, MgmtRetry(f) PROVE EndedOK'
  BY <1>7 DEF MgmtRetry, Connect, Goes, Finished
<1>8. ASSUME NEW f \in Flows, NextRound(f) PROVE EndedOK'
  <2> SUFFICES ASSUME NEW b \in Adapters, adapter'[b] = "ended"
               PROVE  \E g \in Flows : /\ b \in todo'[g] \cup failed'[g]
                                       /\ pc'[g] \notin {"pause", "list", "names", "mgmt"}
    BY DEF EndedOK
  <2>1. PICK g \in Flows : b \in todo[g] \cup failed[g] /\ pc[g] \notin {"pause", "list", "names", "mgmt"}
    BY <1>8 DEF NextRound, EndedOK
  <2>2. pc[f] = "again" => todo[f] = {}
    BY <1>8 DEF NextRound
  <2>3. CASE tries[f] > 0
    BY <1>8, <2>1, <2>2, <2>3 DEF NextRound, Goes
  <2>4. CASE tries[f] = 0
    BY <1>8, <2>1, <2>4 DEF NextRound, Finished
  <2> QED BY <2>3, <2>4
<1>9. ASSUME NEW f \in Flows, NEW a \in Adapters, OpenOk(f, a) PROVE EndedOK'
  BY <1>9 DEF OpenOk, Opening, Turn, Goes, Finished, Replaced
<1>10. ASSUME NEW f \in Flows, NEW a \in Adapters, OpenFail(f, a) PROVE EndedOK'
  BY <1>10 DEF OpenFail, Opening, Turn, Goes, Finished, Fault
<1>11. ASSUME NEW f \in Flows, NEW a \in Adapters, CallbackFail(f, a) PROVE EndedOK'
  BY <1>11 DEF CallbackFail, CallbackFailWith, Opening, Turn, Goes, Finished, Fault, Replaced
<1>12. CASE Stop
  BY <1>12 DEF Stop, AsyncFinal
<1>13. ASSUME NEW a \in Adapters, Replug(a) PROVE EndedOK'
  BY <1>13 DEF Replug, Fault
<1>14. ASSUME NEW a \in Adapters, HciAdapterError(a) PROVE EndedOK'
  BY <1>14 DEF HciAdapterError, Fault, LaunchRefresh
<1>15. CASE MgmtEvent
  BY <1>15 DEF MgmtEvent, LaunchRefresh
<1>16. CASE MgmtClose
  BY <1>16 DEF MgmtClose, Fault, LaunchRefresh
<1>17. CASE LateError
  BY <1>17 DEF LateError, LaunchRefresh
<1>18. ASSUME NEW f \in Flows, NEW a \in Adapters, OpeningError(f, a) PROVE EndedOK'
  BY <1>18 DEF OpeningError, Fault, LaunchRefresh
<1>19. CASE UNCHANGED vars
  BY <1>19 DEF vars
<1> QED
  BY <1>1, <1>2, <1>3, <1>4, <1>5, <1>6, <1>7, <1>8, <1>9, <1>10, <1>11, <1>12, <1>13, <1>14, <1>15, <1>16, <1>17,
     <1>18, <1>19 DEF Next

\* Nothing goes on after a stop at rest (async_final).
LEMMA StopPreserved == IInv /\ [Next]_vars => StopOK'
<1> SUFFICES ASSUME IInv, [Next]_vars PROVE StopOK'
  OBVIOUS
<1> USE HciAssumption DEF IInv, TypeOK, OneRefresh, PcOK, RoundsOK, EndedOK, StopOK, Flows, Active, Running, Registered, PcValues,
         env, sock, reg, work, aux
<1>1. CASE AsyncInit
  BY <1>1 DEF AsyncInit, Connect, Goes, Finished
<1>2. CASE RefreshStart
  BY <1>2 DEF RefreshStart, AsyncFinal, Goes
<1>3. CASE RefreshConnect
  BY <1>3 DEF RefreshConnect, Connect, Goes, Finished
<1>4. ASSUME NEW f \in Flows, ListRead(f) PROVE StopOK'
  BY <1>4 DEF ListRead, Answers, Goes
<1>5. ASSUME NEW f \in Flows, NamesRead(f) PROVE StopOK'
  BY <1>5 DEF NamesRead, Answers, Turn, Goes, Finished, NbRetry
<1>6. ASSUME NEW f \in Flows, MgmtFail(f) PROVE StopOK'
  BY <1>6 DEF MgmtFail, Answers, AsyncFinal, Goes, Fault
<1>7. ASSUME NEW f \in Flows, MgmtRetry(f) PROVE StopOK'
  BY <1>7 DEF MgmtRetry, Connect, Goes, Finished
<1>8. ASSUME NEW f \in Flows, NextRound(f) PROVE StopOK'
  BY <1>8 DEF NextRound, Goes, Finished
<1>9. ASSUME NEW f \in Flows, NEW a \in Adapters, OpenOk(f, a) PROVE StopOK'
  BY <1>9 DEF OpenOk, Opening, Turn, Goes, Finished, Replaced
<1>10. ASSUME NEW f \in Flows, NEW a \in Adapters, OpenFail(f, a) PROVE StopOK'
  BY <1>10 DEF OpenFail, Opening, Turn, Goes, Finished, Fault
<1>11. ASSUME NEW f \in Flows, NEW a \in Adapters, CallbackFail(f, a) PROVE StopOK'
  BY <1>11 DEF CallbackFail, CallbackFailWith, Opening, Turn, Goes, Finished, Fault, Replaced
<1>12. CASE Stop
  BY <1>12 DEF Stop, AsyncFinal
<1>13. ASSUME NEW a \in Adapters, Replug(a) PROVE StopOK'
  BY <1>13 DEF Replug, Fault
<1>14. ASSUME NEW a \in Adapters, HciAdapterError(a) PROVE StopOK'
  BY <1>14 DEF HciAdapterError, Fault, LaunchRefresh
<1>15. CASE MgmtEvent
  BY <1>15 DEF MgmtEvent, LaunchRefresh
<1>16. CASE MgmtClose
  BY <1>16 DEF MgmtClose, Fault, LaunchRefresh
<1>17. CASE LateError
  BY <1>17 DEF LateError, LaunchRefresh
<1>18. ASSUME NEW f \in Flows, NEW a \in Adapters, OpeningError(f, a) PROVE StopOK'
  BY <1>18 DEF OpeningError, Fault, LaunchRefresh
<1>19. CASE UNCHANGED vars
  BY <1>19 DEF vars
<1> QED
  BY <1>1, <1>2, <1>3, <1>4, <1>5, <1>6, <1>7, <1>8, <1>9, <1>10, <1>11, <1>12, <1>13, <1>14, <1>15, <1>16, <1>17,
     <1>18, <1>19 DEF Next

-----------------------------------------------------------------------------
\* The initial state satisfies the invariant (__init__ of the manager).
LEMMA InitEstablishes == Init => IInv
<1> SUFFICES ASSUME Init PROVE IInv
  OBVIOUS
<1>1. TypeOK
  <2>1. faults \in 0 .. MaxFaults
    BY HciAssumption DEF Init
  <2>2. pc \in [Flows -> PcValues] /\ tries \in [Flows -> Nat]
    BY DEF Init, PcValues
  <2>3. /\ adapter \in [Adapters -> {"none", "up", "deaf", "ended"}]
        /\ todo \in [Flows -> SUBSET Adapters] /\ failed \in [Flows -> SUBSET Adapters]
        /\ unheard \in [Flows -> SUBSET Adapters]
    BY DEF Init
  <2>4. /\ present \in SUBSET Adapters /\ owner \in SUBSET Flows
        /\ leaked \in SUBSET Adapters /\ shown \in SUBSET Adapters
    BY DEF Init
  <2> QED BY <2>1, <2>2, <2>3, <2>4 DEF Init, TypeOK
<1>2. OneRefresh /\ PcOK /\ StopOK
  BY DEF Init, OneRefresh, PcOK, StopOK, Flows, Registered
<1>3. RoundsOK /\ EndedOK
  BY DEF Init, RoundsOK, EndedOK, Flows, Running, Active
<1> QED BY <1>1, <1>2, <1>3 DEF IInv

\* Every step preserves it.
LEMMA NextPreserves == IInv /\ [Next]_vars => IInv'
<1> SUFFICES ASSUME IInv, [Next]_vars PROVE IInv'
  OBVIOUS
<1>1. TypeOK' BY TypePreserved DEF IInv
<1>2. OneRefresh' BY FlagPreserved
<1>3. PcOK' BY PcPreserved
<1>4. RoundsOK' BY RoundsPreserved
<1>5. EndedOK' BY EndedPreserved
<1>6. StopOK' BY StopPreserved
<1> QED BY <1>1, <1>2, <1>3, <1>4, <1>5, <1>6 DEF IInv

\* The inductive invariant of the manager holds in every reachable state.
THEOREM ManagerInvariant == SafeSpec => []IInv
<1>1. Init => IInv BY InitEstablishes
<1>2. IInv /\ [Next]_vars => IInv' BY NextPreserves
<1> QED BY <1>1, <1>2, PTL DEF SafeSpec

\* The state of the manager is of its type, for all controllers and retries.
THEOREM ManagerTypeCorrect == SafeSpec => []TypeOK
<1>1. IInv => TypeOK BY DEF IInv
<1> QED BY <1>1, ManagerInvariant, PTL

\* There is one reconnection task at most, and _reconnecting says when.
THEOREM RefreshIsUnique == SafeSpec => []OneRefresh
<1>1. IInv => OneRefresh BY DEF IInv
<1> QED BY <1>1, ManagerInvariant, PTL

\* An adapter is left running outside of the registry only when a refresh was
\* started during the initialisation.
THEOREM LeaksNeedOverlap == SafeSpec => []LeakOnlyOnOverlap
<1>1. IInv => LeakOnlyOnOverlap BY DEF IInv, RoundsOK, LeakOnlyOnOverlap
<1> QED BY <1>1, ManagerInvariant, PTL

\* An adapter registered though ended belongs to the rounds of an activity.
THEOREM EndedAreRetried == SafeSpec => []EndedIsRetried
<1>1. IInv => EndedIsRetried BY DEF IInv, EndedOK, EndedIsRetried
<1> QED BY <1>1, ManagerInvariant, PTL

\* A stop that finds the manager at rest is final.
THEOREM StopAtRestIsFinal == SafeSpec => []StopAtRest
<1>1. IInv => StopAtRest
  BY DEF IInv, StopOK, OneRefresh, StopAtRest
<1> QED BY <1>1, ManagerInvariant, PTL

-----------------------------------------------------------------------------
(***************************************************************************)
(* The manager of the proxies.                                             *)
(***************************************************************************)

\* What the pieces of the handlers do to the registry and to the tasks. busy is
\* working, or working without the task that acts.

\* _create_adapter registers a new adapter for each proxy of Q, and no other.
LEMMA CreateType ==
  ASSUME EspTypeOK, NEW known \in SUBSET Proxies, NEW Q \in SUBSET Proxies,
         NEW busy \in [Proxies -> SUBSET Nat],
         \A p \in Proxies : busy[p] \subseteq 1 .. born[p],
         CreateAmong(known, Q, busy)
  PROVE  /\ ids' \in SUBSET Proxies
         /\ born' \in [Proxies -> Nat]
         /\ adapters' \in [Proxies -> Nat]
         /\ processing' \in [Proxies -> SUBSET Nat]
         /\ working' \in [Proxies -> SUBSET Nat]
         /\ \A p \in Proxies :
              /\ born[p] <= born'[p]
              /\ adapters'[p] <= born'[p]
              /\ processing'[p] \cup working'[p] \subseteq 1 .. born'[p]
  <1>1. /\ born \in [Proxies -> Nat] /\ adapters \in [Proxies -> Nat] /\ ids \in SUBSET Proxies
        /\ processing \in [Proxies -> SUBSET Nat]
        /\ \A p \in Proxies : adapters[p] <= born[p] /\ processing[p] \subseteq 1 .. born[p]
    BY DEF EspTypeOK
  <1>2. \A p \in Proxies : born[p] + 1 \in Nat
    BY <1>1
  <1>3. ids' \in SUBSET Proxies
    BY <1>1 DEF CreateAmong
  <1>4. born' \in [Proxies -> Nat] /\ adapters' \in [Proxies -> Nat]
    BY <1>1, <1>2 DEF CreateAmong
  <1>5. processing' \in [Proxies -> SUBSET Nat] /\ working' \in [Proxies -> SUBSET Nat]
    BY <1>1, <1>2 DEF CreateAmong
  <1>6. ASSUME NEW p \in Proxies
        PROVE  /\ born[p] <= born'[p]
               /\ adapters'[p] <= born'[p]
               /\ processing'[p] \cup working'[p] \subseteq 1 .. born'[p]
    BY <1>1 DEF CreateAmong
  <1>. QED BY <1>3, <1>4, <1>5, <1>6

\* The rest of the state being typed, so is the state after a creation.
LEMMA CreateTypeOK ==
  ASSUME EspTypeOK, NEW known \in SUBSET Proxies, NEW Q \in SUBSET Proxies,
         NEW busy \in [Proxies -> SUBSET Nat],
         \A p \in Proxies : busy[p] \subseteq 1 .. born[p],
         CreateAmong(known, Q, busy),
         here' \in SUBSET Proxies, listening' \in BOOLEAN, espStop' = espStop,
         renamed' \in BOOLEAN,
         raised' \in BOOLEAN, espFaults' \in 0 .. MaxEspFaults,
         resetting' \in [Proxies -> SUBSET Nat],
         \A p \in Proxies : resetting'[p] \subseteq resetting[p]
  PROVE  EspTypeOK'
  <1>1. /\ ids' \in SUBSET Proxies
        /\ born' \in [Proxies -> Nat]
        /\ adapters' \in [Proxies -> Nat]
        /\ processing' \in [Proxies -> SUBSET Nat]
        /\ working' \in [Proxies -> SUBSET Nat]
        /\ \A p \in Proxies :
             /\ born[p] <= born'[p]
             /\ adapters'[p] <= born'[p]
             /\ processing'[p] \cup working'[p] \subseteq 1 .. born'[p]
    BY CreateType
  <1>2. \A p \in Proxies : born[p] \in Nat /\ resetting[p] \subseteq 1 .. born[p]
    BY DEF EspTypeOK
  <1>3. ASSUME NEW p \in Proxies PROVE resetting'[p] \subseteq 1 .. born'[p]
    BY <1>1, <1>2
  <1>4. espStop' \in {"no", "rest", "busy"}
    BY DEF EspTypeOK
  <1>. QED BY <1>1, <1>3, <1>4 DEF EspTypeOK

LEMMA CreateRegisters ==
  ASSUME EspTypeOK, NEW Q \in SUBSET Proxies, NEW known, NEW busy,
         CreateAmong(known, Q, busy)
  PROVE  EspRegistered' = EspRegistered \cup Q
  <1>1. \A p \in Proxies : adapters'[p] = IF p \in Q THEN born[p] + 1 ELSE adapters[p]
    BY DEF CreateAmong
  <1>2. \A p \in Proxies : born[p] + 1 # 0
    BY DEF EspTypeOK
  <1>. QED BY <1>1, <1>2 DEF EspRegistered

LEMMA CreateLeavesNoOrphan ==
  ASSUME EspTypeOK, NoOrphan, NEW Q \in SUBSET Proxies, Q \cap EspRegistered = {},
         NEW known, ~renamed' => known = ids /\ ~renamed,
         NEW busy, CreateAmong(known, Q, busy), raised' = raised
  PROVE  NoOrphan'
  <1>1. SUFFICES ASSUME ~raised
                 PROVE  /\ \A p \in Proxies : processing'[p] = {adapters'[p]} \ {0}
                        /\ ~renamed' => ids' = EspRegistered'
    BY DEF NoOrphan
  <1>2. ~renamed' => ids' = EspRegistered'
    <2>1. EspRegistered' = EspRegistered \cup Q
      BY CreateRegisters
    <2>2. ids' = known \cup Q
      BY DEF CreateAmong
    <2>. QED BY <1>1, <2>1, <2>2 DEF NoOrphan
  <1>3. ASSUME NEW p \in Proxies PROVE processing'[p] = {adapters'[p]} \ {0}
    <2>1. processing[p] = {adapters[p]} \ {0} /\ born[p] \in Nat
      BY <1>1 DEF NoOrphan, EspTypeOK
    <2>2. CASE p \in Q
      <3>1. adapters[p] = 0 /\ born[p] + 1 # 0
        BY <2>1, <2>2 DEF EspRegistered
      <3>2. processing'[p] = processing[p] \cup {born[p] + 1} /\ adapters'[p] = born[p] + 1
        BY <2>2 DEF CreateAmong
      <3>. QED BY <2>1, <3>1, <3>2
    <2>3. CASE p \notin Q
      BY <2>1, <2>3 DEF CreateAmong
    <2>. QED BY <2>2, <2>3
  <1>. QED BY <1>2, <1>3

\* The two facts for the proxies that were recognised before.
LEMMA CreateKeepsType ==
  ASSUME EspTypeOK, NEW Q \in SUBSET Proxies,
         NEW busy \in [Proxies -> SUBSET Nat],
         \A p \in Proxies : busy[p] \subseteq 1 .. born[p],
         Create(Q, busy),
         here' \in SUBSET Proxies, listening' \in BOOLEAN, espStop' = espStop,
         renamed' = renamed,
         raised' \in BOOLEAN, espFaults' \in 0 .. MaxEspFaults,
         resetting' \in [Proxies -> SUBSET Nat],
         \A p \in Proxies : resetting'[p] \subseteq resetting[p]
  PROVE  EspTypeOK'
  <1>1. ids \in SUBSET Proxies /\ renamed' \in BOOLEAN
    BY DEF EspTypeOK
  <1>2. CreateAmong(ids, Q, busy)
    BY DEF Create
  <1>. QED BY <1>1, <1>2, CreateTypeOK

LEMMA CreateKeepsNoOrphan ==
  ASSUME EspTypeOK, NoOrphan, NEW Q \in SUBSET Proxies, Q \cap EspRegistered = {},
         NEW busy, Create(Q, busy), renamed' = renamed, raised' = raised
  PROVE  NoOrphan'
  <1>1. CreateAmong(ids, Q, busy)
    BY DEF Create
  <1>2. ~renamed' => ids = ids /\ ~renamed
    OBVIOUS
  <1>. QED BY <1>1, <1>2, CreateLeavesNoOrphan

\* _remove_adapter drops the adapter of p and only it, whether a device raises or
\* not, and if none does the adapter is finalised.
LEMMA RemoveType ==
  ASSUME EspTypeOK, NEW p \in Proxies, NEW busy \in [Proxies -> SUBSET Nat],
         \A q \in Proxies : busy[q] \subseteq 1 .. born[q],
         Removed(p, busy) \/ RemovalRaises(p, busy)
  PROVE  /\ ids' \in SUBSET Proxies
         /\ born' = born
         /\ adapters' \in [Proxies -> Nat]
         /\ processing' \in [Proxies -> SUBSET Nat]
         /\ working' \in [Proxies -> SUBSET Nat]
         /\ raised' \in BOOLEAN
         /\ \A q \in Proxies :
              /\ adapters'[q] <= born'[q]
              /\ processing'[q] \cup working'[q] \subseteq 1 .. born'[q]
  <1>1. /\ born \in [Proxies -> Nat] /\ adapters \in [Proxies -> Nat] /\ ids \in SUBSET Proxies
        /\ processing \in [Proxies -> SUBSET Nat] /\ raised \in BOOLEAN
        /\ \A q \in Proxies : adapters[q] <= born[q] /\ processing[q] \subseteq 1 .. born[q]
    BY DEF EspTypeOK
  <1>2. born' = born /\ adapters' = [adapters EXCEPT ![p] = 0]
    BY DEF Removed, RemovalRaises
  <1>3. ids' \in SUBSET Proxies /\ raised' \in BOOLEAN
    BY <1>1 DEF Removed, RemovalRaises, Raises
  <1>4. processing' = processing \/ processing' = [processing EXCEPT ![p] = @ \ {adapters[p]}]
    BY DEF Removed, RemovalRaises
  <1>5. working' = busy \/ working' = [busy EXCEPT ![p] = @ \ {adapters[p]}]
    BY DEF Removed, RemovalRaises
  <1>6. adapters' \in [Proxies -> Nat] /\ \A q \in Proxies : adapters'[q] <= born'[q]
    BY <1>1, <1>2
  <1>7. /\ processing' \in [Proxies -> SUBSET Nat]
        /\ \A q \in Proxies : processing'[q] \subseteq 1 .. born'[q]
    BY <1>1, <1>2, <1>4
  <1>8. /\ working' \in [Proxies -> SUBSET Nat]
        /\ \A q \in Proxies : working'[q] \subseteq 1 .. born'[q]
    BY <1>1, <1>2, <1>5
  <1>. QED BY <1>2, <1>3, <1>6, <1>7, <1>8

LEMMA RemoveRegisters ==
  ASSUME EspTypeOK, NoOrphan, NEW p \in Proxies, NEW busy, renamed' = renamed,
         Removed(p, busy) \/ RemovalRaises(p, busy)
  PROVE  EspRegistered' = EspRegistered \ {p} /\ NoOrphan'
  <1>1. adapters' = [adapters EXCEPT ![p] = 0] /\ adapters \in [Proxies -> Nat]
    BY DEF Removed, RemovalRaises, EspTypeOK
  <1>2. EspRegistered' = EspRegistered \ {p}
    BY <1>1 DEF EspRegistered
  <1>3. CASE RemovalRaises(p, busy)
    BY <1>2, <1>3 DEF RemovalRaises, Raises, NoOrphan
  <1>4. CASE Removed(p, busy)
    <2>1. raised' = raised /\ ids' = ids \ ({p} \cap EspRegistered)
      BY <1>4 DEF Removed
    <2>2. \A q \in Proxies : processing'[q] = IF q = p THEN processing[q] \ {adapters[p]} ELSE processing[q]
      BY <1>4 DEF Removed, EspTypeOK
    <2>3. ASSUME ~raised PROVE \A q \in Proxies : processing'[q] = {adapters'[q]} \ {0}
      BY <1>1, <2>2, <2>3 DEF NoOrphan
    <2>4. ASSUME ~raised, ~renamed PROVE ids' = EspRegistered'
      BY <1>2, <2>1, <2>4 DEF NoOrphan
    <2>. QED BY <1>2, <2>1, <2>3, <2>4 DEF NoOrphan
  <1>. QED BY <1>3, <1>4

-----------------------------------------------------------------------------
(***************************************************************************)
(* The steps.                                                              *)
(***************************************************************************)

LEMMA InitStep ==
  EspInit => EspIInv
  <1>1. SUFFICES ASSUME EspInit PROVE EspIInv
    OBVIOUS
  <1>2. EspRegistered = {}
    BY <1>1 DEF EspInit, EspRegistered
  <1>3. EspTypeOK
    <2>1. /\ born \in [Proxies -> Nat] /\ adapters \in [Proxies -> Nat]
          /\ processing \in [Proxies -> SUBSET Nat]
          /\ working \in [Proxies -> SUBSET Nat]
          /\ resetting \in [Proxies -> SUBSET Nat]
      BY <1>1 DEF EspInit
    <2>2. \A p \in Proxies :
            adapters[p] <= born[p] /\ processing[p] = {} /\ working[p] = {} /\ resetting[p] = {}
      BY <1>1 DEF EspInit
    <2>3. espFaults \in 0 .. MaxEspFaults
      BY <1>1, EspAssumption DEF EspInit
    <2>. QED BY <1>1, <2>1, <2>2, <2>3 DEF EspInit, EspTypeOK
  <1>. QED BY <1>1, <1>2, <1>3 DEF EspInit, EspIInv, NoOrphan, Covered,
                                   EspStopAtRest, StartedOK

\* Before the start, and before a handler that creates adapters, nothing is missed.
LEMMA AsyncInitStep == EspIInv /\ EspAsyncInit => EspIInv'
  <1>1. SUFFICES ASSUME EspIInv, EspAsyncInit PROVE EspIInv'
    OBVIOUS
  <1>2. EspTypeOK /\ NoOrphan /\ StartedOK
    BY <1>1 DEF EspIInv
  <1>3. Missing \in SUBSET Proxies /\ Missing \cap EspRegistered = {}
    BY <1>2 DEF Missing, EspTypeOK
  <1>4. /\ Create(Missing, working) /\ listening' = TRUE /\ espStop = "no"
        /\ UNCHANGED <<here, resetting, espStop, renamed, raised, espFaults>>
    BY <1>1 DEF EspAsyncInit
  <1>5. EspRegistered = {}
    <2>1. \A p \in Proxies : born[p] = 0 /\ adapters[p] \in Nat /\ adapters[p] <= born[p]
      BY <1>1, <1>2 DEF EspAsyncInit, StartedOK, EspTypeOK
    <2>. QED BY <2>1 DEF EspRegistered
  <1>6. EspTypeOK'
    <2>1. /\ working \in [Proxies -> SUBSET Nat]
          /\ \A p \in Proxies : working[p] \subseteq 1 .. born[p]
      BY <1>2 DEF EspTypeOK
    <2>2. /\ here' \in SUBSET Proxies /\ listening' \in BOOLEAN /\ raised' \in BOOLEAN
          /\ espFaults' \in 0 .. MaxEspFaults /\ resetting' \in [Proxies -> SUBSET Nat]
      BY <1>2, <1>4 DEF EspTypeOK
    <2>. QED BY <1>2, <1>3, <1>4, <2>1, <2>2, CreateKeepsType
  <1>7. NoOrphan'
    BY <1>2, <1>3, <1>4, CreateKeepsNoOrphan
  <1>8. EspRegistered' = here'
    BY <1>2, <1>3, <1>4, <1>5, CreateRegisters DEF Missing, Create
  <1>9. Covered'
    BY <1>8 DEF Covered
  <1>. QED BY <1>4, <1>6, <1>7, <1>9 DEF EspIInv, StartedOK, EspStopAtRest
LEMMA FaultCounts ==
  EspTypeOK /\ EspFault => espFaults' \in 0 .. MaxEspFaults
  BY EspAssumption DEF EspTypeOK, EspFault

LEMMA AppearStep ==
  ASSUME EspIInv, NEW p \in Proxies, Appear(p)
  PROVE  EspIInv'
  <1>1. EspTypeOK /\ NoOrphan /\ Covered /\ StartedOK /\ EspStopAtRest
    BY DEF EspIInv
  <1>2. /\ here' = here \cup {p} /\ espFaults' \in 0 .. MaxEspFaults
        /\ raised' = raised \/ raised' = TRUE
        /\ UNCHANGED <<listening, resetting, espStop, renamed>>
    BY <1>1, FaultCounts DEF Appear, Raises
  <1>3. CASE ~listening
    <2>1. UNCHANGED <<espReg, processing, working, raised>>
      BY <1>3 DEF Appear
    <2>2. EspRegistered' = EspRegistered
      BY <2>1 DEF EspRegistered, espReg
    <2>3. EspTypeOK'
      BY <1>1, <1>2, <2>1 DEF EspTypeOK, espReg
    <2>. QED BY <1>1, <1>2, <1>3, <2>1, <2>2, <2>3
             DEF EspIInv, NoOrphan, Covered, StartedOK, EspStopAtRest, espReg
  <1>4. CASE listening
    <2>. DEFINE Q == {p} \ EspRegistered
    <2>1. Create(Q, working)
      BY <1>4 DEF Appear
    <2>2. Q \in SUBSET Proxies /\ Q \cap EspRegistered = {}
      OBVIOUS
    <2>. HIDE DEF Q
    <2>3. /\ working \in [Proxies -> SUBSET Nat]
          /\ \A q \in Proxies : working[q] \subseteq 1 .. born[q]
          /\ resetting' \in [Proxies -> SUBSET Nat]
          /\ listening' \in BOOLEAN /\ raised' \in BOOLEAN /\ here' \in SUBSET Proxies
      BY <1>1, <1>2 DEF EspTypeOK
    <2>4. EspTypeOK'
      BY <1>1, <1>2, <2>1, <2>2, <2>3, CreateKeepsType
    <2>5. EspRegistered' = EspRegistered \cup {p}
      BY <1>1, <2>1, <2>2, CreateRegisters DEF Q, Create
    <2>6. NoOrphan'
      <3>1. CASE raised' = raised
        BY <1>1, <1>2, <2>1, <2>2, <3>1, CreateKeepsNoOrphan
      <3>2. CASE raised' = TRUE
        BY <3>2 DEF NoOrphan
      <3>. QED BY <1>2, <3>1, <3>2
    <2>7. Covered'
      BY <1>1, <1>2, <2>5 DEF Covered
    <2>. QED BY <1>1, <1>2, <1>4, <2>4, <2>6, <2>7 DEF EspIInv, StartedOK, EspStopAtRest
  <1>. QED BY <1>3, <1>4

LEMMA VanishStep ==
  ASSUME EspIInv, NEW p \in Proxies, Vanish(p)
  PROVE  EspIInv'
  <1>1. EspTypeOK /\ NoOrphan /\ Covered /\ StartedOK /\ EspStopAtRest
    BY DEF EspIInv
  <1>2. /\ here' = here \ {p} /\ espFaults' \in 0 .. MaxEspFaults
        /\ UNCHANGED <<listening, resetting, espStop, renamed>>
    BY <1>1, FaultCounts DEF Vanish
  <1>3. CASE ~listening
    <2>1. UNCHANGED <<espReg, processing, working, raised>>
      BY <1>3 DEF Vanish
    <2>2. EspRegistered' = EspRegistered
      BY <2>1 DEF EspRegistered, espReg
    <2>3. EspTypeOK'
      BY <1>1, <1>2, <2>1 DEF EspTypeOK, espReg
    <2>. QED BY <1>1, <1>2, <1>3, <2>1, <2>2, <2>3
             DEF EspIInv, NoOrphan, Covered, StartedOK, EspStopAtRest, espReg
  <1>4. CASE listening
    <2>1. Removed(p, working) \/ RemovalRaises(p, working)
      BY <1>4 DEF Vanish
    <2>2. /\ working \in [Proxies -> SUBSET Nat]
          /\ \A q \in Proxies : working[q] \subseteq 1 .. born[q]
      BY <1>1 DEF EspTypeOK
    <2>3. EspTypeOK'
      BY <1>1, <1>2, <2>1, <2>2, RemoveType DEF EspTypeOK
    <2>4. EspRegistered' = EspRegistered \ {p} /\ NoOrphan'
      BY <1>1, <1>2, <2>1, RemoveRegisters
    <2>5. raised' = raised \/ raised' = TRUE
      BY <2>1 DEF Removed, RemovalRaises, Raises
    <2>6. Covered'
      BY <1>1, <1>2, <2>4, <2>5 DEF Covered
    <2>. QED BY <1>1, <1>2, <1>4, <2>3, <2>4, <2>6 DEF EspIInv, StartedOK, EspStopAtRest
  <1>. QED BY <1>3, <1>4

\* The former name keeps its adapter, the new one has one.
LEMMA RenameStep ==
  ASSUME EspIInv, NEW p \in Proxies, NEW q \in Proxies, Rename(p, q)
  PROVE  EspIInv'
  <1>1. EspTypeOK /\ NoOrphan /\ Covered /\ StartedOK /\ EspStopAtRest
    BY DEF EspIInv
  <1>2. /\ here' = (here \ {p}) \cup {q} /\ espFaults' \in 0 .. MaxEspFaults
        /\ renamed' = listening /\ ~renamed
        /\ raised' = raised \/ raised' = TRUE
        /\ UNCHANGED <<listening, resetting, espStop>>
    BY <1>1, FaultCounts DEF Rename, Raises
  <1>3. CASE ~listening
    <2>1. UNCHANGED <<espReg, processing, working, raised>>
      BY <1>3 DEF Rename
    <2>2. EspRegistered' = EspRegistered
      BY <2>1 DEF EspRegistered, espReg
    <2>3. EspTypeOK'
      BY <1>1, <1>2, <2>1 DEF EspTypeOK, espReg
    <2>. QED BY <1>1, <1>2, <1>3, <2>1, <2>2, <2>3
             DEF EspIInv, NoOrphan, Covered, StartedOK, EspStopAtRest, espReg
  <1>4. CASE listening
    <2>. DEFINE Q == {q} \ EspRegistered
                known == IF q \in EspRegistered THEN ids ELSE ids \ {p}
    <2>1. CreateAmong(known, Q, working)
      BY <1>4 DEF Rename
    <2>2. Q \in SUBSET Proxies /\ Q \cap EspRegistered = {} /\ known \in SUBSET Proxies
      BY <1>1 DEF EspTypeOK
    <2>3. EspRegistered \cup Q = EspRegistered \cup {q}
      OBVIOUS
    <2>. HIDE DEF Q, known
    <2>4. /\ working \in [Proxies -> SUBSET Nat]
          /\ \A r \in Proxies : working[r] \subseteq 1 .. born[r]
          /\ resetting' \in [Proxies -> SUBSET Nat]
          /\ listening' \in BOOLEAN /\ raised' \in BOOLEAN /\ here' \in SUBSET Proxies
          /\ renamed' = TRUE
      BY <1>1, <1>2, <1>4 DEF EspTypeOK
    <2>5. EspTypeOK'
      BY <1>1, <1>2, <2>1, <2>2, <2>4, CreateTypeOK
    <2>6. EspRegistered' = EspRegistered \cup {q}
      BY <1>1, <2>1, <2>2, <2>3, CreateRegisters
    <2>7. NoOrphan'
      <3>1. CASE raised' = raised
        BY <1>1, <2>1, <2>2, <2>4, <3>1, CreateLeavesNoOrphan
      <3>2. CASE raised' = TRUE
        BY <3>2 DEF NoOrphan
      <3>. QED BY <1>2, <3>1, <3>2
    <2>8. Covered'
      BY <1>1, <1>2, <2>4, <2>6 DEF Covered
    <2>. QED BY <1>1, <1>2, <1>4, <2>5, <2>7, <2>8 DEF EspIInv, StartedOK, EspStopAtRest
  <1>. QED BY <1>3, <1>4

LEMMA EndsStep ==
  ASSUME EspIInv, NEW p \in Proxies, NEW n \in 1 .. born[p], Ends(p, n)
  PROVE  EspIInv'
  <1>1. EspTypeOK /\ NoOrphan /\ Covered /\ StartedOK /\ EspStopAtRest
    BY DEF EspIInv
  <1>2. /\ n \in working[p]
        /\ working' = [working EXCEPT ![p] = @ \ {n}]
        /\ UNCHANGED <<here, listening, espReg, processing, resetting, espStop, renamed, raised, espFaults>>
    BY DEF Ends
  <1>3. EspTypeOK'
    <2>1. /\ working' \in [Proxies -> SUBSET Nat]
          /\ \A q \in Proxies : working'[q] \subseteq working[q]
      BY <1>1, <1>2 DEF EspTypeOK
    <2>. QED BY <1>1, <1>2, <2>1 DEF EspTypeOK, espReg
  <1>4. EspRegistered' = EspRegistered
    BY <1>2 DEF EspRegistered, espReg
  <1>5. espStop' # "rest"
    BY <1>1, <1>2 DEF EspStopAtRest
  <1>. QED BY <1>1, <1>2, <1>3, <1>4, <1>5 DEF EspIInv, NoOrphan, Covered,
                                               StartedOK, EspStopAtRest, espReg

LEMMA ResetStep ==
  ASSUME EspIInv, NEW p \in Proxies, NEW n \in 1 .. born[p], Reset(p, n)
  PROVE  EspIInv'
  <1>. DEFINE busy == [working EXCEPT ![p] = @ \ {n}]
  <1>1. EspTypeOK /\ NoOrphan /\ Covered /\ StartedOK /\ EspStopAtRest
    BY DEF EspIInv
  <1>2. /\ n \in working[p] /\ espFaults' \in 0 .. MaxEspFaults
        /\ UNCHANGED <<here, listening, espStop, renamed>>
    BY <1>1, FaultCounts DEF Reset
  <1>3. Removed(p, busy) \/ RemovalRaises(p, busy)
    BY DEF Reset
  <1>4. \/ raised' = TRUE /\ resetting' = resetting
        \/ raised' = raised /\ resetting' = [resetting EXCEPT ![p] = @ \cup {n}]
    BY DEF Reset, Removed, RemovalRaises, Raises
  <1>5. /\ busy \in [Proxies -> SUBSET Nat]
        /\ \A q \in Proxies : busy[q] \subseteq 1 .. born[q]
    BY <1>1 DEF EspTypeOK
  <1>6. /\ resetting' \in [Proxies -> SUBSET Nat]
        /\ \A q \in Proxies : resetting'[q] \subseteq 1 .. born[q]
    BY <1>1, <1>4 DEF EspTypeOK
  <1>. HIDE DEF busy
  <1>7. EspTypeOK'
    BY <1>1, <1>2, <1>3, <1>5, <1>6, RemoveType DEF EspTypeOK
  <1>8. NoOrphan' /\ EspRegistered' = EspRegistered \ {p}
    BY <1>1, <1>2, <1>3, RemoveRegisters
  <1>9. Covered'
    <2>1. CASE raised' = TRUE
      BY <2>1 DEF Covered
    <2>2. CASE resetting' = [resetting EXCEPT ![p] = @ \cup {n}] /\ raised' = raised
      <3>1. resetting'[p] # {}
        BY <1>1, <2>2 DEF EspTypeOK
      <3>. QED BY <1>1, <1>2, <1>8, <2>2, <3>1 DEF Covered
    <2>. QED BY <1>4, <2>1, <2>2
  <1>10. StartedOK'
    <2>1. born' = born
      BY <1>3 DEF Removed, RemovalRaises
    <2>. QED BY <1>1, <1>2, <2>1 DEF StartedOK
  <1>11. EspStopAtRest'
    BY <1>1, <1>2 DEF EspStopAtRest
  <1>. QED BY <1>7, <1>8, <1>9, <1>10, <1>11 DEF EspIInv

LEMMA RediscoverStep ==
  ASSUME EspIInv, NEW p \in Proxies, NEW n \in 1 .. born[p], Rediscover(p, n)
  PROVE  EspIInv'
  <1>. DEFINE busy == [working EXCEPT ![p] = @ \cup ({n} \cap processing[p])]
  <1>1. EspTypeOK /\ NoOrphan /\ Covered /\ StartedOK /\ EspStopAtRest
    BY DEF EspIInv
  <1>2. /\ n \in resetting[p]
        /\ resetting' = [resetting EXCEPT ![p] = @ \ {n}]
        /\ UNCHANGED <<here, listening, espStop, renamed, espFaults>>
    BY DEF Rediscover
  <1>3. Missing \in SUBSET Proxies /\ Missing \cap EspRegistered = {}
    BY <1>1 DEF Missing, EspTypeOK
  <1>4. /\ resetting' \in [Proxies -> SUBSET Nat]
        /\ \A q \in Proxies : resetting'[q] \subseteq resetting[q]
    BY <1>1, <1>2 DEF EspTypeOK
  <1>5. /\ here' \in SUBSET Proxies /\ listening' \in BOOLEAN /\ espFaults' \in 0 .. MaxEspFaults
        /\ espStop' = espStop
    BY <1>1, <1>2 DEF EspTypeOK
  <1>6. espStop # "rest"
    BY <1>1, <1>2 DEF EspStopAtRest
  <1>7. EspStopAtRest'
    BY <1>2, <1>6 DEF EspStopAtRest
  <1>8. born[p] # 0
    OBVIOUS
  <1>9. StartedOK'
    BY <1>1, <1>2, <1>8 DEF StartedOK
  <1>10. CASE Create(Missing, busy) /\ raised' = raised
    <2>1. /\ busy \in [Proxies -> SUBSET Nat]
          /\ \A q \in Proxies : busy[q] \subseteq 1 .. born[q]
      BY <1>1 DEF EspTypeOK
    <2>2. raised' \in BOOLEAN
      BY <1>1, <1>10 DEF EspTypeOK
    <2>. HIDE DEF busy
    <2>3. EspTypeOK'
      BY <1>1, <1>2, <1>3, <1>4, <1>5, <1>10, <2>1, <2>2, CreateKeepsType
    <2>4. NoOrphan'
      BY <1>1, <1>2, <1>3, <1>10, CreateKeepsNoOrphan
    <2>5. EspRegistered' = EspRegistered \cup Missing
      BY <1>1, <1>3, <1>10, CreateRegisters DEF Create
    <2>6. Covered'
      BY <1>1, <1>2, <1>10, <2>5 DEF Covered, Missing
    <2>. QED BY <1>7, <1>9, <2>3, <2>4, <2>6 DEF EspIInv
  <1>11. ASSUME NEW Q \in SUBSET Missing, Create(Q, working), raised' = TRUE
         PROVE  EspIInv'
    <2>1. Q \in SUBSET Proxies
      BY <1>3
    <2>2. /\ working \in [Proxies -> SUBSET Nat]
          /\ \A q \in Proxies : working[q] \subseteq 1 .. born[q]
          /\ raised' \in BOOLEAN
      BY <1>1, <1>11 DEF EspTypeOK
    <2>3. EspTypeOK'
      BY <1>1, <1>2, <1>4, <1>5, <1>11, <2>1, <2>2, CreateKeepsType
    <2>. QED BY <1>7, <1>9, <1>11, <2>3 DEF EspIInv, NoOrphan, Covered
  <1>. QED BY <1>10, <1>11 DEF Rediscover, Raises

LEMMA AsyncFinalStep == EspIInv /\ EspAsyncFinal => EspIInv'
  <1>1. SUFFICES ASSUME EspIInv, EspAsyncFinal PROVE EspIInv'
    OBVIOUS
  <1>2. EspTypeOK /\ NoOrphan /\ StartedOK
    BY <1>1 DEF EspIInv
  <1>3. /\ listening' = FALSE
        /\ adapters' = [p \in Proxies |-> 0]
        /\ ids' = {}
        /\ processing' = [p \in Proxies |-> processing[p] \ {adapters[p]}]
        /\ espStop' \in {"rest", "busy"}
        /\ espStop' = "rest" => \A p \in Proxies : working'[p] = {} /\ resetting[p] = {}
        /\ UNCHANGED <<here, born, resetting, renamed, raised, espFaults>>
    BY <1>1 DEF EspAsyncFinal
  <1>4. PICK busyOnes \in SUBSET EspRegistered :
          working' = [p \in Proxies |-> IF p \in busyOnes THEN working[p] ELSE working[p] \ {adapters[p]}]
    BY <1>1 DEF EspAsyncFinal
  <1>5. /\ working' \in [Proxies -> SUBSET Nat]
        /\ \A p \in Proxies : working'[p] \subseteq 1 .. born'[p]
    BY <1>2, <1>3, <1>4 DEF EspTypeOK
  <1>6. /\ processing' \in [Proxies -> SUBSET Nat] /\ adapters' \in [Proxies -> Nat]
        /\ \A p \in Proxies : adapters'[p] <= born'[p] /\ processing'[p] \subseteq 1 .. born'[p]
    BY <1>2, <1>3 DEF EspTypeOK
  <1>7. EspTypeOK'
    BY <1>2, <1>3, <1>5, <1>6 DEF EspTypeOK
  <1>8. EspRegistered' = {}
    BY <1>3 DEF EspRegistered
  <1>9. NoOrphan'
    BY <1>2, <1>3, <1>8 DEF NoOrphan
  <1>10. EspStopAtRest'
    BY <1>3, <1>8 DEF EspStopAtRest
  <1>. QED BY <1>3, <1>7, <1>9, <1>10 DEF EspIInv, Covered, StartedOK

LEMMA NextStep ==
  EspIInv /\ [EspNext]_espVars => EspIInv'
  <1>1. SUFFICES ASSUME EspIInv, [EspNext]_espVars PROVE EspIInv'
    OBVIOUS
  <1>2. CASE UNCHANGED espVars
    BY <1>1, <1>2 DEF espVars, espReg, tasks, EspIInv, EspTypeOK, EspRegistered,
                      NoOrphan, Covered, EspStopAtRest, StartedOK
  <1>3. CASE EspNext
    BY <1>1, <1>3, AsyncInitStep, AsyncFinalStep, AppearStep, VanishStep, RenameStep, EndsStep, ResetStep,
       RediscoverStep DEF EspNext
  <1>. QED BY <1>1, <1>2, <1>3

-----------------------------------------------------------------------------
(***************************************************************************)
(* The theorems.                                                           *)
(***************************************************************************)

\* The inductive invariant of the manager of the proxies, for any set of proxies
\* and any number of changes and errors.
THEOREM EspInvariant ==
  EspSpec => []EspIInv
  <1>. QED BY InitStep, NextStep, PTL DEF EspSpec

\* Type correctness of the registry of the proxies (BleAdvEspBtManager).
THEOREM EspTypeCorrect ==
  EspSpec => []EspTypeOK
  <1>1. EspIInv => EspTypeOK
    BY DEF EspIInv
  <1>. QED BY <1>1, EspInvariant, PTL

\* Until a device raises, no adapter is left running unregistered, and the proxies
\* recognised are those with an adapter (_create_adapter, _remove_adapter).
THEOREM NoneIsOrphan ==
  EspSpec => []NoOrphan
  <1>1. EspIInv => NoOrphan
    BY DEF EspIInv
  <1>. QED BY <1>1, EspInvariant, PTL

\* Until a device raises, each proxy that is there has an adapter or a reset that
\* will look for it is pending (reset_adapter).
THEOREM ProxiesAreCovered ==
  EspSpec => []Covered
  <1>1. EspIInv => Covered
    BY DEF EspIInv
  <1>. QED BY <1>1, EspInvariant, PTL

\* A stop with no piece on the air and no reset pending is final (async_final).
THEOREM EspStopIsFinal ==
  EspSpec => []EspStopAtRest
  <1>1. EspIInv => EspStopAtRest
    BY DEF EspIInv
  <1>. QED BY <1>1, EspInvariant, PTL
=============================================================================
