---------------------------- MODULE DeviceProofs ----------------------------
(***************************************************************************)
(* The device and its lamp, for any number of entities, any levels and any *)
(* configurations: what is shown, the availability and the timer part from *)
(* what the lamp does only where the properties of Device say so.          *)
(***************************************************************************)
EXTENDS Device, TLAPS

-----------------------------------------------------------------------------
(***************************************************************************)
(* The operators on the state of one entity.                               *)
(***************************************************************************)

LEMMA DefaultType == Default \in State
BY DeviceAssumption DEF Default, State

\* The attributes that a command gives are attributes.
LEMMA ApplyType ==
  ASSUME NEW s \in State, NEW c \in Command
  PROVE  /\ Apply(s, c) \in State
         /\ Apply(s, c).on = (CASE "on" \in c.chg -> c.on [] "toggle" \in c.chg -> ~ s.on [] OTHER -> s.on)
         /\ \A a \in Setting : Apply(s, c).level[a] = IF a \in c.chg THEN c.level[a] ELSE s.level[a]
<1>1. c.on \in BOOLEAN /\ s.on \in BOOLEAN
  BY DEF Command, State
<1>2. c.level \in [Setting -> Level] /\ s.level \in [Setting -> Level]
  BY DEF Command, State
<1> DEFINE l == [a \in Setting |-> IF a \in c.chg THEN c.level[a] ELSE s.level[a]]
           b == CASE "on" \in c.chg -> c.on [] "toggle" \in c.chg -> ~ s.on [] OTHER -> s.on
<1>3. l \in [Setting -> Level] BY <1>2
<1>4. b \in BOOLEAN BY <1>1
<1>5. Apply(s, c) = [on |-> b, level |-> l] BY DEF Apply
<1>6. \A a \in Setting : l[a] = IF a \in c.chg THEN c.level[a] ELSE s.level[a] OBVIOUS
<1> HIDE DEF l, b
<1>7. Apply(s, c) \in State /\ Apply(s, c).on = b /\ Apply(s, c).level = l
  BY <1>3, <1>4, <1>5 DEF State
<1> QED BY <1>6, <1>7 DEF b

LEMMA ReceivedType ==
  ASSUME NEW s \in State, NEW new \in State, NEW chg
  PROVE  /\ Received(s, chg, new) \in State
         /\ Received(s, chg, new).on = IF "on" \in chg THEN new.on ELSE s.on
         /\ \A a \in Setting : Received(s, chg, new).level[a] =
              IF a \in chg /\ (s.on \/ Received(s, chg, new).on) THEN new.level[a] ELSE s.level[a]
<1> DEFINE b == IF "on" \in chg THEN new.on ELSE s.on
           l == [a \in Setting |-> IF a \in chg /\ (s.on \/ b) THEN new.level[a] ELSE s.level[a]]
<1>1. b \in BOOLEAN BY DEF State
<1>2. s.level \in [Setting -> Level] /\ new.level \in [Setting -> Level] BY DEF State
<1>3. l \in [Setting -> Level] BY <1>2
<1>4. Received(s, chg, new) = [on |-> b, level |-> l] BY DEF Received
<1>5. \A a \in Setting : l[a] = IF a \in chg /\ (s.on \/ b) THEN new.level[a] ELSE s.level[a]
  OBVIOUS
<1> HIDE DEF b, l
<1>6. Received(s, chg, new) \in State /\ Received(s, chg, new).on = b
      /\ Received(s, chg, new).level = l
  BY <1>1, <1>3, <1>4 DEF State
<1> QED BY <1>5, <1>6 DEF b

\* Two states are the same when their attributes are.
LEMMA SameState ==
  ASSUME NEW s \in State, NEW t \in State, s.on = t.on, \A a \in Setting : s.level[a] = t.level[a]
  PROVE  s = t
<1>1. s.level \in [Setting -> Level] /\ t.level \in [Setting -> Level] BY DEF State
<1>2. s.level = t.level BY <1>1
<1> QED BY <1>2 DEF State

\* The switching off of the timer is a command.
LEMMA OffType == Off \in Command
<1>1. Default.level \in [Setting -> Level] /\ \A a \in Setting : Default.level[a] = DefaultLevel
  BY DeviceAssumption DEF Default
<1>2. Off.to = All /\ Off.chg = {"on"} /\ Off.on = FALSE /\ Off.level = Default.level
  BY DEF Off
<1>3. Off \in [to : Entity \cup {All}, chg : SUBSET (Attr \cup {"toggle", "timer", "pair"}),
               on : BOOLEAN, level : [Setting -> Level]]
  <2>1. {"on"} \in SUBSET (Attr \cup {"toggle", "timer", "pair"}) BY DEF Attr
  <2> QED BY <1>1, <2>1 DEF Off
<1> QED BY <1>1, <1>2, <1>3 DEF Command

LEMMA EntAfterType ==
  ASSUME TypeOK, NEW c \in Command
  PROVE  EntAfter(c) \in [Entity -> State] /\ LampAfter(c) \in [Entity -> State]
BY ApplyType DEF EntAfter, LampAfter, TypeOK

-----------------------------------------------------------------------------
(***************************************************************************)
(* Types and availability.                                                 *)
(***************************************************************************)

\* What the service calls ask for holds what they change, and an attribute changes only
\* with the entity on.
LEMMA CallsAskForChanges ==
  ASSUME TypeOK, NEW e \in Entity, Call(e)
  PROVE  \E asked \in SUBSET Attr, new \in State :
           /\ HandleStateChange(e, asked, new)
           /\ "on" \in asked
           /\ Changed(ent[e], new) \subseteq asked
           /\ new.on \/ ent[e].level = new.level
<1>1. ent[e] \in State /\ ent[e].level \in [Setting -> Level] BY DEF TypeOK, State
<1>2. ASSUME NEW asked \in SUBSET Attr, NEW new \in State, HandleStateChange(e, asked, new),
             "on" \in asked, Changed(ent[e], new) \subseteq asked,
             new.on \/ ent[e].level = new.level
      PROVE  \E a \in SUBSET Attr, n \in State :
               /\ HandleStateChange(e, a, n)
               /\ "on" \in a
               /\ Changed(ent[e], n) \subseteq a
               /\ n.on \/ ent[e].level = n.level
  BY <1>2
<1>3. CASE TurnOff(e)
  <2> DEFINE n == [ent[e] EXCEPT !.on = FALSE]
  <2>1. n \in State /\ n.level = ent[e].level BY <1>1 DEF State
  <2>2. HandleStateChange(e, {"on"}, n) BY <1>3 DEF TurnOff
  <2> HIDE DEF n
  <2>3. Changed(ent[e], n) \subseteq {"on"} /\ {"on"} \in SUBSET Attr
    BY <2>1 DEF Changed, Value, Attr
  <2> QED BY <2>1, <2>2, <2>3, <1>2
<1>4. ASSUME NEW asked \in SUBSET Has[e], NEW given \in [asked -> Level], TurnOn(e, given)
      PROVE  \E a \in SUBSET Attr, n \in State :
               /\ HandleStateChange(e, a, n)
               /\ "on" \in a
               /\ Changed(ent[e], n) \subseteq a
               /\ n.on \/ ent[e].level = n.level
  <2> DEFINE l == [a \in Setting |-> IF a \in DOMAIN given THEN given[a] ELSE ent[e].level[a]]
             n == [on |-> TRUE, level |-> l]
             A == {"on"} \cup DOMAIN given
  <2>1. DOMAIN given = asked /\ asked \subseteq Setting
    <3>1. Has[e] \subseteq Setting BY DeviceAssumption
    <3> QED BY <3>1
  <2>2. l \in [Setting -> Level] BY <1>1, <2>1
  <2>3. \A a \in Setting \ asked : l[a] = ent[e].level[a] BY <2>1
  <2>4. HandleStateChange(e, A, n) BY <1>4 DEF TurnOn
  <2> HIDE DEF l
  <2>5. n \in State /\ n.on /\ n.level = l BY <2>2 DEF State
  <2>6. A = {"on"} \cup asked BY <2>1
  <2> HIDE DEF n, A
  <2>7. A \in SUBSET Attr /\ "on" \in A BY <2>1, <2>6 DEF Attr
  <2>8. Changed(ent[e], n) \subseteq A BY <2>3, <2>5, <2>6 DEF Changed, Value, Attr
  <2> QED BY <2>4, <2>5, <2>7, <2>8, <1>2
<1> QED BY <1>3, <1>4 DEF Call

\* Every step preserves the types and the availability.
LEMMA TypeStep ==
  ASSUME TypeOK, [Next]_vars
  PROVE  TypeOK'
<1>1. ASSUME NEW e \in Entity, NEW asked \in SUBSET Attr, NEW new \in State,
             HandleStateChange(e, asked, new)
      PROVE  TypeOK'
  <2> DEFINE chg == ChgAttrs(e, asked, new)
  <2>1. Received(lamp[e], chg, new) \in State BY ReceivedType DEF TypeOK
  <2>2. timer' \in BOOLEAN BY <1>1 DEF HandleStateChange, TimerAfter
  <2>3. lampTimer' \in BOOLEAN BY <1>1 DEF HandleStateChange
  <2>4. lamp' \in [Entity -> State]
    <3> HIDE DEF chg
    <3>1. lamp' = [lamp EXCEPT ![e] = Received(lamp[e], chg, new)] \/ lamp' = lamp
      BY <1>1 DEF HandleStateChange, chg
    <3> QED BY <2>1, <3>1 DEF TypeOK
  <2>5. ent' \in [Entity -> State] BY <1>1 DEF HandleStateChange, TypeOK
  <2> QED BY <1>1, <2>2, <2>3, <2>4, <2>5 DEF HandleStateChange, TypeOK
<1>2. CASE SwitchSilent BY <1>2 DEF SwitchSilent, TypeOK
<1>3. ASSUME NEW c \in Command, NEW direct \in BOOLEAN, AsyncOnCommand(c, direct)
      PROVE  TypeOK'
  <2>1. ent' \in [Entity -> State] /\ timer' \in BOOLEAN
    <3>1. EntAfter(c) \in [Entity -> State] BY EntAfterType
    <3>2. \/ ent' = EntAfter(c) /\ timer' = ("timer" \in c.chg)
          \/ ent' = ent /\ timer' = timer
      BY <1>3 DEF AsyncOnCommand
    <3>3. ("timer" \in c.chg) \in BOOLEAN OBVIOUS
    <3> QED BY <3>1, <3>2, <3>3 DEF TypeOK
  <2>2. ASSUME Republished(c) PROVE lamp' \in [Entity -> State] /\ lampTimer' \in BOOLEAN
    <3>1. EntAfter(c) \in [Entity -> State] BY EntAfterType
    <3>2. \A e \in Entity : \A chg : Received(lamp[e], chg, EntAfter(c)[e]) \in State
      BY <3>1, ReceivedType DEF TypeOK
    <3> QED BY <2>2, <3>2 DEF Republished, TypeOK
  <2>3. ASSUME DirectEffect(c) PROVE lamp' \in [Entity -> State] /\ lampTimer' \in BOOLEAN
    BY <2>3, EntAfterType DEF DirectEffect
  <2>4. lamp' \in [Entity -> State] /\ lampTimer' \in BOOLEAN
    BY <1>3, <2>2, <2>3 DEF AsyncOnCommand, TypeOK
  <2> QED BY <1>3, <2>1, <2>4 DEF AsyncOnCommand, TypeOK
<1>4. CASE AsyncTimeout BY <1>4, OffType, EntAfterType DEF AsyncTimeout, TypeOK
<1>5. CASE LampTimeout BY <1>5, OffType, EntAfterType DEF LampTimeout, TypeOK
<1>6. CASE UpdateAvailability
  <2>1. avail' \in [Entity -> BOOLEAN] BY <1>6 DEF UpdateAvailability, TypeOK
  <2> QED BY <1>6, <2>1 DEF UpdateAvailability, TypeOK
<1>7. ASSUME NEW c \in Configs, Reload(c)
      PROVE  TypeOK'
  BY <1>7, DefaultType DEF Reload, TypeOK
<1>8. CASE UNCHANGED vars BY <1>8 DEF vars, TypeOK
<1> QED BY <1>1, <1>2, <1>3, <1>4, <1>5, <1>6, <1>7, <1>8, CallsAskForChanges DEF Next

\* Type correctness of the device and of the lamp.
THEOREM DeviceTypeCorrect == Spec => []TypeOK
<1>1. Init => TypeOK BY DefaultType DEF Init, TypeOK
<1>2. TypeOK /\ [Next]_vars => TypeOK' BY TypeStep
<1> QED BY <1>1, <1>2, PTL DEF Spec

\* Every step that leaves the availability leaves it right.
LEMMA AvailabilityStep ==
  ASSUME TypeOK, AvailabilityFollows, [Next]_vars
  PROVE  AvailabilityFollows'
<1>1. ASSUME UpdateAvailability PROVE AvailabilityFollows'
  <2> SUFFICES ASSUME NEW e \in Entity, \A d \in conf.disabled : d >= e
               PROVE  avail'[e] = up'
    BY <1>1 DEF UpdateAvailability, AvailabilityFollows
  <2>1. \A d \in conf.disabled : d \in Nat /\ e \in Nat
    BY DeviceAssumption DEF TypeOK, Config, Entity
  <2>2. ~ \E d \in conf.disabled : d < e /\ avail[d] # ~up BY <2>1
  <2> QED BY <1>1, <2>2 DEF UpdateAvailability
<1>2. ASSUME NEW c \in Configs, Reload(c) PROVE AvailabilityFollows'
  BY <1>2 DEF Reload, AvailabilityFollows
<1>3. CASE UNCHANGED <<conf, avail, up>>
  BY <1>3 DEF AvailabilityFollows
<1>4. Next => UpdateAvailability \/ (\E c \in Configs : Reload(c)) \/ UNCHANGED <<conf, avail, up>>
  BY DEF Next, Call, TurnOn, TurnOff, HandleStateChange, SwitchSilent, AsyncOnCommand,
         AsyncTimeout, LampTimeout
<1> QED BY <1>1, <1>2, <1>3, <1>4 DEF vars

\* The invariant that the steps need: the types and the availability.
DeviceInv == TypeOK /\ AvailabilityFollows

LEMMA DeviceInvariant == Spec => []DeviceInv
<1>1. Init => DeviceInv BY DefaultType DEF Init, TypeOK, AvailabilityFollows, DeviceInv
<1>2. DeviceInv /\ [Next]_vars => DeviceInv' BY TypeStep, AvailabilityStep DEF DeviceInv
<1> QED BY <1>1, <1>2, PTL DEF Spec

\* The entities before the first disabled one always show whether an adapter of the device
\* is there, for any number of entities and any set of disabled ones (update_availability).
THEOREM AvailabilityIsShown == Spec => []AvailabilityFollows
<1>1. DeviceInv => AvailabilityFollows BY DEF DeviceInv
<1> QED BY <1>1, DeviceInvariant, PTL

-----------------------------------------------------------------------------
(***************************************************************************)
(* The gaps between what is shown and what the lamp does.  A step is taken *)
(* where none of the known reasons holds (InSight).                        *)
(***************************************************************************)

InSight ==
  /\ ~ silent /\ up /\ timer = lampTimer
  /\ conf.disabled = {} /\ ~ conf.mute

\* A lamp that shows s and receives all that new changes, the other attributes only where
\* it is on before or after, shows new.
LEMMA ReceivedIsNew ==
  ASSUME NEW s \in State, NEW new \in State, NEW chg, Changed(s, new) \subseteq chg,
         s.on \/ new.on \/ s.level = new.level
  PROVE  Received(s, chg, new) = new
<1> DEFINE r == Received(s, chg, new)
<1>1. "on" \notin chg => s.on = new.on BY DEF Changed, Value, Attr
<1>2. \A a \in Setting : a \notin chg => s.level[a] = new.level[a]
  <2>1. "on" \notin Setting BY DeviceAssumption
  <2> QED BY <2>1 DEF Changed, Value, Attr
<1>3. r \in State BY ReceivedType
<1>4. r.on = new.on BY <1>1, ReceivedType
<1>5. \A a \in Setting : r.level[a] = IF a \in chg /\ (s.on \/ r.on) THEN new.level[a] ELSE s.level[a]
  BY ReceivedType
<1> HIDE DEF r
<1>6. \A a \in Setting : r.level[a] = new.level[a] BY <1>2, <1>4, <1>5
<1>7. r = new BY <1>3, <1>4, <1>6, SameState
<1> QED BY <1>7 DEF r

\* States between which nothing changes are the same.
LEMMA NothingChanged ==
  ASSUME NEW s \in State, NEW new \in State, Changed(s, new) = {}
  PROVE  s = new
<1>1. "on" \notin Setting BY DeviceAssumption
<1>2. s.on = new.on BY DEF Changed, Value, Attr
<1>3. \A a \in Setting : s.level[a] = new.level[a] BY <1>1 DEF Changed, Value, Attr
<1> QED BY <1>2, <1>3, SameState

\* What a call sends holds all it changes.
LEMMA ChgAttrsHoldsChanges ==
  ASSUME NEW e \in Entity, NEW asked, NEW new
  PROVE  /\ asked \cap Changed(ent[e], new) \subseteq ChgAttrs(e, asked, new)
         /\ new.on \in conf.forced => asked \subseteq ChgAttrs(e, asked, new)
BY DEF ChgAttrs, WithStart

\* A service call keeps the two together.
LEMMA CallAgrees ==
  ASSUME TypeOK, InSight, NEW x \in Entity, NEW e \in Entity, Agree(x),
         Call(e)
  PROVE  Agree(x)'
<1>1. PICK asked \in SUBSET Attr, new \in State :
        /\ HandleStateChange(e, asked, new)
        /\ "on" \in asked
        /\ Changed(ent[e], new) \subseteq asked
        /\ new.on \/ ent[e].level = new.level
  BY CallsAskForChanges
<1>2. ent' = [ent EXCEPT ![e] = new] BY <1>1 DEF HandleStateChange
<1>3. ent[e] \in State /\ lamp[e] \in State BY DEF TypeOK
<1>4. CASE x # e
  BY <1>1, <1>2, <1>4 DEF HandleStateChange, Agree, TypeOK
<1>5. CASE x = e
  <2> DEFINE chg == ChgAttrs(e, asked, new)
  <2>1. Changed(ent[e], new) \subseteq chg BY <1>1, ChgAttrsHoldsChanges
  <2>4. lamp' = IF Applied(chg) THEN [lamp EXCEPT ![e] = Received(lamp[e], chg, new)] ELSE lamp
    BY <1>1 DEF HandleStateChange, InSight
  <2> HIDE DEF chg
  <2>5. ent[e] = lamp[e] BY <1>5 DEF Agree
  <2>6. Received(lamp[e], chg, new) = new BY <1>1, <1>3, <2>1, <2>5, ReceivedIsNew
  <2>7. CASE Applied(chg) BY <1>2, <1>5, <2>4, <2>6, <2>7 DEF Agree, TypeOK
  <2>8. CASE ~ Applied(chg)
    <3>1. chg = {} BY <2>8 DEF Applied, InSight
    <3>2. ent[e] = new BY <3>1, <1>1, <1>3, <2>1, NothingChanged
    <3> QED BY <1>2, <1>5, <2>4, <2>5, <2>8, <3>2 DEF Agree, TypeOK
  <2> QED BY <2>7, <2>8
<1> QED BY <1>4, <1>5

\* The lamp and Home Assistant make the same of a command both hear.
LEMMA HeardTheSame ==
  ASSUME TypeOK, conf.disabled = {}, NEW x \in Entity, Agree(x), NEW c \in Command
  PROVE  EntAfter(c)[x] = LampAfter(c)[x]
BY DEF EntAfter, LampAfter, Reached, Agree

\* A command that is applied changes the other attributes only of what is on before or
\* after it.
LEMMA CommandKeepsLevel ==
  ASSUME TypeOK, NEW x \in Entity, NEW c \in Command
  PROVE  ent[x].on \/ EntAfter(c)[x].on \/ ent[x].level = EntAfter(c)[x].level
<1>1. ent[x] \in State BY DEF TypeOK
<1>2. CASE x \notin Reached(c) BY <1>2 DEF EntAfter
<1>3. CASE x \in Reached(c)
  <2>1. EntAfter(c)[x] = Apply(ent[x], c) BY <1>3 DEF EntAfter
  <2>2. CASE c.to = All
    <3>1. c.chg \in {{"on"}, {"timer"}, {"pair"}} BY <2>2 DEF Command
    <3>2. \A a \in Setting : a \notin c.chg BY <3>1, DeviceAssumption
    <3>3. \A a \in Setting : Apply(ent[x], c).level[a] = ent[x].level[a]
      BY <1>1, <3>2, ApplyType
    <3>4. Apply(ent[x], c).level \in [Setting -> Level] /\ ent[x].level \in [Setting -> Level]
      BY <1>1, ApplyType DEF State
    <3> QED BY <2>1, <3>3, <3>4
  <2>3. CASE c.to # All
    <3>1. ent[x].on \/ "toggle" \in c.chg \/ ("on" \in c.chg /\ c.on)
      BY <1>3, <2>3 DEF Reached, Accepts
    <3>2. ~({"on", "toggle"} \subseteq c.chg) BY <2>3 DEF Command
    <3>3. CASE "toggle" \in c.chg
      <4>1. Apply(ent[x], c).on = ~ ent[x].on BY <1>1, <3>2, <3>3, ApplyType
      <4> QED BY <2>1, <4>1
    <3>4. CASE "on" \in c.chg /\ c.on
      <4>1. "toggle" \notin c.chg BY <3>2, <3>4
      <4>2. Apply(ent[x], c).on =
              (CASE "on" \in c.chg -> c.on [] "toggle" \in c.chg -> ~ ent[x].on [] OTHER -> ent[x].on)
        BY <1>1, ApplyType
      <4>3. c.on = TRUE BY <3>4 DEF Command
      <4>4. Apply(ent[x], c).on = TRUE BY <3>4, <4>1, <4>2, <4>3
      <4> QED BY <2>1, <4>4
    <3> QED BY <3>1, <3>3, <3>4
  <2> QED BY <2>2, <2>3
<1> QED BY <1>2, <1>3

\* What the handler changed of an entity, sent to its lamp, makes them the same again.
LEMMA RepublishedAgrees ==
  ASSUME TypeOK, ~ silent, NEW x \in Entity, Agree(x), NEW c \in Command, Republished(c)
  PROVE  lamp'[x] = EntAfter(c)[x]
<1> DEFINE new == EntAfter(c)[x]
           chg == Changed(ent[x], new)
<1>1. new \in State /\ ent[x] \in State /\ ent[x] = lamp[x]
  BY EntAfterType DEF TypeOK, Agree
<1>2. ent[x].on \/ new.on \/ ent[x].level = new.level BY CommandKeepsLevel
<1>3. lamp'[x] = IF Applied(chg) THEN Received(lamp[x], WithStart(chg, new), new) ELSE lamp[x]
  BY DEF Republished
<1>4. chg = Changed(ent[x], new) OBVIOUS
<1> HIDE DEF new, chg
<1>6. chg \subseteq WithStart(chg, new) BY DEF WithStart
<1>7. Received(lamp[x], WithStart(chg, new), new) = new
  BY <1>1, <1>2, <1>4, <1>6, ReceivedIsNew
<1>8. CASE Applied(chg) BY <1>3, <1>7, <1>8 DEF new
<1>9. CASE ~ Applied(chg)
  <2>1. chg = {} BY <1>9 DEF Applied
  <2>2. ent[x] = new BY <2>1, <1>1, <1>4, NothingChanged
  <2> QED BY <1>1, <1>3, <1>9, <2>2 DEF new
<1> QED BY <1>8, <1>9

\* The commands of a remote, heard by both or relayed, keep the two together.
LEMMA CommandAgrees ==
  ASSUME TypeOK, InSight, NEW x \in Entity, Agree(x),
         NEW c \in Command, NEW direct \in BOOLEAN, AsyncOnCommand(c, direct)
  PROVE  Agree(x)'
<1>1. ent' = EntAfter(c) BY DEF AsyncOnCommand, InSight
<1>2. CASE direct
  <2>1. lamp' = LampAfter(c) BY <1>2 DEF AsyncOnCommand, DirectEffect
  <2> QED BY <1>1, <2>1, HeardTheSame DEF InSight, Agree
<1>3. CASE ~ direct
  <2>1. ~ Raises(c) BY DEF Raises, InSight
  <2>2. Republished(c) BY <1>3, <2>1 DEF AsyncOnCommand, InSight
  <2> QED BY <1>1, <2>2, RepublishedAgrees DEF InSight, Agree
<1> QED BY <1>2, <1>3

\* No step parts the two where the integration sees all.
LEMMA AgreeStep ==
  ASSUME DeviceInv, InSight, [Next]_vars, conf' = conf, NEW x \in Entity, Agree(x)
  PROVE  Agree(x)'
<1> USE DEF DeviceInv
<1>1. ASSUME NEW e \in Entity, Call(e)
      PROVE  Agree(x)'
  BY <1>1, CallAgrees
<1>2. CASE SwitchSilent BY <1>2 DEF SwitchSilent, Agree
<1>3. ASSUME NEW c \in Command, NEW direct \in BOOLEAN, AsyncOnCommand(c, direct)
      PROVE  Agree(x)'
  BY <1>3, CommandAgrees
<1>4. CASE AsyncTimeout
  <2>1. ent' = EntAfter(Off) /\ lamp' = LampAfter(Off) BY <1>4 DEF AsyncTimeout, InSight
  <2> QED BY <2>1, HeardTheSame, OffType DEF InSight, Agree
<1>5. CASE LampTimeout BY <1>5 DEF LampTimeout, InSight
<1>6. CASE UpdateAvailability BY <1>6 DEF UpdateAvailability, Agree
<1>7. ASSUME NEW c \in Configs, Reload(c) PROVE Agree(x)'
  <2>1. c = conf BY <1>7 DEF Reload
  <2>2. avail[x] BY DEF AvailabilityFollows, InSight
  <2>3. ent'[x] = ent[x] /\ lamp' = lamp BY <1>7, <2>1, <2>2 DEF Reload, InSight
  <2> QED BY <2>3 DEF Agree
<1>8. CASE UNCHANGED vars BY <1>8 DEF vars, Agree
<1> QED BY <1>1, <1>2, <1>3, <1>4, <1>5, <1>6, <1>7, <1>8 DEF Next

\* What an entity shows parts from what the lamp does only where the integration cannot
\* know or does not want to send, whatever the entities, the levels, the configurations
\* and the sequence of calls, commands, timers and reloads (device.py).
THEOREM GapsAreKnown == Spec => OnlyKnownGaps
<1>1. DeviceInv /\ [Next]_vars =>
        [\A e \in Entity : Agree(e) /\ ~Agree(e)' =>
           \/ silent \/ ~up \/ timer # lampTimer
           \/ conf.disabled # {} \/ conf.mute \/ conf' # conf]_vars
  BY AgreeStep DEF InSight
<1> QED BY <1>1, DeviceInvariant, PTL DEF Spec, OnlyKnownGaps

-----------------------------------------------------------------------------
(***************************************************************************)
(* The timers, and the forced commands.                                    *)
(***************************************************************************)

\* No call, no direct command, no end of a timer parts the timer of Home Assistant from the
\* one of the lamp, with an adapter there and the event entity enabled.
THEOREM TimersTogether == Spec => TimersInStep
<1>1. ASSUME TypeOK, timer = lampTimer, up, ~ conf.mute,
             \/ \E e \in Entity : Call(e)
             \/ \E c \in Command : AsyncOnCommand(c, TRUE)
             \/ SwitchSilent \/ AsyncTimeout \/ LampTimeout \/ UpdateAvailability
      PROVE  timer' = lampTimer'
  <2>1. ASSUME NEW e \in Entity, NEW asked \in SUBSET Attr, NEW new \in State,
               HandleStateChange(e, asked, new)
        PROVE  timer' = lampTimer'
    BY <1>1, <2>1 DEF HandleStateChange, TimerAfter
  <2>2. ASSUME NEW c \in Command, AsyncOnCommand(c, TRUE) PROVE timer' = lampTimer'
    BY <1>1, <2>2 DEF AsyncOnCommand, DirectEffect
  <2>3. CASE SwitchSilent \/ AsyncTimeout \/ LampTimeout \/ UpdateAvailability
    BY <1>1, <2>3 DEF SwitchSilent, AsyncTimeout, LampTimeout, UpdateAvailability
  <2> QED BY <1>1, <2>1, <2>2, <2>3, CallsAskForChanges
<1>2. TypeOK /\ [Next]_vars =>
        [timer = lampTimer /\ timer' # lampTimer' =>
           \/ ~up \/ conf.mute
           \/ ~ \/ \E e \in Entity : Call(e)
                \/ \E c \in Command : AsyncOnCommand(c, TRUE)
                \/ SwitchSilent \/ AsyncTimeout \/ LampTimeout \/ UpdateAvailability]_vars
  BY <1>1
<1> QED BY <1>2, DeviceTypeCorrect, PTL DEF Spec, TimersInStep

\* A forced command reaches the lamp whatever Home Assistant believed, and a switch on
\* brings the attributes that are refreshed with it.
THEOREM ForcedReachesLamp == Spec => ForcedRecovers
<1>1. ASSUME TypeOK, NEW e \in Entity, up, ~ silent, ent'[e].on \in conf.forced,
             Call(e)
      PROVE  /\ lamp'[e].on = ent'[e].on
             /\ ent'[e].on => \A a \in conf.refresh : lamp'[e].level[a] = ent'[e].level[a]
  <2>1. PICK asked \in SUBSET Attr, new \in State :
          /\ HandleStateChange(e, asked, new)
          /\ "on" \in asked
    BY <1>1, CallsAskForChanges
  <2>2. ent'[e] = new BY <2>1, <1>1 DEF HandleStateChange, TypeOK
  <2> DEFINE chg == ChgAttrs(e, asked, new)
  <2>3. "on" \in chg BY <1>1, <2>1, <2>2, ChgAttrsHoldsChanges
  <2>4. new.on => conf.refresh \subseteq chg
    BY <1>1, <2>1, <2>2 DEF ChgAttrs, WithStart
  <2>5. Applied(chg) BY <1>1, <2>3 DEF Applied
  <2>6. lamp' = [lamp EXCEPT ![e] = Received(lamp[e], chg, new)]
    BY <1>1, <2>1, <2>5 DEF HandleStateChange
  <2> HIDE DEF chg
  <2>7. lamp'[e] = Received(lamp[e], chg, new) BY <1>1, <2>6 DEF TypeOK
  <2>8. lamp[e] \in State BY <1>1 DEF TypeOK
  <2>9. lamp'[e].on = new.on BY <2>1, <2>3, <2>7, <2>8, ReceivedType
  <2>10. conf.refresh \subseteq Setting BY <1>1, DeviceAssumption DEF TypeOK, Config
  <2>11. ASSUME new.on, NEW a \in conf.refresh PROVE lamp'[e].level[a] = new.level[a]
    <3>1. a \in Setting /\ a \in chg BY <2>4, <2>10, <2>11
    <3>2. Received(lamp[e], chg, new).on = new.on BY <2>7, <2>9
    <3>3. Received(lamp[e], chg, new).level[a] =
            IF a \in chg /\ (lamp[e].on \/ Received(lamp[e], chg, new).on)
            THEN new.level[a] ELSE lamp[e].level[a]
      BY <2>8, <3>1, ReceivedType
    <3> QED BY <2>7, <2>11, <3>1, <3>2, <3>3
  <2> QED BY <2>2, <2>9, <2>11
<1>2. TypeOK /\ [Next]_vars =>
        [\A e \in Entity :
           Call(e) /\ up /\ ~silent /\ ent[e]'.on \in conf.forced
           => /\ lamp[e]'.on = ent[e]'.on
              /\ ent[e]'.on => \A a \in conf.refresh : lamp[e]'.level[a] = ent[e]'.level[a]]_vars
  BY <1>1
<1> QED BY <1>2, DeviceTypeCorrect, PTL DEF Spec, ForcedRecovers
=============================================================================
