------------------------------- MODULE Device -------------------------------
(***************************************************************************)
(* A device of the integration (device.py) and its entities, against the   *)
(* lamp it controls.  Home Assistant only ever knows what it sent and what *)
(* it heard: the module keeps both what the entities show (ent) and what   *)
(* the lamp does (lamp), which the environment computes from the same      *)
(* commands.  A remote may control the lamp itself, the integration only   *)
(* listening (direct), or be relayed by the integration (publish).         *)
(*                                                                         *)
(* The adapters' queues never suspend the one who enqueues (their lock is  *)
(* never held across an await), so each handler is one action.             *)
(***************************************************************************)
EXTENDS Naturals

CONSTANTS
  N,           \* number of entities, in the order the device keeps them
  Setting,     \* the attributes beside ATTR_ON: brightness, colour, speed, direction
  Has,         \* those of each entity
  Level,       \* the values of such an attribute
  DefaultLevel,
  Configs      \* the configurations a user may load, see Config

Entity == 1 .. N
All == 0                       \* DEVICE_TYPE: a command for all the entities
State == [on : BOOLEAN, level : [Setting -> Level]]
Default == [on |-> FALSE, level |-> [a \in Setting |-> DefaultLevel]]
Attr == {"on"} \cup Setting

\* What the user configures: the entities disabled in the registry of Home
\* Assistant, whether the event entity is, the values of ATTR_ON that are always
\* sent, and the other attributes that are sent again when switched on.
Config == [disabled : SUBSET Entity, mute : BOOLEAN,
           forced : SUBSET BOOLEAN, refresh : SUBSET Setting]

\* What a remote's advertisement translates to: the attributes it changes (chg_attrs)
\* and their values. A button may switch an entity, or toggle it, and set several of
\* its attributes at once.
Command ==
  {c \in [to : Entity \cup {All}, chg : SUBSET (Attr \cup {"toggle", "timer", "pair"}),
          on : BOOLEAN, level : [Setting -> Level]] :
     /\ IF c.to = All THEN c.chg \in {{"on"}, {"timer"}, {"pair"}}
        ELSE /\ c.chg \in SUBSET ({"on", "toggle"} \cup Has[c.to]) \ {{}}
             /\ ~({"on", "toggle"} \subseteq c.chg)
     /\ "on" \notin c.chg => c.on
     /\ \A a \in Setting \ c.chg : c.level[a] = DefaultLevel}

ASSUME DeviceAssumption ==
  /\ N \in Nat
  /\ {"on", "toggle", "timer", "pair"} \cap Setting = {}
  /\ Has \in [Entity -> SUBSET Setting]
  /\ DefaultLevel \in Level
  /\ Configs \subseteq Config

VARIABLES
  conf,       \* the configuration loaded
  ent,        \* _attr_is_on and the other attributes of each entity
  avail,      \* _attr_available of each entity
  switchAvail,\* _attr_available of the silent mode switch
  silent,     \* is_on of the silent mode switch
  timer,      \* the timer of the device is running in Home Assistant
  up,         \* one of the adapters of the device is there
  lamp,       \* what the lamp does
  lampTimer   \* the timer of the lamp itself is running

vars == <<conf, ent, avail, switchAvail, silent, timer, up, lamp, lampTimer>>

TypeOK ==
  /\ conf \in Configs
  /\ ent \in [Entity -> State]
  /\ avail \in [Entity -> BOOLEAN]
  /\ switchAvail \in BOOLEAN
  /\ silent \in BOOLEAN
  /\ timer \in BOOLEAN
  /\ up \in BOOLEAN
  /\ lamp \in [Entity -> State]
  /\ lampTimer \in BOOLEAN

Init ==
  /\ conf \in Configs
  /\ ent = [e \in Entity |-> Default]
  /\ up \in BOOLEAN
  /\ avail = [e \in Entity |-> up]
  /\ switchAvail = up
  /\ silent = FALSE
  /\ timer = FALSE
  /\ lamp = ent
  /\ lampTimer = FALSE

-----------------------------------------------------------------------------
\* apply_attrs, on the state of an entity.
Apply(s, c) ==
  [on |-> CASE "on" \in c.chg -> c.on [] "toggle" \in c.chg -> ~s.on [] OTHER -> s.on,
   level |-> [a \in Setting |-> IF a \in c.chg THEN c.level[a] ELSE s.level[a]]]

\* An entity that is off only takes what switches it on.
Accepts(s, c) == s.on \/ "toggle" \in c.chg \/ ("on" \in c.chg /\ c.on)

Value(s, a) == IF a = "on" THEN s.on ELSE s.level[a]
Changed(old, new) == {a \in Attr : Value(old, a) # Value(new, a)}

\* handle_change: what is sent again with a switch on.
WithStart(chg, new) == IF "on" \in chg /\ new.on THEN chg \cup conf.refresh ELSE chg

\* The lamp after the attributes chg of new were sent to it: as an entity does, it
\* takes what comes while it is on, or with what switches it on.
Received(s, chg, new) ==
  LET on == IF "on" \in chg THEN new.on ELSE s.on
  IN [on |-> on,
      level |-> [a \in Setting |-> IF a \in chg /\ (s.on \/ on) THEN new.level[a] ELSE s.level[a]]]

\* _handle_state_change: what is sent of a call that asks for some attributes: what
\* it changes, or all it asks for when the new value of ATTR_ON is a forced one.
ChgAttrsNoForce(e, asked, new) == WithStart(asked \cap Changed(ent[e], new), new)
ChgAttrs(e, asked, new) ==
  WithStart(IF new.on \in conf.forced THEN asked ELSE asked \cap Changed(ent[e], new), new)

\* apply_change: whether a change of these attributes goes past the silent mode, and
\* the timer, which is cancelled only then.
Applied(chg) == chg # {} /\ ~silent
TimerAfterCancelFirst(chg) == timer /\ chg = {}
TimerAfter(chg) == timer /\ ~Applied(chg)

-----------------------------------------------------------------------------
\* A service call sets the attributes asked of an entity to those of new. Home
\* Assistant drops the calls for the entities that are disabled or unavailable.
HandleStateChange(e, asked, new) ==
  LET chg == ChgAttrs(e, asked, new)
  IN /\ e \notin conf.disabled /\ avail[e]
     /\ ent' = [ent EXCEPT ![e] = new]
     /\ timer' = TimerAfter(chg)
     /\ lamp' = IF Applied(chg) /\ up
                THEN [lamp EXCEPT ![e] = Received(lamp[e], chg, new)] ELSE lamp
     /\ lampTimer' = (lampTimer /\ ~(Applied(chg) /\ up))
     /\ UNCHANGED <<conf, avail, switchAvail, silent, up>>

\* async_turn_on, with the attributes given, and async_turn_off.
TurnOn(e, given) ==
  HandleStateChange(e, {"on"} \cup DOMAIN given,
    [on |-> TRUE,
     level |-> [a \in Setting |-> IF a \in DOMAIN given THEN given[a] ELSE ent[e].level[a]]])
TurnOff(e) == HandleStateChange(e, {"on"}, [ent[e] EXCEPT !.on = FALSE])

Call(e) ==
  \/ TurnOff(e)
  \/ \E asked \in SUBSET Has[e] : \E given \in [asked -> Level] : TurnOn(e, given)

\* async_turn_on and async_turn_off of the silent mode switch.
SwitchSilent ==
  /\ switchAvail
  /\ silent' = ~silent
  /\ UNCHANGED <<conf, ent, avail, switchAvail, timer, up, lamp, lampTimer>>

-----------------------------------------------------------------------------
\* The entities a command is applied to: writing the state of a disabled entity
\* raises, so that a command for all stops at the first one.
ReachedIfOn(c) ==
  {e \in Entity : (c.to = e /\ ent[e].on) \/ (c.to = All /\ \A d \in conf.disabled : d >= e)}
Reached(c) ==
  {e \in Entity :
     \/ c.to = e /\ Accepts(ent[e], c)
     \/ c.to = All /\ \A d \in conf.disabled : d >= e}

Raises(c) == c.chg \cap {"timer", "pair"} = {} /\ Reached(c) \cap conf.disabled # {}

EntAfter(c) == [e \in Entity |-> IF e \in Reached(c) THEN Apply(ent[e], c) ELSE ent[e]]

\* The lamp hears a direct remote itself, whatever Home Assistant hears.
LampAfter(c) ==
  [e \in Entity |-> IF c.to = All \/ (c.to = e /\ Accepts(lamp[e], c))
                    THEN Apply(lamp[e], c) ELSE lamp[e]]

DirectEffect(c) ==
  /\ lamp' = LampAfter(c)
  /\ lampTimer' = ("timer" \in c.chg)

\* What the handler changed is sent, entity by entity, unless the silent mode is on.
Republished(c) ==
  /\ lamp' = [e \in Entity |->
       LET chg == Changed(ent[e], EntAfter(c)[e])
       IN IF Applied(chg)
          THEN Received(lamp[e], WithStart(chg, EntAfter(c)[e]), EntAfter(c)[e])
          ELSE lamp[e]]
  /\ lampTimer' = (lampTimer /\ ~Applied(UNION {Changed(ent[e], EntAfter(c)[e]) : e \in Entity}))

\* async_on_enc_cmd then async_on_command. The event of a disabled event entity
\* (mute) raises before the command is looked at; an exception ends the handler,
\* and nothing is published.
AsyncOnCommand(c, direct) ==
  /\ IF up /\ ~conf.mute
     THEN ent' = EntAfter(c) /\ timer' = ("timer" \in c.chg)
     ELSE UNCHANGED <<ent, timer>>
  /\ IF direct THEN DirectEffect(c)
     ELSE IF up /\ ~conf.mute /\ ~Raises(c) THEN Republished(c)
     ELSE UNCHANGED <<lamp, lampTimer>>
  /\ UNCHANGED <<conf, avail, switchAvail, silent, up>>

Off == [to |-> All, chg |-> {"on"}, on |-> FALSE, level |-> Default.level]

\* _async_timeout: the entities are switched off, nothing is sent.
AsyncTimeout ==
  /\ timer
  /\ ent' = EntAfter(Off)
  /\ timer' = FALSE
  /\ lamp' = IF lampTimer THEN LampAfter(Off) ELSE lamp
  /\ lampTimer' = FALSE
  /\ UNCHANGED <<conf, avail, switchAvail, silent, up>>

\* The timer of the lamp ends, Home Assistant having none.
LampTimeout ==
  /\ lampTimer /\ ~timer
  /\ lamp' = LampAfter(Off)
  /\ lampTimer' = FALSE
  /\ UNCHANGED <<conf, ent, avail, switchAvail, silent, timer, up>>

-----------------------------------------------------------------------------
\* update_availability on an adapter that comes or goes: the loop stops at the
\* first disabled entity it has to write. The switch and the event entity are not
\* in the list of the entities.
UpdateAvailabilityCheckAll ==
  /\ up' = ~up
  /\ avail' = [e \in Entity |->
       IF \E d \in conf.disabled : avail[d] # ~up THEN avail[e] ELSE ~up]
  /\ UNCHANGED <<conf, ent, switchAvail, silent, timer, lamp, lampTimer>>
UpdateAvailability ==
  /\ up' = ~up
  /\ avail' = [e \in Entity |->
       IF \E d \in conf.disabled : d < e /\ avail[d] # ~up THEN avail[e] ELSE ~up]
  /\ UNCHANGED <<conf, ent, switchAvail, silent, timer, lamp, lampTimer>>

\* The entry is reloaded, or Home Assistant restarted: the attributes come from the
\* last state written, which holds none when the entity was unavailable. The timer of
\* the old device, if any, acts on removed entities only.
Reload(c) ==
  /\ conf' = c
  /\ ent' = [e \in Entity |-> IF avail[e] /\ e \notin conf.disabled \cup c.disabled
                              THEN ent[e] ELSE Default]
  /\ avail' = [e \in Entity |-> up]
  /\ switchAvail' = up
  /\ silent' = (silent /\ switchAvail)
  /\ timer' = FALSE
  /\ UNCHANGED <<up, lamp, lampTimer>>

Next ==
  \/ \E e \in Entity : Call(e)
  \/ SwitchSilent
  \/ \E c \in Command, direct \in BOOLEAN : AsyncOnCommand(c, direct)
  \/ AsyncTimeout
  \/ LampTimeout
  \/ UpdateAvailability
  \/ \E c \in Configs : Reload(c)

Spec == Init /\ [][Next]_vars

-----------------------------------------------------------------------------
Agree(e) == ent[e] = lamp[e]

\* What an entity shows departs from what the lamp does only where the integration
\* cannot know or does not want to send (no adapter, silent mode, timers that already
\* differ), where an entity is disabled, and when the configuration changes: no
\* sequence of calls, direct and relayed commands, toggles and timers makes the two
\* differ otherwise (device.py:153-173, 288-356).
OnlyKnownGaps ==
  [][\A e \in Entity : Agree(e) /\ ~Agree(e)' =>
       \/ silent \/ ~up \/ timer # lampTimer
       \/ conf.disabled # {} \/ conf.mute \/ conf' # conf]_vars

\* The timer of Home Assistant follows the one of the lamp: a change that the silent
\* mode keeps from the lamp does not cancel it (device.py:290), one that is sent does.
\* No call, no direct command, no end of a timer parts them, nor the switch, unless an
\* adapter is missing or the event entity disabled: a relayed remote and a reload, which
\* forgets the timer, do.
TimersInStep ==
  [][timer = lampTimer /\ timer' # lampTimer' =>
       \/ ~up \/ conf.mute
       \/ ~ \/ \E e \in Entity : Call(e)
            \/ \E c \in Command : AsyncOnCommand(c, TRUE)
            \/ SwitchSilent \/ AsyncTimeout \/ LampTimeout \/ UpdateAvailability]_vars

\* A forced command brings the lamp back in step, however they differed before:
\* CONF_FORCED_CMDS for on and off, CONF_REFRESH_ON_START for the other attributes.
ForcedRecovers ==
  [][\A e \in Entity :
       Call(e) /\ up /\ ~silent /\ ent[e]'.on \in conf.forced
       => /\ lamp[e]'.on = ent[e]'.on
          /\ ent[e]'.on => \A a \in conf.refresh : lamp[e]'.level[a] = ent[e]'.level[a]]_vars

\* The entities kept before the first disabled one always show whether an adapter of
\* the device is there (device.py:270): the exception of the disabled one only hides
\* the change from those after it.
AvailabilityFollows ==
  \A e \in Entity : (\A d \in conf.disabled : d >= e) => avail[e] = up

\* "Update device availability ... on Adapter added / removed" (coordinator.py:190):
\* the silent mode switch is available when the device is. It is not: it keeps
\* what it was created with (see the README).
SwitchFollows == switchAvail = up
=============================================================================
