------------------------------- MODULE Setup -------------------------------
(***************************************************************************)
(* The life of an entry of the integration (__init__.py): it is read from  *)
(* the disk, migrated if an older version wrote it, set up, unloaded,      *)
(* reconfigured and saved, while Home Assistant stops at any moment.       *)
(*                                                                         *)
(* An entry is the set of its keys. A key that may be absent holds a set:  *)
(* {} when it is absent, {value} when it is there; the list of adapters is *)
(* never empty when it is there, {} is its absence. One fan stands for all *)
(* of them in the step that rewrites the options of the fans.              *)
(***************************************************************************)
EXTENDS Naturals, Sequences

CONSTANTS
  Adapters,     \* the adapters there may be
  Legacy,       \* the entries older versions may have left on the disk
  Migrating,    \* DYN_CODEC_PARAM_MAP and identity: old codec -> <<codec, params>>
  Codecs,       \* the codecs of this version
  MaxFailures   \* bound: failures of the platforms since Home Assistant started

CodecName == Codecs \cup {"zhijia_v2", "zhijia_v2_fl"}
TransSet == {"default", "fl"}

\* A codec as an entry names it: by its old name, or by the codec and its parameters.
Named == [old : SUBSET DOMAIN Migrating, codec : SUBSET CodecName, params : SUBSET STRING]

Entry ==
  [version : Nat, name : BOOLEAN, remAdapter : BOOLEAN,
   devAdapter : SUBSET Adapters, techAdapter : SUBSET Adapters, adapterIds : SUBSET Adapters,
   fans : Nat, lights : Nat, refresh : SUBSET BOOLEAN, useDir : BOOLEAN, useOsc : BOOLEAN,
   startDir : SUBSET BOOLEAN, startOsc : SUBSET BOOLEAN, repeat : SUBSET Nat,
   repeats : SUBSET Nat, dev : Named, remote : SUBSET Named, transSet : SUBSET TransSet]

\* Where the versions kept the adapter: the first two places, or the list.
Listed(e) == e.adapterIds # {} /\ e.devAdapter = {} /\ e.techAdapter = {} /\ e.version >= 2
Unlisted(e) ==
  /\ e.adapterIds = {} /\ e.devAdapter \cup e.techAdapter # {}
  /\ e.devAdapter = {} \/ e.techAdapter = {}

ASSUME SetupAssumption ==
  /\ MaxFailures \in Nat
  /\ Migrating \in [DOMAIN Migrating -> CodecName \X STRING]

LastVersion == 8  \* CONF_LAST_VERSION
MaxEntities == 3  \* CONF_MAX_ENTITY_NB

VARIABLES
  origin,    \* auxiliary: the entry as the older version left it
  saved,     \* the entry on the disk
  entry,     \* the entry in memory
  detected,  \* get_adapter_ids()
  phase,     \* "stopped", "starting", "migrated", "forwarding", "loaded", "reloading",
             \* "unloaded", "error", "stuck" or "refused" (a key was missing)
  devices,   \* the devices the coordinator knows, each as it was configured
  stored,    \* hass.data holds the device of the entry
  failures,  \* auxiliary: the failures of the platforms since the start
  chosen     \* auxiliary: the user has chosen the adapters

vars == <<origin, saved, entry, detected, phase, devices, stored, failures, chosen>>

Value(key) == CHOOSE x \in key : TRUE

-----------------------------------------------------------------------------
(***************************************************************************)
(* async_migrate_entry, step by step.                                      *)
(***************************************************************************)
AdapterMoved(e) ==
  [e EXCEPT !.techAdapter = IF e.devAdapter = {} THEN @ ELSE e.devAdapter,
            !.devAdapter  = {}]

Dropped(e) == [e EXCEPT !.name = FALSE, !.remAdapter = FALSE]

Padded(e) == [e EXCEPT !.fans   = IF @ < MaxEntities THEN MaxEntities ELSE @,
                       !.lights = IF @ < MaxEntities THEN MaxEntities ELSE @]

FanRefreshSplit(e) ==
  IF e.refresh = {} THEN e
  ELSE LET on == Value(e.refresh) IN
       [e EXCEPT !.refresh = {}, !.startDir = {on /\ e.useDir}, !.startOsc = {on /\ e.useOsc}]

AdapterListed(e) ==
  [e EXCEPT !.adapterIds  = IF e.techAdapter = {} THEN @ ELSE e.techAdapter,
            !.techAdapter = {}]

RepeatsTripled(e) ==
  [e EXCEPT !.repeats = IF @ = {} THEN {3 * r : r \in e.repeat} ELSE @]

Recoded(c) ==
  IF c.old = {} THEN c
  ELSE LET new == Migrating[Value(c.old)] IN
       [c EXCEPT !.codec = {new[1]}, !.params = {new[2]}]

CodecsRecoded(e) ==
  [e EXCEPT !.dev = Recoded(@), !.remote = {Recoded(c) : c \in @}]

FlMadeSet(e) ==
  IF e.dev.codec = {"zhijia_v2_fl"}
  THEN [e EXCEPT !.dev.codec = {"zhijia_v2"}, !.transSet = {"fl"}]
  ELSE e

StepsListFirst(e) ==
  FlMadeSet(CodecsRecoded(RepeatsTripled(AdapterMoved(AdapterListed(
    FanRefreshSplit(Padded(Dropped(e))))))))

Steps(e) ==
  FlMadeSet(CodecsRecoded(RepeatsTripled(AdapterListed(
    FanRefreshSplit(Padded(Dropped(AdapterMoved(e))))))))

\* Some step has changed something: what the last step undoes of the ones before, for
\* a device of the old zhijia_v2_fl, counts.
Changed(e) == Steps(e) # e \/ CodecsRecoded(e) # e

Undetected(e) == e.version < 2 /\ ~ Steps(e).adapterIds \subseteq detected

AdaptersReplaced(e) ==
  IF Undetected(e) /\ detected # {}
  THEN [Steps(e) EXCEPT !.adapterIds = detected]
  ELSE Steps(e)

VersionSavedSame(e) == e.version

VersionSaved(e) == IF Changed(e) \/ Undetected(e) THEN LastVersion ELSE e.version

Migrated(e) == [AdaptersReplaced(e) EXCEPT !.version = VersionSaved(e)]

-----------------------------------------------------------------------------
(***************************************************************************)
(* async_setup_entry and async_unload_entry.                               *)
(***************************************************************************)
\* The keys that are read without a default, and the codecs looked up.
Accepted(e) ==
  /\ e.dev.codec # {} /\ e.dev.codec \subseteq Codecs
  /\ e.adapterIds # {}
  /\ e.repeats # {}
  /\ \A c \in e.remote : c.codec \subseteq Codecs

\* What the device is created with, and its listeners.
DeviceOf(e) ==
  [codec    |-> Value(e.dev.codec),
   params   |-> e.dev.params,
   adapters |-> e.adapterIds,
   repeats  |-> Value(e.repeats),
   transSet |-> e.transSet,
   remote   |-> {[codec |-> c.codec, params |-> c.params] : c \in {r \in e.remote : r.codec # {}}}]

\* remove_device: every device of the same unique_id.
RemainingOlder(devs) == SubSeq(devs, 1, Len(devs) - 1)

Remaining(devs) == <<>>

Init ==
  /\ origin \in Legacy
  /\ saved = origin
  /\ entry = origin
  /\ detected = {}
  /\ phase = "stopped"
  /\ devices = <<>>
  /\ stored = FALSE
  /\ failures = 0
  /\ chosen = FALSE

\* Home Assistant starts; the coordinator detects the adapters that are there.
Start ==
  /\ phase = "stopped"
  /\ entry' = saved
  /\ detected' \in SUBSET Adapters
  /\ phase' = "starting"
  /\ UNCHANGED <<origin, saved, devices, stored, failures, chosen>>

\* Each set-up asks for the migration of an entry whose version is not the last.
Migrate ==
  /\ phase = "starting"
  /\ entry' = IF entry.version = LastVersion THEN entry ELSE Migrated(entry)
  /\ phase' = "migrated"
  /\ UNCHANGED <<origin, saved, detected, devices, stored, failures, chosen>>

SetupEntry ==
  /\ phase = "migrated"
  /\ IF Accepted(entry)
     THEN /\ devices' = Append(devices, DeviceOf(entry))
          /\ stored' = TRUE
          /\ phase' = "forwarding"
     ELSE /\ phase' = "refused"
          /\ UNCHANGED <<devices, stored>>
  /\ UNCHANGED <<origin, saved, entry, detected, failures, chosen>>

\* async_forward_entry_setups returns, or a platform raises.
Forwarded ==
  /\ phase = "forwarding"
  /\ phase' = "loaded"
  /\ UNCHANGED <<origin, saved, entry, detected, devices, stored, failures, chosen>>

ForwardFails ==
  /\ phase = "forwarding"
  /\ failures < MaxFailures
  /\ failures' = failures + 1
  /\ phase' = "error"
  /\ UNCHANGED <<origin, saved, entry, detected, devices, stored, chosen>>

UnloadEntry ==
  /\ phase \in {"loaded", "reloading"}
  /\ devices' = Remaining(devices)
  /\ stored' = FALSE
  /\ phase' = "unloaded"
  /\ UNCHANGED <<origin, saved, entry, detected, failures, chosen>>

\* A platform refuses to be unloaded: Home Assistant has to be started again.
UnloadFails ==
  /\ phase \in {"loaded", "reloading"}
  /\ phase' = "stuck"
  /\ UNCHANGED <<origin, saved, entry, detected, devices, stored, failures, chosen>>

-----------------------------------------------------------------------------
(***************************************************************************)
(* What Home Assistant and the configuration flow do with the entry.       *)
(***************************************************************************)
\* The entry is set up again. It is not unloaded before if its set-up had failed.
Again ==
  /\ phase \in {"unloaded", "error"}
  /\ phase' = "starting"
  /\ UNCHANGED <<origin, saved, entry, detected, devices, stored, failures, chosen>>

\* The user chooses adapters among those there are; the entry is then reloaded.
Reconfigure ==
  /\ phase = "loaded"
  /\ \E ids \in SUBSET detected :
       ids # {} /\ entry' = [entry EXCEPT !.adapterIds = ids]
  /\ phase' = "reloading"
  /\ chosen' = TRUE
  /\ UNCHANGED <<origin, saved, detected, devices, stored, failures>>

\* The entries are written some time after they change.
Save ==
  /\ phase # "stopped"
  /\ saved # entry
  /\ saved' = entry
  /\ UNCHANGED <<origin, entry, detected, phase, devices, stored, failures, chosen>>

DetectedChange ==
  /\ phase # "stopped"
  /\ detected' \in SUBSET Adapters \ {detected}
  /\ UNCHANGED <<origin, saved, entry, phase, devices, stored, failures, chosen>>

Stop ==
  /\ phase # "stopped"
  /\ entry' = saved
  /\ phase' = "stopped"
  /\ devices' = <<>>
  /\ stored' = FALSE
  /\ detected' = {}
  /\ failures' = 0
  /\ UNCHANGED <<origin, saved, chosen>>

Next ==
  \/ Start \/ Migrate \/ SetupEntry \/ Forwarded \/ ForwardFails
  \/ UnloadEntry \/ UnloadFails \/ Again \/ Reconfigure
  \/ Save \/ DetectedChange \/ Stop

Spec == Init /\ [][Next]_vars

-----------------------------------------------------------------------------
(***************************************************************************)
(* The properties.                                                         *)
(***************************************************************************)
\* What the entry meant for the older version: the adapter it named, three
\* advertisements for each of its repetitions, the codec of now for the codec of then.
AdapterMeant(e) == e.devAdapter \cup e.techAdapter \cup e.adapterIds
RepeatsMeant(e) == IF e.repeats # {} THEN e.repeats ELSE {3 * r : r \in e.repeat}
CodecMeant(c) == IF c.old = {} THEN c.codec ELSE {Migrating[Value(c.old)][1]}
FlMeant(e) == CodecMeant(e.dev) = {"zhijia_v2_fl"}

\* The older entries are entries: with one adapter or a list of them, one repetition, and
\* codecs that this version knows under their name of now.
ASSUME LegacyAssumption ==
  /\ Legacy \subseteq Entry
  /\ \A e \in Legacy :
       /\ e.version < LastVersion
       /\ Listed(e) \/ Unlisted(e)
       /\ \E n \in Codecs \cup {"zhijia_v2_fl"} : CodecMeant(e.dev) = {n}
       /\ \E r \in RepeatsMeant(e) : RepeatsMeant(e) = {r}
       /\ \A c \in e.remote : CodecMeant(c) # {} /\ CodecMeant(c) \subseteq Codecs
  /\ "zhijia_v2" \in Codecs

\* async_setup_entry is never given an entry it cannot read, and the device it creates
\* is the one the older version drove: from any older entry, whether or not a migration
\* was saved before a stop, and whatever adapters are detected; only an entry of the
\* first version may have its adapters replaced by them (__init__.py:118, 185).
SetUpAsMeant ==
  /\ phase # "refused"
  /\ \A i \in DOMAIN devices :
       LET d == devices[i]
       IN  /\ {d.codec} = IF FlMeant(origin) THEN {"zhijia_v2"} ELSE CodecMeant(origin.dev)
           /\ FlMeant(origin) => d.transSet = {"fl"}
           /\ {d.repeats} = RepeatsMeant(origin)
           /\ {c.codec : c \in d.remote} = {CodecMeant(c) : c \in origin.remote}
           /\ ~ chosen /\ origin.version > 1 => d.adapters = AdapterMeant(origin)

\* Once the adapters of an entry are saved, chosen by the user or by the migration, no
\* later start replaces them by those it happens to detect (__init__.py:167).
AdaptersKept ==
  [][phase = "starting" /\ phase' = "migrated" /\ saved.adapterIds # {} =>
       entry'.adapterIds = entry.adapterIds]_vars

\* The coordinator knows the device of a loaded entry as the entry now is, once unless
\* its platforms failed, and none once the entry is unloaded: no device is left that
\* would answer the commands of a remote in place of, or with, the new one
\* (__init__.py:213, 228; coordinator.py:227).
DevicesInStep ==
  /\ Len(devices) <= 1 + failures
  /\ phase = "unloaded" => devices = <<>> /\ ~ stored
  /\ phase = "loaded" => /\ stored
                         /\ devices # <<>>
                         /\ devices[Len(devices)] = DeviceOf(entry)
=============================================================================
