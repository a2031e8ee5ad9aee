---------------------------- MODULE SetupProofs ----------------------------
(***************************************************************************)
(* Theorems about Setup, for every set of old entries, of adapters and of  *)
(* codecs: no start replaces the adapters that are saved, and the          *)
(* coordinator knows the device of the entry and no other.                 *)
(***************************************************************************)
EXTENDS Setup, TLAPS

\* An entry keeps its adapters in the list, or still where an old version put them.
EntryOK(e) == e \in Entry /\ (Listed(e) \/ (Unlisted(e) /\ e.version < LastVersion))

\* What is saved or set up was migrated before, and stays so.
EntriesOK ==
  /\ EntryOK(entry) /\ EntryOK(saved)
  /\ Listed(saved) => Listed(entry)
  /\ phase \notin {"stopped", "starting"} => Listed(entry)
  /\ detected \subseteq Adapters

-----------------------------------------------------------------------------
(* The steps of the migration: what each does to the adapters. *)

\* A step that leaves the adapters and the version alone, or what else the device is made of.
SameAdapters(e, f) ==
  /\ f \in Entry
  /\ f.adapterIds = e.adapterIds /\ f.version = e.version
  /\ f.devAdapter = e.devAdapter /\ f.techAdapter = e.techAdapter
SameMeaning(e, f) ==
  /\ f.dev = e.dev /\ f.remote = e.remote /\ f.transSet = e.transSet
  /\ f.repeat = e.repeat /\ f.repeats = e.repeats

LEMMA RecodedType ==
  ASSUME NEW c \in Named
  PROVE  Recoded(c) \in Named /\ Recoded(c).old = c.old /\ Recoded(c).codec = CodecMeant(c)
<1>1. CASE c.old = {} BY <1>1 DEF Recoded, CodecMeant
<1>2. CASE c.old # {}
  <2>1. Value(c.old) \in DOMAIN Migrating BY <1>2 DEF Value, Named
  <2>2. Migrating[Value(c.old)] \in CodecName \X STRING BY <2>1, SetupAssumption
  <2>3. Migrating[Value(c.old)][1] \in CodecName /\ Migrating[Value(c.old)][2] \in STRING BY <2>2
  <2> QED BY <1>2, <2>3 DEF Recoded, Named, CodecMeant
<1> QED BY <1>1, <1>2

LEMMA AdapterMovedKeeps ==
  ASSUME NEW e \in Entry
  PROVE  /\ AdapterMoved(e) \in Entry
         /\ AdapterMoved(e).adapterIds = e.adapterIds
         /\ AdapterMoved(e).version = e.version
         /\ AdapterMoved(e).devAdapter = {}
         /\ AdapterMoved(e).techAdapter = IF e.devAdapter = {} THEN e.techAdapter ELSE e.devAdapter
         /\ SameMeaning(e, AdapterMoved(e))
  BY DEF AdapterMoved, Entry, SameMeaning

LEMMA DroppedKeeps ==
  ASSUME NEW e \in Entry
  PROVE  SameAdapters(e, Dropped(e)) /\ SameMeaning(e, Dropped(e))
  BY DEF Dropped, Entry, SameAdapters, SameMeaning

LEMMA PaddedKeeps ==
  ASSUME NEW e \in Entry
  PROVE  SameAdapters(e, Padded(e)) /\ SameMeaning(e, Padded(e))
  BY DEF Padded, Entry, SameAdapters, SameMeaning, MaxEntities

LEMMA FanRefreshSplitKeeps ==
  ASSUME NEW e \in Entry
  PROVE  SameAdapters(e, FanRefreshSplit(e)) /\ SameMeaning(e, FanRefreshSplit(e))
  BY DEF FanRefreshSplit, Entry, SameAdapters, SameMeaning

LEMMA AdapterListedKeeps ==
  ASSUME NEW e \in Entry
  PROVE  /\ AdapterListed(e) \in Entry
         /\ AdapterListed(e).adapterIds = IF e.techAdapter = {} THEN e.adapterIds ELSE e.techAdapter
         /\ AdapterListed(e).version = e.version
         /\ AdapterListed(e).devAdapter = e.devAdapter
         /\ AdapterListed(e).techAdapter = {}
         /\ SameMeaning(e, AdapterListed(e))
  BY DEF AdapterListed, Entry, SameMeaning

LEMMA RepeatsTripledKeeps ==
  ASSUME NEW e \in Entry
  PROVE  /\ SameAdapters(e, RepeatsTripled(e))
         /\ RepeatsTripled(e).repeats = RepeatsMeant(e)
         /\ RepeatsTripled(e).dev = e.dev /\ RepeatsTripled(e).remote = e.remote
         /\ RepeatsTripled(e).transSet = e.transSet
<1>1. {3 * r : r \in e.repeat} \subseteq Nat BY DEF Entry
<1> QED BY <1>1 DEF RepeatsTripled, RepeatsMeant, Entry, SameAdapters

LEMMA CodecsRecodedKeeps ==
  ASSUME NEW e \in Entry
  PROVE  /\ SameAdapters(e, CodecsRecoded(e))
         /\ CodecsRecoded(e).dev = Recoded(e.dev)
         /\ CodecsRecoded(e).remote = {Recoded(c) : c \in e.remote}
         /\ CodecsRecoded(e).repeats = e.repeats
         /\ CodecsRecoded(e).transSet = e.transSet
<1>1. Recoded(e.dev) \in Named BY RecodedType DEF Entry
<1>2. {Recoded(c) : c \in e.remote} \subseteq Named BY RecodedType DEF Entry
<1> QED BY <1>1, <1>2 DEF CodecsRecoded, Entry, SameAdapters

LEMMA FlMadeSetKeeps ==
  ASSUME NEW e \in Entry
  PROVE  /\ SameAdapters(e, FlMadeSet(e))
         /\ FlMadeSet(e).remote = e.remote /\ FlMadeSet(e).repeats = e.repeats
         /\ FlMadeSet(e).dev.old = e.dev.old
         /\ IF e.dev.codec = {"zhijia_v2_fl"}
            THEN FlMadeSet(e).dev.codec = {"zhijia_v2"} /\ FlMadeSet(e).transSet = {"fl"}
            ELSE FlMadeSet(e).dev = e.dev /\ FlMadeSet(e).transSet = e.transSet
<1> DEFINE d == [e.dev EXCEPT !.codec = {"zhijia_v2"}]
           f == [e EXCEPT !.dev = d, !.transSet = {"fl"}]
<1>1. CASE e.dev.codec = {"zhijia_v2_fl"}
  <2>1. FlMadeSet(e) = f BY <1>1 DEF FlMadeSet
  <2>2. {"zhijia_v2"} \in SUBSET CodecName BY DEF CodecName
  <2>3. e.dev \in Named BY DEF Entry
  <2>4. d \in Named /\ d.old = e.dev.old /\ d.codec = {"zhijia_v2"} BY <2>2, <2>3 DEF Named
  <2> HIDE DEF d
  <2>5. /\ SameAdapters(e, f) /\ f.dev = d /\ f.transSet = {"fl"}
        /\ f.remote = e.remote /\ f.repeats = e.repeats
    BY <2>2, <2>4 DEF Entry, SameAdapters, TransSet
  <2> QED BY <1>1, <2>1, <2>4, <2>5
<1>2. CASE e.dev.codec # {"zhijia_v2_fl"} BY <1>2 DEF FlMadeSet, SameAdapters
<1> QED BY <1>1, <1>2

\* What the chain makes of the codecs, the repetitions and the translators.
Means(e, f) ==
  /\ f.dev.old = e.dev.old
  /\ f.dev.codec = IF FlMeant(e) THEN {"zhijia_v2"} ELSE CodecMeant(e.dev)
  /\ f.transSet = IF FlMeant(e) THEN {"fl"} ELSE e.transSet
  /\ f.repeats = RepeatsMeant(e)
  /\ f.remote = {Recoded(c) : c \in e.remote}

\* The whole chain: the adapter of an old entry is put in the list.
LEMMA StepsAdapters ==
  ASSUME NEW e, EntryOK(e)
  PROVE  /\ Steps(e) \in Entry
         /\ Steps(e).version = e.version
         /\ Steps(e).devAdapter = {} /\ Steps(e).techAdapter = {}
         /\ Steps(e).adapterIds = AdapterMeant(e) /\ AdapterMeant(e) # {}
         /\ Listed(e) => Steps(e).adapterIds = e.adapterIds
         /\ Means(e, Steps(e))
<1> DEFINE a == AdapterMoved(e)
           b == FanRefreshSplit(Padded(Dropped(a)))
           l == AdapterListed(b)
<1>1. e \in Entry BY DEF EntryOK
<1>2. /\ a \in Entry /\ a.devAdapter = {} /\ a.adapterIds = e.adapterIds /\ a.version = e.version
      /\ a.techAdapter = IF e.devAdapter = {} THEN e.techAdapter ELSE e.devAdapter
      /\ SameMeaning(e, a)
  BY <1>1, AdapterMovedKeeps
<1> HIDE DEF a
<1>3. SameAdapters(a, b) /\ SameMeaning(e, b)
  <2>1. SameAdapters(a, Dropped(a)) /\ SameMeaning(e, Dropped(a))
    BY <1>2, DroppedKeeps DEF SameMeaning
  <2>2. SameAdapters(a, Padded(Dropped(a))) /\ SameMeaning(e, Padded(Dropped(a)))
    BY <2>1, PaddedKeeps DEF SameAdapters, SameMeaning
  <2> QED BY <2>2, FanRefreshSplitKeeps DEF SameAdapters, SameMeaning
<1> HIDE DEF b
<1>4. /\ l \in Entry /\ l.version = e.version /\ l.devAdapter = {} /\ l.techAdapter = {}
      /\ l.adapterIds = IF a.techAdapter = {} THEN e.adapterIds ELSE a.techAdapter
      /\ SameMeaning(e, l)
  BY <1>2, <1>3, AdapterListedKeeps DEF SameAdapters, SameMeaning
<1>5. /\ l.adapterIds = AdapterMeant(e) /\ AdapterMeant(e) # {}
      /\ Listed(e) => l.adapterIds = e.adapterIds
  BY <1>2, <1>4 DEF EntryOK, Listed, Unlisted, AdapterMeant
<1> HIDE DEF l
<1> DEFINE t == RepeatsTripled(l)
           k == CodecsRecoded(t)
<1>6. /\ SameAdapters(l, t) /\ t.repeats = RepeatsMeant(e)
      /\ t.dev = e.dev /\ t.remote = e.remote /\ t.transSet = e.transSet
  BY <1>4, RepeatsTripledKeeps DEF SameMeaning, RepeatsMeant
<1> HIDE DEF t
<1>7. /\ SameAdapters(l, k) /\ k.repeats = RepeatsMeant(e) /\ k.transSet = e.transSet
      /\ k.dev = Recoded(e.dev) /\ k.remote = {Recoded(c) : c \in e.remote}
  BY <1>6, CodecsRecodedKeeps DEF SameAdapters
<1> HIDE DEF k
<1>8. Recoded(e.dev).old = e.dev.old /\ Recoded(e.dev).codec = CodecMeant(e.dev)
  BY <1>1, RecodedType DEF Entry
<1>9. SameAdapters(l, Steps(e)) /\ Means(e, Steps(e))
  <2>1. Steps(e) = FlMadeSet(k) BY DEF Steps, a, b, l, t, k
  <2> QED BY <1>7, <1>8, <2>1, FlMadeSetKeeps DEF SameAdapters, Means, FlMeant
<1> QED BY <1>4, <1>5, <1>9 DEF SameAdapters

\* An entry that is migrated is listed, and keeps the adapters it had in the list.
LEMMA MigratedAdapters ==
  ASSUME NEW e, EntryOK(e), detected \subseteq Adapters
  PROVE  /\ EntryOK(Migrated(e)) /\ Listed(Migrated(e))
         /\ Listed(e) => Migrated(e).adapterIds = e.adapterIds
         /\ e.version > 1 => Migrated(e).adapterIds = AdapterMeant(e)
         /\ Migrated(e).version = VersionSaved(e)
         /\ Means(e, Migrated(e))
<1> DEFINE r == AdaptersReplaced(e)
<1>1. e \in Entry BY DEF EntryOK
<1>2. /\ r \in Entry /\ r.devAdapter = {} /\ r.techAdapter = {} /\ r.adapterIds # {}
      /\ Listed(e) => r.adapterIds = e.adapterIds
      /\ e.version > 1 => r.adapterIds = AdapterMeant(e)
      /\ Means(e, r)
  <2>1. CASE Undetected(e) /\ detected # {}
    <3>1. ~ Listed(e) /\ ~ e.version > 1 BY <1>1, <2>1 DEF Undetected, Listed, Entry
    <3>2. r = [Steps(e) EXCEPT !.adapterIds = detected] BY <2>1 DEF AdaptersReplaced
    <3> HIDE DEF r
    <3> QED BY <2>1, <3>1, <3>2, StepsAdapters DEF Entry, Means
  <2>2. CASE ~ (Undetected(e) /\ detected # {})
    BY <2>2, StepsAdapters DEF AdaptersReplaced
  <2> QED BY <2>1, <2>2
<1>3. VersionSaved(e) \in Nat /\ VersionSaved(e) >= 2
  <2>1. CASE Listed(e) BY <1>1, <2>1 DEF VersionSaved, Listed, LastVersion, Entry
  <2>2. CASE Unlisted(e)
    <3>1. Steps(e) # e BY <2>2, StepsAdapters DEF Unlisted
    <3> QED BY <3>1 DEF VersionSaved, Changed, LastVersion
  <2> QED BY <2>1, <2>2 DEF EntryOK
<1> HIDE DEF r
<1>4. Migrated(e) = [r EXCEPT !.version = VersionSaved(e)] BY DEF Migrated, r
<1>5. /\ Migrated(e) \in Entry /\ Migrated(e).version = VersionSaved(e)
      /\ Migrated(e).adapterIds = r.adapterIds
      /\ Migrated(e).devAdapter = {} /\ Migrated(e).techAdapter = {}
      /\ Means(e, Migrated(e))
  BY <1>2, <1>3, <1>4 DEF Entry, Means
<1> QED BY <1>2, <1>3, <1>5 DEF EntryOK, Listed

-----------------------------------------------------------------------------
(* The adapters of the entry. *)

LEMMA InitEntries == Init => EntriesOK
  BY LegacyAssumption DEF Init, EntriesOK, EntryOK

LEMMA MigrateAdapters ==
  ASSUME EntriesOK, Migrate
  PROVE  /\ EntryOK(entry') /\ Listed(entry')
         /\ Listed(entry) => entry'.adapterIds = entry.adapterIds
<1>1. CASE entry.version = LastVersion
  <2>1. Listed(entry) BY <1>1 DEF EntriesOK, EntryOK, Unlisted, Entry, LastVersion
  <2> QED BY <1>1, <2>1 DEF Migrate, EntriesOK
<1>2. CASE entry.version # LastVersion
  <2>1. entry' = Migrated(entry) BY <1>2 DEF Migrate
  <2> QED BY <2>1, MigratedAdapters DEF EntriesOK
<1> QED BY <1>1, <1>2

LEMMA StepEntries ==
  ASSUME EntriesOK, [Next]_vars
  PROVE  EntriesOK'
<1>1. CASE Start BY <1>1 DEF Start, EntriesOK, EntryOK
<1>2. CASE Migrate
  BY <1>2, MigrateAdapters DEF Migrate, EntriesOK
<1>3. CASE SetupEntry BY <1>3 DEF SetupEntry, EntriesOK
<1>4. CASE Forwarded \/ ForwardFails \/ UnloadEntry \/ UnloadFails
  BY <1>4 DEF Forwarded, ForwardFails, UnloadEntry, UnloadFails, EntriesOK
<1>5. CASE Again BY <1>5 DEF Again, EntriesOK
<1>6. CASE Reconfigure
  <2>1. PICK ids \in SUBSET detected : ids # {} /\ entry' = [entry EXCEPT !.adapterIds = ids]
    BY <1>6 DEF Reconfigure
  <2>2. Listed(entry) /\ entry \in Entry /\ ids \in SUBSET Adapters
    BY <1>6 DEF Reconfigure, EntriesOK, EntryOK
  <2>3. /\ entry' \in Entry /\ entry'.adapterIds = ids /\ entry'.version = entry.version
        /\ entry'.devAdapter = entry.devAdapter /\ entry'.techAdapter = entry.techAdapter
    BY <2>1, <2>2 DEF Entry
  <2>4. EntryOK(entry') /\ Listed(entry') BY <2>1, <2>2, <2>3 DEF EntryOK, Listed
  <2> QED BY <1>6, <2>4 DEF Reconfigure, EntriesOK
<1>7. CASE Save BY <1>7 DEF Save, EntriesOK
<1>8. CASE DetectedChange BY <1>8 DEF DetectedChange, EntriesOK
<1>9. CASE Stop BY <1>9 DEF Stop, EntriesOK
<1>10. CASE UNCHANGED vars BY <1>10 DEF vars, EntriesOK
<1> QED BY <1>1, <1>2, <1>3, <1>4, <1>5, <1>6, <1>7, <1>8, <1>9, <1>10 DEF Next

\* No start replaces the adapters of an entry once they are saved (async_migrate_entry).
THEOREM SavedAdaptersAreKept == Spec => AdaptersKept
<1>1. EntriesOK /\ [Next]_vars => EntriesOK' BY StepEntries
<1>2. EntriesOK /\ [Next]_vars =>
        [phase = "starting" /\ phase' = "migrated" /\ saved.adapterIds # {} =>
           entry'.adapterIds = entry.adapterIds]_vars
  <2> SUFFICES ASSUME EntriesOK, Next, phase = "starting", phase' = "migrated",
                      saved.adapterIds # {}
               PROVE  entry'.adapterIds = entry.adapterIds
    BY DEF vars
  <2>1. Migrate
    BY DEF Next, Start, SetupEntry, Forwarded, ForwardFails, UnloadEntry, UnloadFails, Again,
           Reconfigure, Save, DetectedChange, Stop
  <2>2. Listed(entry) BY DEF EntriesOK, EntryOK, Unlisted
  <2> QED BY <2>1, <2>2, MigrateAdapters
<1> QED BY <1>1, <1>2, InitEntries, PTL DEF Spec, AdaptersKept

-----------------------------------------------------------------------------
(* The device the coordinator knows. *)

\* What the coordinator has left of the set-ups that failed, in each phase.
DevicesOK ==
  /\ devices \in Seq({DeviceOf(e) : e \in Entry})
  /\ failures \in Nat
  /\ phase \in {"stopped", "unloaded"} => devices = <<>> /\ ~ stored
  /\ phase \in {"starting", "migrated", "refused", "error"} => Len(devices) <= failures
  /\ Len(devices) <= 1 + failures
  /\ phase \in {"forwarding", "loaded"} =>
       stored = TRUE /\ devices # <<>> /\ devices[Len(devices)] = DeviceOf(entry)

LEMMA InitDevices == Init => DevicesOK
  BY DEF Init, DevicesOK

LEMMA StepDevices ==
  ASSUME EntriesOK, DevicesOK, [Next]_vars
  PROVE  DevicesOK'
<1> USE DEF DevicesOK
<1>1. CASE Start \/ Migrate
  BY <1>1 DEF Start, Migrate
<1>2. CASE SetupEntry
  <2>1. CASE phase' = "refused"
    <3>1. UNCHANGED <<devices, stored, entry, failures>> BY <1>2, <2>1 DEF SetupEntry
    <3> QED BY <1>2, <2>1, <3>1 DEF SetupEntry
  <2>2. CASE phase' # "refused"
    <3> DEFINE d == DeviceOf(entry)
    <3>1. d \in {DeviceOf(e) : e \in Entry} BY DEF EntriesOK, EntryOK
    <3>2. /\ devices' = Append(devices, d) /\ stored' = TRUE /\ phase' = "forwarding"
          /\ UNCHANGED <<entry, failures>> /\ Len(devices) <= failures
      BY <1>2, <2>2 DEF SetupEntry
    <3>3. d = DeviceOf(entry)' BY <3>2 DEF DeviceOf
    <3> HIDE DEF d
    <3>4. /\ devices' \in Seq({DeviceOf(e) : e \in Entry}) /\ Len(devices') = Len(devices) + 1
          /\ devices' # <<>> /\ devices'[Len(devices')] = d
      BY <3>1, <3>2
    <3> QED BY <3>2, <3>3, <3>4
  <2> QED BY <2>1, <2>2
<1>3. CASE Forwarded BY <1>3 DEF Forwarded, DeviceOf
<1>4. CASE ForwardFails BY <1>4 DEF ForwardFails
<1>5. CASE UnloadEntry
  <2>1. Len(<<>>) = 0 OBVIOUS
  <2> QED BY <1>5, <2>1 DEF UnloadEntry, Remaining
<1>6. CASE UnloadFails \/ Again
  <2>1. CASE UnloadFails BY <2>1 DEF UnloadFails
  <2>2. CASE Again
    <3>1. phase = "unloaded" => Len(devices) = 0 OBVIOUS
    <3>2. Len(devices) <= failures BY <2>2, <3>1 DEF Again
    <3> QED BY <2>2, <3>2 DEF Again
  <2> QED BY <1>6, <2>1, <2>2
<1>7. CASE Reconfigure BY <1>7 DEF Reconfigure
<1>8. CASE Save \/ DetectedChange
  <2>1. UNCHANGED <<entry, phase, devices, stored, failures>> BY <1>8 DEF Save, DetectedChange
  <2> QED BY <2>1
<1>9. CASE Stop
  <2>1. Len(<<>>) = 0 OBVIOUS
  <2> QED BY <1>9, <2>1 DEF Stop
<1>10. CASE UNCHANGED vars BY <1>10 DEF vars, DeviceOf
<1> QED BY <1>1, <1>2, <1>3, <1>4, <1>5, <1>6, <1>7, <1>8, <1>9, <1>10 DEF Next

\* The coordinator knows the device of a loaded entry as the entry now is, and none of an
\* entry that is unloaded, however many set-ups failed (async_setup_entry, remove_device).
THEOREM DevicesAreInStep == Spec => []DevicesInStep
<1>1. EntriesOK /\ DevicesOK /\ [Next]_vars => EntriesOK' /\ DevicesOK'
  BY StepEntries, StepDevices
<1>2. DevicesOK => DevicesInStep BY DEF DevicesOK, DevicesInStep
<1> QED BY <1>1, <1>2, InitEntries, InitDevices, PTL DEF Spec

-----------------------------------------------------------------------------
(* The device an older version drove. *)

CodecWanted(o) == IF FlMeant(o) THEN {"zhijia_v2"} ELSE CodecMeant(o.dev)
RemotesWanted(o) == {CodecMeant(c) : c \in o.remote}

\* An entry that was migrated, and that a migration would no longer change.
Done(e, o, ch) ==
  /\ e.dev.codec = CodecWanted(o)
  /\ FlMeant(o) => e.transSet = {"fl"}
  /\ e.repeats = RepeatsMeant(o)
  /\ {c.codec : c \in e.remote} = RemotesWanted(o)
  /\ \A c \in e.remote : c.codec = CodecMeant(c)
  /\ ~ ch /\ o.version > 1 => e.adapterIds = AdapterMeant(o)
  /\ e.version = LastVersion \/ CodecMeant(e.dev) = e.dev.codec

\* What SetUpAsMeant says of one device.
DeviceMeant(d, o, ch) ==
  /\ {d.codec} = CodecWanted(o)
  /\ FlMeant(o) => d.transSet = {"fl"}
  /\ {d.repeats} = RepeatsMeant(o)
  /\ {c.codec : c \in d.remote} = RemotesWanted(o)
  /\ ~ ch /\ o.version > 1 => d.adapters = AdapterMeant(o)

MeantOK ==
  /\ origin \in Legacy
  /\ chosen \in BOOLEAN
  /\ entry = origin \/ (Listed(entry) /\ Done(entry, origin, chosen))
  /\ saved = origin \/ (Listed(saved) /\ Done(saved, origin, chosen))
  /\ phase \notin {"stopped", "starting"} => Done(entry, origin, chosen)
  /\ phase # "refused"
  /\ \A i \in DOMAIN devices : DeviceMeant(devices[i], origin, chosen)

LEMMA NamesMeant ==
  ASSUME NEW c \in Named
  PROVE  CodecMeant(Recoded(c)) = CodecMeant(c)
<1>1. CASE c.old = {} BY <1>1 DEF Recoded
<1>2. CASE c.old # {} BY <1>2, RecodedType DEF CodecMeant
<1> QED BY <1>1, <1>2

\* Migrating the entry as it was left gives what it meant.
LEMMA MigratedFromOrigin ==
  ASSUME EntriesOK, origin \in Legacy
  PROVE  Done(Migrated(origin), origin, chosen)
<1> DEFINE e == Migrated(origin)
<1>1. EntryOK(origin) /\ origin \in Entry BY LegacyAssumption DEF EntryOK
<1>2. /\ Means(origin, e) /\ e.version = VersionSaved(origin)
      /\ origin.version > 1 => e.adapterIds = AdapterMeant(origin)
  BY <1>1, MigratedAdapters DEF EntriesOK
<1> HIDE DEF e
<1>3. /\ {c.codec : c \in e.remote} = RemotesWanted(origin)
      /\ \A c \in e.remote : c.codec = CodecMeant(c)
  <2>1. \A c \in origin.remote :
          Recoded(c).codec = CodecMeant(c) /\ CodecMeant(Recoded(c)) = CodecMeant(c)
    BY <1>1, RecodedType, NamesMeant DEF Entry
  <2>2. e.remote = {Recoded(c) : c \in origin.remote} BY <1>2 DEF Means
  <2> QED BY <2>1, <2>2 DEF RemotesWanted
<1>4. e.version = LastVersion \/ CodecMeant(e.dev) = e.dev.codec
  <2>1. CASE Changed(origin) \/ Undetected(origin) BY <1>2, <2>1 DEF VersionSaved
  <2>2. CASE ~ (Changed(origin) \/ Undetected(origin))
    <3>1. Steps(origin) = origin /\ CodecsRecoded(origin) = origin BY <2>2 DEF Changed
    <3>2. Recoded(origin.dev) = origin.dev BY <1>1, <3>1, CodecsRecodedKeeps
    <3>3. origin.dev \in Named BY <1>1 DEF Entry
    <3>4. CodecMeant(origin.dev) = origin.dev.codec BY <3>2, <3>3, RecodedType
    <3>5. e.dev = origin.dev
      <4>1. e = [origin EXCEPT !.version = VersionSaved(origin)]
        BY <2>2, <3>1 DEF e, Migrated, AdaptersReplaced
      <4> QED BY <1>1, <4>1 DEF Entry
    <3> QED BY <3>4, <3>5
  <2> QED BY <2>1, <2>2
<1> QED BY <1>2, <1>3, <1>4 DEF Done, Means, CodecWanted, e

\* Migrating it again changes nothing that matters.
LEMMA MigratedAgain ==
  ASSUME EntriesOK, origin \in Legacy, Listed(entry), Done(entry, origin, chosen), entry.version # LastVersion
  PROVE  Done(Migrated(entry), origin, chosen)
<1> DEFINE e == Migrated(entry)
<1>1. EntryOK(entry) /\ entry \in Entry BY DEF EntriesOK, EntryOK
<1>2. Means(entry, e) /\ e.adapterIds = entry.adapterIds
  BY <1>1, MigratedAdapters DEF EntriesOK
<1> HIDE DEF e
<1>3. CodecMeant(entry.dev) = entry.dev.codec /\ ~ FlMeant(entry)
  BY DEF Done, FlMeant, CodecWanted
<1>4. entry.repeats # {} BY LegacyAssumption DEF Done
<1>5. e.dev.codec = entry.dev.codec /\ e.dev.old = entry.dev.old /\ e.transSet = entry.transSet
      /\ e.repeats = entry.repeats
  BY <1>2, <1>3, <1>4 DEF Means, RepeatsMeant
<1>6. CodecMeant(e.dev) = e.dev.codec BY <1>3, <1>5 DEF CodecMeant
<1>7. /\ {c.codec : c \in e.remote} = RemotesWanted(origin)
      /\ \A c \in e.remote : c.codec = CodecMeant(c)
  <2>1. \A c \in entry.remote : Recoded(c).codec = c.codec /\ CodecMeant(Recoded(c)) = c.codec
    BY <1>1, RecodedType, NamesMeant DEF Entry, Done
  <2>2. e.remote = {Recoded(c) : c \in entry.remote} BY <1>2 DEF Means
  <2>3. {c.codec : c \in e.remote} = {c.codec : c \in entry.remote} BY <2>1, <2>2
  <2> QED BY <2>1, <2>2, <2>3 DEF Done
<1> QED BY <1>2, <1>5, <1>6, <1>7 DEF Done, e

\* The set-up accepts an entry that was migrated, and creates the device it meant.
LEMMA DoneIsSetUp ==
  ASSUME EntriesOK, origin \in Legacy, Listed(entry), Done(entry, origin, chosen)
  PROVE  Accepted(entry) /\ DeviceMeant(DeviceOf(entry), origin, chosen)
<1>1. PICK n \in Codecs : CodecWanted(origin) = {n}
  BY LegacyAssumption DEF CodecWanted, FlMeant
<1>2. PICK r : RepeatsMeant(origin) = {r} BY LegacyAssumption
<1>3. Value({n}) = n /\ Value({r}) = r BY DEF Value
<1>4. \A c \in entry.remote : c.codec # {} /\ c.codec \subseteq Codecs
  <2>1. \A x \in RemotesWanted(origin) : x # {} /\ x \subseteq Codecs BY LegacyAssumption DEF RemotesWanted
  <2> QED BY <2>1 DEF Done
<1>5. Accepted(entry) BY <1>1, <1>2, <1>4 DEF Accepted, Done, Listed
<1> DEFINE d == DeviceOf(entry)
<1>6. /\ d.codec = Value(entry.dev.codec) /\ d.repeats = Value(entry.repeats)
      /\ d.adapters = entry.adapterIds /\ d.transSet = entry.transSet
      /\ d.remote = {[codec |-> c.codec, params |-> c.params] :
                       c \in {x \in entry.remote : x.codec # {}}}
  BY DEF DeviceOf
<1> HIDE DEF d
<1>7. {c.codec : c \in d.remote} = {c.codec : c \in entry.remote}
  <2>1. {x \in entry.remote : x.codec # {}} = entry.remote BY <1>4
  <2>2. d.remote = {[codec |-> c.codec, params |-> c.params] : c \in entry.remote} BY <1>6, <2>1
  <2>3. ASSUME NEW c \in entry.remote PROVE \E x \in d.remote : x.codec = c.codec
    <3>1. [codec |-> c.codec, params |-> c.params] \in d.remote BY <2>2
    <3> QED BY <3>1
  <2>4. ASSUME NEW x \in d.remote PROVE \E c \in entry.remote : x.codec = c.codec BY <2>2
  <2> QED BY <2>3, <2>4
<1>8. DeviceMeant(d, origin, chosen) BY <1>1, <1>2, <1>3, <1>6, <1>7 DEF DeviceMeant, Done
<1> QED BY <1>5, <1>8 DEF d

\* What is meant does not depend on the step but for the choice of the user.
LEMMA MeantStays ==
  ASSUME MeantOK, NEW ch \in BOOLEAN, chosen => ch
  PROVE  /\ \A e : Done(e, origin, chosen) => Done(e, origin, ch)
         /\ \A i \in DOMAIN devices : DeviceMeant(devices[i], origin, ch)
<1>1. ~ ch => ~ chosen OBVIOUS
<1>2. \A e : Done(e, origin, chosen) => Done(e, origin, ch) BY <1>1 DEF Done
<1>3. \A d : DeviceMeant(d, origin, chosen) => DeviceMeant(d, origin, ch) BY <1>1 DEF DeviceMeant
<1> QED BY <1>2, <1>3 DEF MeantOK

LEMMA InitMeant == Init => MeantOK
<1> SUFFICES ASSUME Init PROVE MeantOK OBVIOUS
<1>1. phase = "stopped" /\ devices = <<>> BY DEF Init
<1>2. DOMAIN devices = {} BY <1>1
<1> QED BY <1>1, <1>2 DEF Init, MeantOK

LEMMA StepMeant ==
  ASSUME EntriesOK, DevicesOK, MeantOK, [Next]_vars
  PROVE  MeantOK'
<1> USE DEF MeantOK
<1>1. CASE Start
  BY <1>1 DEF Start
<1>2. CASE Migrate
  <2>1. Done(entry', origin, chosen)
    <3>1. CASE entry.version = LastVersion
      <4>1. entry # origin BY <3>1, LegacyAssumption DEF LastVersion, Entry
      <4> QED BY <1>2, <3>1, <4>1 DEF Migrate
    <3>2. CASE entry.version # LastVersion
      BY <1>2, <3>2, MigratedFromOrigin, MigratedAgain DEF Migrate
    <3> QED BY <3>1, <3>2
  <2>2. Listed(entry') BY <1>2, MigrateAdapters
  <2> QED BY <1>2, <2>1, <2>2 DEF Migrate
<1>3. CASE SetupEntry
  <2>1. Listed(entry) /\ Done(entry, origin, chosen) BY <1>3 DEF SetupEntry, EntriesOK
  <2>2. Accepted(entry) /\ DeviceMeant(DeviceOf(entry), origin, chosen) BY <2>1, DoneIsSetUp
  <2> DEFINE d == DeviceOf(entry)
  <2>3. /\ devices' = Append(devices, d) /\ phase' = "forwarding"
        /\ UNCHANGED <<origin, saved, entry, chosen>>
    BY <1>3, <2>2 DEF SetupEntry
  <2> HIDE DEF d
  <2>4. devices \in Seq({DeviceOf(e) : e \in Entry}) BY DEF DevicesOK
  <2>5. \A i \in DOMAIN devices' :
              (i \in DOMAIN devices /\ devices'[i] = devices[i]) \/ devices'[i] = d
    BY <2>3, <2>4
  <2> QED BY <2>1, <2>2, <2>3, <2>5 DEF d
<1>4. CASE Forwarded \/ ForwardFails \/ UnloadFails
  BY <1>4 DEF Forwarded, ForwardFails, UnloadFails
<1>5. CASE UnloadEntry \/ Stop
  <2>1. devices' = <<>> BY <1>5 DEF UnloadEntry, Stop, Remaining
  <2>2. DOMAIN devices' = {} BY <2>1
  <2> QED BY <1>5, <2>2 DEF UnloadEntry, Stop
<1>6. CASE Again BY <1>6 DEF Again
<1>7. CASE Reconfigure
  <2>1. PICK ids \in SUBSET detected : ids # {} /\ entry' = [entry EXCEPT !.adapterIds = ids]
    BY <1>7 DEF Reconfigure
  <2>2. Listed(entry) /\ entry \in Entry /\ Done(entry, origin, chosen)
    BY <1>7 DEF Reconfigure, EntriesOK, EntryOK
  <2>3. /\ entry'.dev = entry.dev /\ entry'.transSet = entry.transSet /\ entry'.repeats = entry.repeats
        /\ entry'.remote = entry.remote /\ entry'.version = entry.version /\ entry'.adapterIds = ids
        /\ entry'.devAdapter = entry.devAdapter /\ entry'.techAdapter = entry.techAdapter
    BY <2>1, <2>2 DEF Entry
  <2>4. Listed(entry') /\ Done(entry', origin, TRUE) BY <2>1, <2>2, <2>3 DEF Listed, Done
  <2>5. /\ Done(saved, origin, chosen) => Done(saved, origin, TRUE)
        /\ \A i \in DOMAIN devices : DeviceMeant(devices[i], origin, TRUE)
    BY MeantStays
  <2> QED BY <1>7, <2>4, <2>5 DEF Reconfigure
<1>8. CASE Save \/ DetectedChange BY <1>8 DEF Save, DetectedChange
<1>9. CASE UNCHANGED vars BY <1>9 DEF vars
<1> QED BY <1>1, <1>2, <1>3, <1>4, <1>5, <1>6, <1>7, <1>8, <1>9 DEF Next

\* From any entry an older version may have left, through any stops, failures and choices,
\* the set-up never misses a key and creates the device the older version drove
\* (async_migrate_entry, async_setup_entry).
THEOREM DevicesAreAsMeant == Spec => []SetUpAsMeant
<1>1. /\ EntriesOK /\ DevicesOK /\ MeantOK /\ [Next]_vars
      => EntriesOK' /\ DevicesOK' /\ MeantOK'
  BY StepEntries, StepDevices, StepMeant
<1>2. MeantOK => SetUpAsMeant
  BY DEF MeantOK, SetUpAsMeant, DeviceMeant, CodecWanted, RemotesWanted
<1> QED BY <1>1, <1>2, InitEntries, InitDevices, InitMeant, PTL DEF Spec
=============================================================================
