----------------------------- MODULE Coordinator -----------------------------
(***************************************************************************)
(* The reception side of coordinator.py: the two caches of advertisements, *)
(* the publication of the commands to the devices, the registered devices  *)
(* and the addresses of our own adapters. The listening sessions, which    *)
(* only record what passes, are left out.                                  *)
(*                                                                         *)
(* handle_raw_adv awaits only handlers that suspend nowhere: it runs in one*)
(* go. It is modelled in steps, one per codec that decodes, between which  *)
(* nothing else happens. Durations are counted in ticks, from now: an entry*)
(* with no time left is an absent one, since each use of a cache is        *)
(* preceded by its clean-up.                                               *)
(*                                                                         *)
(* The order of _devices only matters when a handler raises, where those   *)
(* before the faulty device are any subset.                                *)
(***************************************************************************)
EXTENDS Naturals, FiniteSets

CONSTANTS
  Device, Adapter, Codec,
  Adv,           \* the payloads (adv.raw)
  Raw,           \* the raw advertisements that carry them
  Inner,         \* BleAdvAdvertisement.FromRaw: the payload of each raw
  MatchId,       \* the match_id of each codec
  Conf,          \* Conf[v]: what decode_adv of each codec that decodes v returns
  Listens,       \* _listeners of each device: match_id and id
  AdaptersOf,    \* adapter_ids of each device
  Counting,      \* the codecs whose commands are numbered (consolidate)
  IgnRaw,        \* ign_duration of the coordinator
  IgnDur,        \* ign_duration of each codec
  Broken         \* the devices whose handlers may raise (a disabled entity)

\* The codecs that decode a payload.
Decoders(v) == DOMAIN Conf[v]

\* Who else than our adapters sends, and the entry of _dec_last_advs of a
\* payload that has none.
Remote == "remote"
NoItem == [left |-> 0, codec |-> "none", pub |-> {}]
NoPrev == [stamp |-> 0, cmd |-> "none", count |-> 0]

Confs == UNION {{Conf[v][c] : c \in Decoders(v)} : v \in Adv}

ASSUME CoordinatorAssumption ==
  /\ Remote \notin Adapter
  /\ Inner \in [Raw -> Adv]
  /\ \A v \in Adv : Decoders(v) \subseteq Codec
  /\ \A k \in Confs : k.stamp \in Nat /\ k.count \in Nat
  /\ AdaptersOf \in [Device -> SUBSET Adapter]
  /\ IgnRaw \in Nat \ {0}
  /\ IgnDur \in [Codec -> Nat \ {0}]
  /\ Broken \subseteq Device

VARIABLES
  devices,   \* _devices
  inUse,     \* _in_use_codecs
  rawLast,   \* _raw_last_advs: the time left of each raw
  decLast,   \* _dec_last_advs: the item of each payload
  prev,      \* prev_tx_count with prev_seed, and prev_cmd, of each device
  up,        \* the adapters registered in the managers
  macs,      \* _adapter_macs, each address standing for its adapter
  heard,     \* the raw being handled and its adapter, as a set
  todo,      \* the codecs that have still to decode it
  window,    \* auxiliary: for how long a device must not get a payload again
  twice,     \* auxiliary: a device was given a payload again in that time
  lost,      \* auxiliary: a device did not get what its adapter heard
  echoed,    \* auxiliary: what an adapter of ours sent was handled
  raised     \* auxiliary: the handler of a device raised

cache == <<rawLast, decLast>>
hand  == <<heard, todo>>
own   == <<up, macs>>
aux   == <<window, twice, lost, echoed, raised>>
vars  == <<devices, inUse, cache, prev, own, hand, aux>>

Items == [left : Nat, codec : Codec \cup {"none"}, pub : SUBSET Device]

TypeOK ==
  /\ devices \in SUBSET Device
  /\ inUse \in SUBSET Codec
  /\ rawLast \in [Raw -> 0..IgnRaw]
  /\ decLast \in [Adv -> Items]
  /\ DOMAIN prev = Device
  /\ \A d \in Device : prev[d].stamp \in Nat /\ prev[d].count \in Nat
  /\ up \in SUBSET Adapter
  /\ macs \in SUBSET Adapter
  /\ heard \in SUBSET (Adapter \X Raw)
  /\ todo \in SUBSET Codec
  /\ window \in [Device -> [Adv -> Nat]]
  /\ {twice, lost, echoed, raised} \subseteq BOOLEAN

\* _recompute_in_use_codecs: the codecs that share a match_id with a listener.
InUseOf(ds) ==
  {c \in Codec : \E d \in ds : \E l \in Listens[d] : l.match = MatchId[c]}

\* match: a listener of the device is for what the codec decoded, and the device
\* uses the adapter. Whether it controls the device is the device's concern.
Matches(d, c, v, a) ==
  /\ a \in AdaptersOf[d]
  /\ \E l \in Listens[d] : l.match = MatchId[c] /\ l.id = Conf[v][c].id

\* consolidate: a numbered command is discarded when it only counts further.
Kept(c, v, p) ==
  \/ c \notin Counting
  \/ p.cmd # Conf[v][c].cmd
  \/ Conf[v][c].count <= p.count

\* The device takes the command: it is kept, and it is not the transmission the
\* device received last. The stamp 0 stands for no transmission count and no seed.
Accepts(d, c, v) ==
  /\ Kept(c, v, prev[d])
  /\ Conf[v][c].stamp = 0 \/ Conf[v][c].stamp # prev[d].stamp

\* Mutated form: the devices that got it are not remembered.
TargetsAll(c, v, a, pub) == {d \in devices : Matches(d, c, v, a)}

\* _publish_to_devices: the devices concerned.
Targets(c, v, a, pub) == {d \in devices \ pub : Matches(d, c, v, a)}

\* What the devices of done receive, from an item that has time left to live.
Deliver(c, v, done, left) ==
  /\ prev' = [d \in Device |->
       IF d \in done
       THEN [stamp |-> Conf[v][c].stamp, cmd |-> Conf[v][c].cmd, count |-> Conf[v][c].count]
       ELSE prev[d]]
  /\ window' = [d \in Device |->
       IF d \in done THEN [window[d] EXCEPT ![v] = left] ELSE window[d]]
  /\ twice' = (twice \/ \E d \in done : window[d][v] > 0 /\ Accepts(d, c, v))

\* The devices whose handler raises on the command.
Faulty(ts, c, v) == {d \in ts \cap Broken : Accepts(d, c, v)}

\* The handler is over: has every device concerned by v got it?
Missed(a, v) ==
  \E d \in devices, c \in Decoders(v) : Matches(d, c, v, a) /\ window'[d][v] = 0

Idle == heard = {}

\* The filters of handle_raw_adv let the advertisement of orig pass.
Receives(a, orig) ==
  /\ Idle
  /\ a \in up
  /\ orig \notin macs
  /\ orig # a
  /\ echoed' = (echoed \/ orig \in up)

Init ==
  /\ devices = {} /\ inUse = {}
  /\ rawLast = [r \in Raw |-> 0]
  /\ decLast = [v \in Adv |-> NoItem]
  /\ prev = [d \in Device |-> NoPrev]
  /\ up = {} /\ macs = {}
  /\ heard = {} /\ todo = {}
  /\ window = [d \in Device |-> [v \in Adv |-> 0]]
  /\ twice = FALSE /\ lost = FALSE /\ echoed = FALSE
  /\ raised = FALSE

-----------------------------------------------------------------------------
(* handle_raw_adv.                                                         *)

\* The raw is known and was not decoded: it is ignored for longer.
HandleIgnored(a, r, orig) ==
  /\ Receives(a, orig)
  /\ rawLast[r] > 0
  /\ rawLast' = [rawLast EXCEPT ![r] = IgnRaw]
  /\ lost' = (lost \/ \E d \in devices, c \in Decoders(Inner[r]) :
                        Matches(d, c, Inner[r], a) /\ window[d][Inner[r]] = 0)
  /\ UNCHANGED <<devices, inUse, decLast, prev, own, hand, window, twice, raised>>

\* Mutated form: what was decoded already is not published to the other devices.
HandleDecodedIgnored(a, r, orig) ==
  LET v == Inner[r] IN
  /\ Receives(a, orig)
  /\ rawLast[r] = 0
  /\ decLast[v].left > 0
  /\ UNCHANGED <<prev, window, twice, raised>>
  /\ lost' = (lost \/ Missed(a, v))
  /\ UNCHANGED <<devices, inUse, cache, own, hand>>

\* The payload was decoded already: the devices that did not get it may match
\* with this adapter. When the handler of one raises, those after it get nothing.
HandleDecoded(a, r, orig) ==
  LET v == Inner[r]
      i == decLast[v]
      ts == Targets(i.codec, v, a, i.pub) IN
  /\ Receives(a, orig)
  /\ rawLast[r] = 0
  /\ i.left > 0
  /\ \E done \in SUBSET ts :
       /\ done # ts => \E f \in Faulty(ts, i.codec, v) : f \notin done
       /\ raised' = (raised \/ done # ts)
       /\ decLast' = [decLast EXCEPT ![v].pub = @ \cup done]
       /\ Deliver(i.codec, v, done, i.left)
  /\ lost' = (lost \/ Missed(a, v))
  /\ UNCHANGED <<devices, inUse, rawLast, own, hand>>

\* No codec in use decodes the raw: it will be ignored.
HandleUnknown(a, r, orig) ==
  LET v == Inner[r] IN
  /\ Receives(a, orig)
  /\ rawLast[r] = 0
  /\ decLast[v].left = 0
  /\ Decoders(v) \cap inUse = {}
  /\ rawLast' = [rawLast EXCEPT ![r] = IgnRaw]
  /\ UNCHANGED <<prev, window, twice, raised>>
  /\ lost' = (lost \/ Missed(a, v))
  /\ UNCHANGED <<devices, inUse, decLast, own, hand>>

\* Some codecs in use decode the raw: they are tried in any order.
HandleNew(a, r, orig) ==
  LET v == Inner[r] IN
  /\ Receives(a, orig)
  /\ rawLast[r] = 0
  /\ decLast[v].left = 0
  /\ Decoders(v) \cap inUse # {}
  /\ heard' = {<<a, r>>}
  /\ todo' = Decoders(v) \cap inUse
  /\ UNCHANGED <<devices, inUse, cache, prev, own, window, twice, lost, raised>>

\* The handler goes on with the codecs left, or is over.
GoOn(a, r, left) ==
  /\ todo' = left
  /\ heard' = IF left = {} THEN {} ELSE heard
  /\ lost' = (lost \/ (left = {} /\ Missed(a, Inner[r])))

\* A codec decodes it: the devices get it, and the item is remembered.
Decode(c) ==
  \E a \in Adapter, r \in Raw :
    LET v == Inner[r]
        ts == Targets(c, v, a, {}) IN
    /\ <<a, r>> \in heard /\ c \in todo
    /\ Deliver(c, v, ts, IgnDur[c])
    /\ decLast' = [decLast EXCEPT ![v] = [left |-> IgnDur[c], codec |-> c, pub |-> ts]]
    /\ GoOn(a, r, todo \ {c})
    /\ UNCHANGED <<devices, inUse, rawLast, own, echoed, raised>>

\* The handler of a device raises: handle_raw_adv is over, nothing is remembered.
DecodeRaises(c) ==
  \E a \in Adapter, r \in Raw :
    LET v == Inner[r]
        ts == Targets(c, v, a, {}) IN
    /\ <<a, r>> \in heard /\ c \in todo
    /\ \E f \in Faulty(ts, c, v), done \in SUBSET ts :
         /\ f \notin done
         /\ Deliver(c, v, done, IgnDur[c])
    /\ GoOn(a, r, {})
    /\ raised' = TRUE
    /\ UNCHANGED <<devices, inUse, cache, own, echoed>>

Handle(a, r, orig) ==
  \/ HandleIgnored(a, r, orig) \/ HandleDecoded(a, r, orig)
  \/ HandleUnknown(a, r, orig) \/ HandleNew(a, r, orig)

-----------------------------------------------------------------------------
(* The devices, the adapters and the time.                                 *)

\* add_device, for a new device object.
AddDevice(d) ==
  /\ Idle /\ d \notin devices
  /\ devices' = devices \cup {d}
  /\ inUse' = InUseOf(devices \cup {d})
  /\ rawLast' = [r \in Raw |-> 0]
  /\ prev' = [prev EXCEPT ![d] = NoPrev]
  /\ UNCHANGED <<decLast, own, hand, aux>>

\* Mutated form: the items decoded so far stay.
RemoveDeviceKeepDec(d) ==
  /\ Idle /\ d \in devices
  /\ devices' = devices \ {d}
  /\ inUse' = InUseOf(devices \ {d})
  /\ window' = [e \in Device |-> [v \in Adv |-> 0]]
  /\ UNCHANGED <<cache, prev, own, hand, twice, lost, echoed, raised>>

\* remove_device.
RemoveDevice(d) ==
  /\ Idle /\ d \in devices
  /\ devices' = devices \ {d}
  /\ inUse' = InUseOf(devices \ {d})
  /\ decLast' = [v \in Adv |-> NoItem]
  /\ window' = [e \in Device |-> [v \in Adv |-> 0]]
  /\ UNCHANGED <<rawLast, prev, own, hand, twice, lost, echoed, raised>>

\* Mutated form: the addresses are only added when an adapter appears.
OnAdapterChangeKeep(a) ==
  /\ macs' = IF a \in up' THEN macs ELSE up'
  /\ UNCHANGED raised

\* on_adapter_change: the addresses are computed after the devices are told, unless
\* the update of a device that uses the adapter raises.
OnAdapterChange(a) ==
  \/ /\ macs' = up'
     /\ UNCHANGED raised
  \/ /\ \E d \in devices \cap Broken : a \in AdaptersOf[d]
     /\ raised' = TRUE
     /\ UNCHANGED macs

\* A manager registers an adapter, in place of another one perhaps, or removes it.
AdapterChange(a) ==
  /\ Idle
  /\ \/ up' = up \cup {a}
     \/ a \in up /\ up' = up \ {a}
  /\ OnAdapterChange(a)
  /\ UNCHANGED <<devices, inUse, cache, prev, hand, window, twice, lost, echoed>>

\* _clean: a manager drops all its adapters, of which the coordinator is told nothing.
CleanAdapters(dropped) ==
  /\ Idle /\ dropped # {}
  /\ up' = up \ dropped
  /\ UNCHANGED <<devices, inUse, cache, prev, macs, hand, aux>>

Less(n) == IF n > 0 THEN n - 1 ELSE 0

\* An item of the cache, a tick later.
Left(i) == IF i.left > 1 THEN [i EXCEPT !.left = @ - 1] ELSE NoItem

Tick ==
  /\ Idle
  /\ rawLast' = [r \in Raw |-> Less(rawLast[r])]
  /\ decLast' = [v \in Adv |-> Left(decLast[v])]
  /\ window' = [d \in Device |-> [v \in Adv |-> Less(window[d][v])]]
  /\ UNCHANGED <<devices, inUse, prev, own, hand, twice, lost, echoed, raised>>

Next ==
  \/ \E a \in Adapter, r \in Raw, orig \in Adapter \cup {Remote} : Handle(a, r, orig)
  \/ \E c \in Codec : Decode(c) \/ DecodeRaises(c)
  \/ \E d \in Device : AddDevice(d) \/ RemoveDevice(d)
  \/ \E a \in Adapter : AdapterChange(a)
  \/ \E dropped \in SUBSET up : CleanAdapters(dropped)
  \/ Tick

Spec == Init /\ [][Next]_vars

-----------------------------------------------------------------------------
(* Properties.                                                             *)

\* A raw advertisement is ignored only while no codec in use decodes it
\* (handle_raw_adv, add_device).
RawCacheSound ==
  \A r \in Raw : rawLast[r] > 0 => Decoders(Inner[r]) \cap inUse = {}

\* An item remembered was decoded by a codec that is still in use, and was given to
\* devices that are still there (handle_raw_adv, remove_device).
DecCacheSound ==
  \A v \in Adv : decLast[v].left > 0 =>
    /\ decLast[v].codec \in Decoders(v) \cap inUse
    /\ decLast[v].pub \subseteq devices

\* The two caches hide nothing while devices come and go, even when handlers raise.
CachesSound == RawCacheSound /\ DecCacheSound

\* As long as no handler raised, a device is given a command at most once in the
\* life of its decoding, however often and by however many adapters it is heard
\* (_publish_to_devices).
PublishedOnce == twice => raised

\* As long as no handler raised, what an adapter hears is given to every device that
\* uses this adapter and listens to it, now or before (handle_raw_adv).
NothingLost == lost => raised

\* As long as no handler raised, what our own adapters send is not taken for a
\* command (handle_raw_adv, on_adapter_change).
NoEcho == echoed => raised

\* The same as PublishedOnce, for the comment of _publish_to_devices: "if not already
\* done". A handler that raises breaks it (see the README).
NeverAgain == ~twice

\* The codecs in use are those of the devices.
InUseOK == inUse = InUseOf(devices)

\* The handler in progress has some codecs to try, all of them in use.
HandOK ==
  /\ Idle => todo = {}
  /\ \A p, q \in heard : p = q
  /\ \A p \in heard : todo # {} /\ todo \subseteq Decoders(Inner[p[2]]) \cap inUse

\* What holds whatever the handlers and the codecs do.
CacheInv == TypeOK /\ InUseOK /\ HandOK /\ RawCacheSound /\ DecCacheSound

\* What a device must not get again is what the cache says it got, for the time
\* the cache says; nothing of the payload being decoded is remembered.
WindowOK ==
  /\ \A d \in Device, v \in Adv :
       window[d][v] = IF d \in decLast[v].pub THEN decLast[v].left ELSE 0
  /\ \A p \in heard : decLast[Inner[p[2]]].left = 0

\* What holds until a handler raises, when each payload has one codec at most.
Clean == WindowOK /\ up \subseteq macs /\ ~twice /\ ~lost /\ ~echoed

\* The inductive invariant.
IInv == CacheInv /\ (raised \/ Clean)
=============================================================================
