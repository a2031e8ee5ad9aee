-------------------------- MODULE CoordinatorProofs --------------------------
(***************************************************************************)
(* Proofs about Coordinator. The caches are sound whatever the codecs and  *)
(* the handlers do (CacheInv). When a payload has one codec at most, each  *)
(* command is given once to each device concerned, and nothing is lost,    *)
(* until the handler of a device raises (IInv).                            *)
(***************************************************************************)
EXTENDS Coordinator, TLAPS

\* At most one codec decodes a payload, which the tests of the codecs assert but
\* for some RGB commands.
SingleDecoder == \A v \in Adv : \A c, e \in Decoders(v) : c = e

-----------------------------------------------------------------------------
(* Types.                                                                  *)

LEMMA ConfTypes ==
  ASSUME NEW v \in Adv, NEW c \in Decoders(v)
  PROVE  c \in Codec /\ Conf[v][c].stamp \in Nat /\ Conf[v][c].count \in Nat
BY CoordinatorAssumption DEF Confs

\* What a publication does to the types.
LEMMA DeliverTypes ==
  ASSUME TypeOK, NEW v \in Adv, NEW c \in Decoders(v), NEW done \in SUBSET Device,
         NEW left \in Nat, Deliver(c, v, done, left)
  PROVE  /\ DOMAIN prev' = Device
         /\ \A d \in Device : prev'[d].stamp \in Nat /\ prev'[d].count \in Nat
         /\ window' \in [Device -> [Adv -> Nat]]
         /\ twice' \in BOOLEAN
<1>1. twice' \in BOOLEAN BY DEF Deliver
<1>2. window' \in [Device -> [Adv -> Nat]] BY DEF Deliver, TypeOK
<1>3. DOMAIN prev' = Device BY DEF Deliver
<1>4. \A d \in Device : prev'[d].stamp \in Nat /\ prev'[d].count \in Nat
  BY ConfTypes DEF Deliver, TypeOK
<1> QED BY <1>1, <1>2, <1>3, <1>4

LEMMA ReceivesTypes ==
  ASSUME TypeOK, NEW a, NEW orig, Receives(a, orig)
  PROVE  echoed' \in BOOLEAN /\ a \in Adapter /\ Idle
BY DEF Receives, TypeOK

\* An ignored raw is ignored for longer.
LEMMA HandleIgnoredCache ==
  ASSUME CacheInv, NEW a \in Adapter, NEW r \in Raw, NEW orig, HandleIgnored(a, r, orig)
  PROVE  CacheInv'
<1>1. rawLast' \in [Raw -> 0..IgnRaw]
  BY CoordinatorAssumption DEF CacheInv, HandleIgnored, TypeOK
<1>2. lost' \in BOOLEAN
  BY DEF HandleIgnored
<1>3. TypeOK'
  BY <1>1, <1>2, ReceivesTypes DEF CacheInv, HandleIgnored, own, hand, TypeOK
<1>4. InUseOK'
  BY DEF CacheInv, InUseOK, InUseOf, HandleIgnored
<1>5. HandOK'
  BY DEF CacheInv, HandOK, Idle, HandleIgnored, hand
<1>6. RawCacheSound'
  BY DEF CacheInv, RawCacheSound, TypeOK, HandleIgnored
<1>7. DecCacheSound'
  BY DEF CacheInv, DecCacheSound, HandleIgnored
<1> QED BY <1>1, <1>2, <1>3, <1>4, <1>5, <1>6, <1>7 DEF CacheInv

\* A raw is ignored once no codec in use decodes it.
LEMMA HandleUnknownCache ==
  ASSUME CacheInv, NEW a \in Adapter, NEW r \in Raw, NEW orig, HandleUnknown(a, r, orig)
  PROVE  CacheInv'
<1>1. rawLast' \in [Raw -> 0..IgnRaw]
  BY CoordinatorAssumption DEF CacheInv, HandleUnknown, TypeOK
<1>2. lost' \in BOOLEAN
  BY DEF HandleUnknown
<1>3. TypeOK'
  BY <1>1, <1>2, ReceivesTypes DEF CacheInv, HandleUnknown, own, hand, TypeOK
<1>4. InUseOK'
  BY DEF CacheInv, InUseOK, InUseOf, HandleUnknown
<1>5. HandOK'
  BY DEF CacheInv, HandOK, Idle, HandleUnknown, hand
<1>6. RawCacheSound'
  BY DEF CacheInv, RawCacheSound, TypeOK, HandleUnknown
<1>7. DecCacheSound'
  BY DEF CacheInv, DecCacheSound, HandleUnknown
<1> QED BY <1>1, <1>2, <1>3, <1>4, <1>5, <1>6, <1>7 DEF CacheInv

\* A raw starts to be decoded by codecs in use.
LEMMA HandleNewCache ==
  ASSUME CacheInv, NEW a \in Adapter, NEW r \in Raw, NEW orig, HandleNew(a, r, orig)
  PROVE  CacheInv'
<1>1. TypeOK'
  BY ReceivesTypes, CoordinatorAssumption DEF CacheInv, HandleNew, own, cache, TypeOK
<1>2. InUseOK'
  BY DEF CacheInv, InUseOK, InUseOf, HandleNew
<1>3. HandOK'
  BY DEF CacheInv, HandOK, Idle, HandleNew, hand
<1>4. RawCacheSound'
  BY DEF CacheInv, RawCacheSound, HandleNew, cache
<1>5. DecCacheSound'
  BY DEF CacheInv, DecCacheSound, HandleNew, cache
<1> QED BY <1>1, <1>2, <1>3, <1>4, <1>5 DEF CacheInv

\* The devices that get an item the cache has are added to it.
LEMMA HandleDecodedCache ==
  ASSUME CacheInv, NEW a \in Adapter, NEW r \in Raw, NEW orig, HandleDecoded(a, r, orig)
  PROVE  CacheInv'
<1> DEFINE v == Inner[r]
           i == decLast[v]
           ts == Targets(i.codec, v, a, i.pub)
<1>1. v \in Adv BY CoordinatorAssumption
<1>2. i.left > 0 /\ i.left \in Nat /\ i.codec \in Decoders(v) /\ i.pub \subseteq devices
      /\ i \in Items
  BY <1>1 DEF CacheInv, DecCacheSound, TypeOK, Items, HandleDecoded
<1>3. ts \subseteq devices BY DEF Targets
<1>4. PICK done \in SUBSET ts :
        /\ decLast' = [decLast EXCEPT ![v].pub = @ \cup done]
        /\ Deliver(i.codec, v, done, i.left)
  BY DEF HandleDecoded
<1>5. /\ UNCHANGED <<devices, inUse, rawLast, up, macs, heard, todo>>
      /\ lost' \in BOOLEAN /\ raised' \in BOOLEAN
      /\ Receives(a, orig)
  BY DEF HandleDecoded, own, hand
<1>6. done \in SUBSET Device BY <1>3, <1>4 DEF CacheInv, TypeOK
<1>7. decLast' \in [Adv -> Items]
  BY <1>1, <1>2, <1>4, <1>6 DEF CacheInv, TypeOK, Items
<1> HIDE DEF v, i, ts
<1>8. TypeOK'
  <2>1. /\ DOMAIN prev' = Device
        /\ \A d \in Device : prev'[d].stamp \in Nat /\ prev'[d].count \in Nat
        /\ window' \in [Device -> [Adv -> Nat]]
        /\ twice' \in BOOLEAN
    BY <1>1, <1>2, <1>4, <1>6, DeliverTypes DEF CacheInv
  <2>2. echoed' \in BOOLEAN BY <1>5, ReceivesTypes DEF CacheInv
  <2> QED BY <1>5, <1>7, <2>1, <2>2 DEF CacheInv, TypeOK
<1>9. DecCacheSound'
  <2> SUFFICES ASSUME NEW w \in Adv, decLast'[w].left > 0
               PROVE  /\ decLast'[w].codec \in Decoders(w) \cap inUse'
                      /\ decLast'[w].pub \subseteq devices'
    BY DEF DecCacheSound
  <2>1. CASE w # v BY <1>1, <1>4, <1>5, <2>1 DEF CacheInv, TypeOK, DecCacheSound
  <2>2. CASE w = v
    <3>1. /\ decLast'[v].codec = decLast[v].codec
          /\ decLast'[v].pub = decLast[v].pub \cup done
          /\ decLast'[v].left = decLast[v].left
      BY <1>1, <1>4 DEF CacheInv, TypeOK, Items
    <3> QED BY <1>1, <1>3, <1>4, <1>5, <2>2, <3>1 DEF CacheInv, DecCacheSound
  <2> QED BY <2>1, <2>2
<1>10. InUseOK' BY <1>5 DEF CacheInv, InUseOK, InUseOf
<1>11. HandOK' BY <1>5 DEF CacheInv, HandOK, Idle
<1>12. RawCacheSound' BY <1>5 DEF CacheInv, RawCacheSound
<1> QED BY <1>8, <1>9, <1>10, <1>11, <1>12 DEF CacheInv

\* A codec of the handler in progress, and what GoOn does.
LEMMA Decoding ==
  ASSUME CacheInv, NEW a \in Adapter, NEW r \in Raw, <<a, r>> \in heard, NEW c \in todo
  PROVE  /\ Inner[r] \in Adv
         /\ c \in Decoders(Inner[r]) \cap inUse
         /\ c \in Codec /\ IgnDur[c] \in Nat \ {0}
         /\ heard = {<<a, r>>}
         /\ todo \subseteq Decoders(Inner[r]) \cap inUse
<1>1. Inner[r] \in Adv /\ c \in Codec BY CoordinatorAssumption DEF CacheInv, TypeOK
<1>2. <<a, r>>[2] = r OBVIOUS
<1>3. todo \subseteq Decoders(Inner[r]) \cap inUse /\ heard = {<<a, r>>}
  BY <1>2 DEF CacheInv, HandOK
<1> QED BY <1>1, <1>3, CoordinatorAssumption

LEMMA GoOnHand ==
  ASSUME CacheInv, NEW a \in Adapter, NEW r \in Raw, <<a, r>> \in heard, NEW c \in todo,
         NEW left \in SUBSET todo, GoOn(a, r, left), inUse' = inUse
  PROVE  HandOK' /\ lost' \in BOOLEAN /\ heard' \in SUBSET (Adapter \X Raw) /\ todo' \in SUBSET Codec
<1>1. heard = {<<a, r>>} /\ <<a, r>>[2] = r /\ todo \subseteq Decoders(Inner[r]) \cap inUse
  BY Decoding
<1>2. lost' \in BOOLEAN BY DEF GoOn
<1>3. HandOK' BY <1>1 DEF GoOn, HandOK, Idle
<1>4. heard' \in SUBSET (Adapter \X Raw) /\ todo' \in SUBSET Codec
  BY DEF GoOn, CacheInv, TypeOK
<1> QED BY <1>2, <1>3, <1>4

\* A payload is decoded: the item names a codec in use and devices that are there.
LEMMA DecodeCache ==
  ASSUME CacheInv, NEW c \in Codec, Decode(c)
  PROVE  CacheInv'
<1>1. PICK a \in Adapter, r \in Raw :
        LET v == Inner[r]
            ts == Targets(c, v, a, {}) IN
        /\ <<a, r>> \in heard /\ c \in todo
        /\ Deliver(c, v, ts, IgnDur[c])
        /\ decLast' = [decLast EXCEPT ![v] = [left |-> IgnDur[c], codec |-> c, pub |-> ts]]
        /\ GoOn(a, r, todo \ {c})
        /\ UNCHANGED <<devices, inUse, rawLast, own, echoed, raised>>
  BY DEF Decode
<1> DEFINE v == Inner[r]
           ts == Targets(c, v, a, {})
<1>2. v \in Adv /\ c \in Decoders(v) \cap inUse /\ IgnDur[c] \in Nat \ {0} BY <1>1, Decoding
<1>3. ts \subseteq devices /\ ts \in SUBSET Device BY DEF Targets, CacheInv, TypeOK
<1>4. HandOK' /\ lost' \in BOOLEAN /\ heard' \in SUBSET (Adapter \X Raw) /\ todo' \in SUBSET Codec
  BY <1>1, GoOnHand
<1> HIDE DEF v, ts
<1>5. Deliver(c, v, ts, IgnDur[c]) BY <1>1 DEF v, ts
<1>6. decLast' = [decLast EXCEPT ![v] = [left |-> IgnDur[c], codec |-> c, pub |-> ts]]
  BY <1>1 DEF v, ts
<1>7. UNCHANGED <<devices, inUse, rawLast, up, macs, echoed, raised>>
  BY <1>1 DEF own
<1>8. TypeOK'
  <2>1. /\ DOMAIN prev' = Device
        /\ \A d \in Device : prev'[d].stamp \in Nat /\ prev'[d].count \in Nat
        /\ window' \in [Device -> [Adv -> Nat]]
        /\ twice' \in BOOLEAN
    BY <1>2, <1>3, <1>5, DeliverTypes DEF CacheInv
  <2>2. decLast' \in [Adv -> Items] BY <1>2, <1>3, <1>6 DEF CacheInv, TypeOK, Items
  <2> QED BY <1>4, <1>7, <2>1, <2>2 DEF CacheInv, TypeOK
<1>9. DecCacheSound' BY <1>2, <1>3, <1>6, <1>7 DEF CacheInv, TypeOK, DecCacheSound
<1>10. InUseOK' BY <1>7 DEF CacheInv, InUseOK, InUseOf
<1>11. RawCacheSound' BY <1>7 DEF CacheInv, RawCacheSound
<1> QED BY <1>4, <1>8, <1>9, <1>10, <1>11 DEF CacheInv

\* A handler that raises leaves the caches as they were.
LEMMA DecodeRaisesCache ==
  ASSUME CacheInv, NEW c \in Codec, DecodeRaises(c)
  PROVE  CacheInv'
<1>1. PICK a \in Adapter, r \in Raw :
        /\ <<a, r>> \in heard /\ c \in todo
        /\ \E done \in SUBSET Targets(c, Inner[r], a, {}) : Deliver(c, Inner[r], done, IgnDur[c])
        /\ GoOn(a, r, {})
        /\ UNCHANGED <<devices, inUse, rawLast, decLast, up, macs, echoed>> /\ raised' = TRUE
  BY DEF DecodeRaises, cache, own
<1>2. PICK done \in SUBSET Targets(c, Inner[r], a, {}) : Deliver(c, Inner[r], done, IgnDur[c])
  BY <1>1
<1>3. Inner[r] \in Adv /\ c \in Decoders(Inner[r]) /\ IgnDur[c] \in Nat BY <1>1, Decoding
<1>4. done \in SUBSET Device BY DEF Targets, CacheInv, TypeOK
<1>5. HandOK' /\ lost' \in BOOLEAN /\ heard' \in SUBSET (Adapter \X Raw) /\ todo' \in SUBSET Codec
  BY <1>1, GoOnHand
<1>6. TypeOK'
  <2>1. /\ DOMAIN prev' = Device
        /\ \A d \in Device : prev'[d].stamp \in Nat /\ prev'[d].count \in Nat
        /\ window' \in [Device -> [Adv -> Nat]]
        /\ twice' \in BOOLEAN
    BY <1>2, <1>3, <1>4, DeliverTypes DEF CacheInv
  <2> QED BY <1>1, <1>5, <2>1 DEF CacheInv, TypeOK
<1>7. InUseOK' BY <1>1 DEF CacheInv, InUseOK, InUseOf
<1>8. RawCacheSound' /\ DecCacheSound' BY <1>1 DEF CacheInv, RawCacheSound, DecCacheSound
<1> QED BY <1>5, <1>6, <1>7, <1>8 DEF CacheInv

\* A new device: the ignored raws are forgotten.
LEMMA AddDeviceCache ==
  ASSUME CacheInv, NEW d \in Device, AddDevice(d)
  PROVE  CacheInv'
<1>1. TypeOK'
  BY CoordinatorAssumption DEF CacheInv, AddDevice, own, hand, aux, InUseOf, NoPrev, TypeOK
<1>2. InUseOK'
  BY DEF InUseOK, InUseOf, AddDevice
<1>3. HandOK'
  BY DEF CacheInv, HandOK, Idle, AddDevice, hand
<1>4. RawCacheSound'
  BY DEF RawCacheSound, AddDevice
<1>5. inUse \subseteq inUse'
  BY DEF CacheInv, InUseOK, InUseOf, AddDevice
<1>6. DecCacheSound'
  BY <1>5 DEF CacheInv, DecCacheSound, AddDevice
<1> QED BY <1>1, <1>2, <1>3, <1>4, <1>5, <1>6 DEF CacheInv

\* A device leaves: the decoded items are forgotten.
LEMMA RemoveDeviceCache ==
  ASSUME CacheInv, NEW d \in Device, RemoveDevice(d)
  PROVE  CacheInv'
<1>1. TypeOK'
  BY CoordinatorAssumption DEF CacheInv, RemoveDevice, own, hand, InUseOf, NoItem, Items, TypeOK
<1>2. InUseOK'
  BY DEF InUseOK, InUseOf, RemoveDevice
<1>3. HandOK'
  BY DEF CacheInv, HandOK, Idle, RemoveDevice, hand
<1>4. inUse' \subseteq inUse
  BY DEF CacheInv, InUseOK, InUseOf, RemoveDevice
<1>5. RawCacheSound'
  BY <1>4 DEF CacheInv, RawCacheSound, RemoveDevice
<1>6. DecCacheSound'
  BY DEF DecCacheSound, NoItem, RemoveDevice
<1> QED BY <1>1, <1>2, <1>3, <1>4, <1>5, <1>6 DEF CacheInv

\* The adapters do not touch the caches.
LEMMA AdapterChangeCache ==
  ASSUME CacheInv, NEW a \in Adapter, AdapterChange(a)
  PROVE  CacheInv'
<1>1. TypeOK'
  BY CoordinatorAssumption DEF CacheInv, AdapterChange, own, hand, aux, cache, OnAdapterChange, TypeOK
<1>2. InUseOK'
  BY DEF CacheInv, InUseOK, InUseOf, AdapterChange
<1>3. HandOK'
  BY DEF CacheInv, HandOK, Idle, AdapterChange, hand
<1>4. RawCacheSound' /\ DecCacheSound'
  BY DEF CacheInv, RawCacheSound, DecCacheSound, AdapterChange, cache
<1> QED BY <1>1, <1>2, <1>3, <1>4 DEF CacheInv

LEMMA CleanAdaptersCache ==
  ASSUME CacheInv, NEW dropped \in SUBSET up, CleanAdapters(dropped)
  PROVE  CacheInv'
<1>1. TypeOK' BY DEF CacheInv, CleanAdapters, hand, aux, cache, TypeOK
<1>2. InUseOK' BY DEF CacheInv, InUseOK, InUseOf, CleanAdapters
<1>3. HandOK' BY DEF CacheInv, HandOK, Idle, CleanAdapters, hand
<1>4. RawCacheSound' /\ DecCacheSound'
  BY DEF CacheInv, RawCacheSound, DecCacheSound, CleanAdapters, cache
<1> QED BY <1>1, <1>2, <1>3, <1>4 DEF CacheInv

LEMMA LeftItem ==
  ASSUME NEW i \in Items
  PROVE  /\ Left(i) \in Items
         /\ Left(i).left > 0 => i.left > 0 /\ Left(i).codec = i.codec /\ Left(i).pub = i.pub
<1>1. CASE i.left > 1 BY <1>1 DEF Left, Items
<1>2. CASE ~(i.left > 1)
  <2>1. Left(i) = NoItem BY <1>2 DEF Left
  <2> QED BY <2>1 DEF NoItem, Items
<1> QED BY <1>1, <1>2

\* An entry that ages stays the same, or disappears.
LEMMA TickCache ==
  ASSUME CacheInv, Tick
  PROVE  CacheInv'
<1>1. rawLast' \in [Raw -> 0..IgnRaw] 
  BY CoordinatorAssumption DEF CacheInv, Tick, Less, TypeOK
<1>2. window' \in [Device -> [Adv -> Nat]]
  BY DEF CacheInv, Tick, Less, TypeOK
<1>3. \A v \in Adv : Left(decLast[v]) \in Items /\ (Left(decLast[v]).left > 0 =>
        decLast[v].left > 0 /\ Left(decLast[v]).codec = decLast[v].codec /\ Left(decLast[v]).pub = decLast[v].pub)
  BY LeftItem DEF CacheInv, TypeOK
<1>4. TypeOK'
  BY <1>1, <1>2, <1>3 DEF CacheInv, Tick, own, hand, TypeOK
<1>5. InUseOK'
  BY DEF CacheInv, InUseOK, InUseOf, Tick
<1>6. HandOK'
  BY DEF CacheInv, HandOK, Idle, Tick, hand
<1>7. RawCacheSound'
  BY DEF CacheInv, RawCacheSound, Tick, Less, TypeOK
<1>8. DecCacheSound'
  BY <1>3 DEF CacheInv, DecCacheSound, Tick, TypeOK
<1> QED BY <1>1, <1>2, <1>3, <1>4, <1>5, <1>6, <1>7, <1>8 DEF CacheInv

LEMMA InitCache == Init => CacheInv
<1> SUFFICES ASSUME Init PROVE CacheInv
  OBVIOUS
<1>1. TypeOK
  <2>1. rawLast \in [Raw -> 0..IgnRaw] 
    BY CoordinatorAssumption DEF Init
  <2>2. decLast \in [Adv -> Items] BY DEF Init, NoItem, Items
  <2>3. DOMAIN prev = Device /\ \A d \in Device : prev[d].stamp \in Nat /\ prev[d].count \in Nat
    BY DEF Init, NoPrev
  <2>4. window \in [Device -> [Adv -> Nat]] BY DEF Init
  <2>5. {twice, lost, echoed, raised} \subseteq BOOLEAN
    BY DEF Init
  <2> QED BY <2>1, <2>2, <2>3, <2>4, <2>5 DEF Init, TypeOK
<1>2. InUseOK BY DEF Init, InUseOK, InUseOf
<1>3. HandOK BY DEF Init, HandOK, Idle
<1>4. RawCacheSound /\ DecCacheSound BY DEF Init, RawCacheSound, DecCacheSound, NoItem
<1> QED BY <1>1, <1>2, <1>3, <1>4 DEF CacheInv

LEMMA NextCache == CacheInv /\ [Next]_vars => CacheInv'
<1> SUFFICES ASSUME CacheInv, [Next]_vars PROVE CacheInv'
  OBVIOUS
<1>1. ASSUME NEW a \in Adapter, NEW r \in Raw, NEW orig \in Adapter \cup {Remote}, Handle(a, r, orig)
      PROVE  CacheInv'
  BY <1>1, HandleIgnoredCache, HandleDecodedCache, HandleUnknownCache, HandleNewCache DEF Handle
<1>2. ASSUME NEW c \in Codec, Decode(c) \/ DecodeRaises(c) PROVE CacheInv'
  BY <1>2, DecodeCache, DecodeRaisesCache
<1>3. ASSUME NEW d \in Device, AddDevice(d) \/ RemoveDevice(d) PROVE CacheInv'
  BY <1>3, AddDeviceCache, RemoveDeviceCache
<1>4. ASSUME NEW a \in Adapter, AdapterChange(a) PROVE CacheInv'
  BY <1>4, AdapterChangeCache
<1>5. ASSUME NEW dropped \in SUBSET up, CleanAdapters(dropped) PROVE CacheInv'
  BY <1>5, CleanAdaptersCache
<1>6. CASE Tick BY <1>6, TickCache
<1>7. CASE UNCHANGED vars
  <2>1. UNCHANGED <<devices, inUse, rawLast, decLast, prev, up, macs,
                    heard, todo, window, twice, lost, echoed, raised>>
    BY <1>7 DEF vars, cache, own, hand, aux
  <2> QED BY <2>1 DEF CacheInv, TypeOK, InUseOK, InUseOf, HandOK, Idle, RawCacheSound, DecCacheSound
<1> QED BY <1>1, <1>2, <1>3, <1>4, <1>5, <1>6, <1>7 DEF Next

\* Whatever the codecs decode and whatever handlers raise, the invariant of the
\* caches holds (handle_raw_adv, add_device, remove_device).
THEOREM CacheInvariant == Spec => []CacheInv
BY InitCache, NextCache, PTL DEF Spec

\* Type correctness of the coordinator.
THEOREM CoordinatorTypeCorrect == Spec => []TypeOK
<1>1. CacheInv => TypeOK BY DEF CacheInv
<1> QED BY <1>1, CacheInvariant, PTL

\* An ignored advertisement is one no codec in use decodes.
THEOREM IgnoredAreUnknown == Spec => []RawCacheSound
<1>1. CacheInv => RawCacheSound BY DEF CacheInv
<1> QED BY <1>1, CacheInvariant, PTL

\* A remembered item names a codec in use, and devices that are there.
THEOREM RememberedAreCurrent == Spec => []DecCacheSound
<1>1. CacheInv => DecCacheSound BY DEF CacheInv
<1> QED BY <1>1, CacheInvariant, PTL

\* The caches hide nothing that should be handled: a device that is added or removed
\* leaves no stale entry, even when a handler raises (add_device, remove_device).
THEOREM CachesAreSound == Spec => []CachesSound
<1>1. CacheInv => CachesSound BY DEF CacheInv, CachesSound
<1> QED BY <1>1, CacheInvariant, PTL

-----------------------------------------------------------------------------
(* Each command once, and none lost.                                       *)

\* The filters let nothing of ours pass when the addresses are up to date.
LEMMA NoEchoStep ==
  ASSUME Clean, NEW a, NEW orig, Receives(a, orig)
  PROVE  ~echoed'
BY DEF Clean, Receives

\* A codec that matches a device is in use.
LEMMA MatchIsUsed ==
  ASSUME CacheInv, NEW d \in devices, NEW v \in Adv, NEW c \in Decoders(v), NEW a, Matches(d, c, v, a)
  PROVE  c \in inUse
BY ConfTypes DEF CacheInv, InUseOK, InUseOf, Matches

\* Nothing is missed of a payload that no codec in use decodes.
LEMMA UnknownMissesNothing ==
  ASSUME CacheInv, NEW v \in Adv, NEW a, Decoders(v) \cap inUse = {}
  PROVE  ~ \E d \in devices, c \in Decoders(v) : Matches(d, c, v, a)
BY MatchIsUsed

\* Nothing is missed when the devices that did not get the payload get it.
LEMMA DeliveryMissesNothing ==
  ASSUME SingleDecoder, CacheInv, NEW v \in Adv, NEW c \in Decoders(v), NEW a,
         NEW pub \in SUBSET Device, NEW left \in Nat \ {0},
         \A d \in pub : window[d][v] = left,
         Deliver(c, v, Targets(c, v, a, pub), left), devices' = devices
  PROVE  ~Missed(a, v)
<1> SUFFICES ASSUME NEW d \in devices, NEW e \in Decoders(v), Matches(d, e, v, a)
             PROVE  window'[d][v] # 0
  BY DEF Missed
<1>1. e = c BY DEF SingleDecoder
<1>2. d \in Device /\ window[d] \in [Adv -> Nat] BY DEF CacheInv, TypeOK
<1>3. CASE d \in pub BY <1>2, <1>3 DEF Deliver
<1>4. CASE d \notin pub
  <2>1. d \in Targets(c, v, a, pub) BY <1>1, <1>4 DEF Targets
  <2> QED BY <1>2, <2>1 DEF Deliver
<1> QED BY <1>3, <1>4

\* Nor is anything given twice, when none of them had it.
LEMMA DeliveryIsNew ==
  ASSUME NEW v \in Adv, NEW c, NEW done \in SUBSET Device, NEW left,
         \A d \in done : window[d][v] = 0, Deliver(c, v, done, left), ~twice
  PROVE  ~twice'
<1>1. ~ \E d \in done : window[d][v] > 0 /\ Accepts(d, c, v) OBVIOUS
<1>2. twice' = (twice \/ \E d \in done : window[d][v] > 0 /\ Accepts(d, c, v)) BY DEF Deliver
<1> QED BY <1>1, <1>2

LEMMA HandleIgnoredOnce ==
  ASSUME CacheInv, Clean, NEW a \in Adapter, NEW r \in Raw, NEW orig, HandleIgnored(a, r, orig)
  PROVE  Clean'
<1>1. Inner[r] \in Adv BY CoordinatorAssumption
<1>2. Decoders(Inner[r]) \cap inUse = {} BY DEF Clean, CacheInv, RawCacheSound, HandleIgnored
<1>3. ~lost'
  BY <1>1, <1>2, UnknownMissesNothing DEF Clean, HandleIgnored
<1>4. ~echoed' BY NoEchoStep DEF HandleIgnored
<1>5. WindowOK' BY DEF Clean, WindowOK, HandleIgnored, hand
<1>6. up' \subseteq macs' /\ ~twice' BY DEF Clean, HandleIgnored, own
<1> QED BY <1>3, <1>4, <1>5, <1>6 DEF Clean

LEMMA HandleUnknownOnce ==
  ASSUME CacheInv, Clean, NEW a \in Adapter, NEW r \in Raw, NEW orig, HandleUnknown(a, r, orig)
  PROVE  Clean'
<1>1. Inner[r] \in Adv BY CoordinatorAssumption
<1>2. Decoders(Inner[r]) \cap inUse = {} BY DEF HandleUnknown
<1>3. ~lost'
  BY <1>1, <1>2, UnknownMissesNothing DEF Clean, HandleUnknown, Missed
<1>4. ~echoed' BY NoEchoStep DEF HandleUnknown
<1>5. WindowOK' BY DEF Clean, WindowOK, HandleUnknown, hand
<1>6. up' \subseteq macs' /\ ~twice' BY DEF Clean, HandleUnknown, own
<1> QED BY <1>3, <1>4, <1>5, <1>6 DEF Clean

LEMMA HandleNewOnce ==
  ASSUME CacheInv, Clean, NEW a \in Adapter, NEW r \in Raw, NEW orig, HandleNew(a, r, orig)
  PROVE  Clean'
<1>1. <<a, r>>[2] = r OBVIOUS
<1>2. WindowOK' BY <1>1 DEF Clean, WindowOK, HandleNew, cache
<1>3. ~echoed' BY NoEchoStep DEF HandleNew
<1>4. up' \subseteq macs' /\ ~twice' /\ ~lost'
  BY DEF Clean, HandleNew, own
<1> QED BY <1>2, <1>3, <1>4 DEF Clean

LEMMA HandleDecodedOnce ==
  ASSUME SingleDecoder, CacheInv, Clean, NEW a \in Adapter, NEW r \in Raw, NEW orig,
         HandleDecoded(a, r, orig), ~raised'
  PROVE  Clean'
<1> DEFINE v == Inner[r]
           i == decLast[v]
           ts == Targets(i.codec, v, a, i.pub)
<1>1. v \in Adv BY CoordinatorAssumption
<1>2. i.left \in Nat \ {0} /\ i.codec \in Decoders(v) /\ i.pub \subseteq devices
  BY <1>1 DEF Clean, CacheInv, DecCacheSound, TypeOK, Items, HandleDecoded
<1>3. /\ decLast' = [decLast EXCEPT ![v].pub = @ \cup ts]
      /\ Deliver(i.codec, v, ts, i.left)
  BY DEF HandleDecoded
<1>4. /\ UNCHANGED <<devices, up, macs, heard>> /\ Idle
      /\ lost' = (lost \/ Missed(a, v))
      /\ Receives(a, orig)
  BY DEF HandleDecoded, own, hand, Receives
<1>5. ts \in SUBSET Device /\ i.pub \in SUBSET Device /\ ts \cap i.pub = {} /\ devices \subseteq Device
  BY <1>2 DEF Targets, IInv, CacheInv, TypeOK
<1>6. \A d \in Device : window[d][v] = IF d \in i.pub THEN i.left ELSE 0
  BY <1>1 DEF Clean, WindowOK
<1>7. CacheInv OBVIOUS
<1> HIDE DEF v, i
<1>8. ~lost'
  <2>1. ~Missed(a, v) BY <1>1, <1>2, <1>3, <1>4, <1>5, <1>6, <1>7, DeliveryMissesNothing
  <2> QED BY <1>4, <2>1 DEF Clean
<1>9. ~twice'
  <2>1. \A d \in ts : window[d][v] = 0 BY <1>5, <1>6
  <2> HIDE DEF ts
  <2> QED BY <1>1, <1>3, <1>5, <2>1, DeliveryIsNew DEF Clean
<1>10. WindowOK'
  <2>1. /\ decLast'[v].pub = i.pub \cup ts /\ decLast'[v].left = i.left
        /\ \A w \in Adv : w # v => decLast'[w] = decLast[w]
    BY <1>1, <1>3, <1>7 DEF i, CacheInv, TypeOK, Items
  <2> HIDE DEF ts
  <2>2. ASSUME NEW d \in Device, NEW w \in Adv
        PROVE  window'[d][w] = IF d \in decLast'[w].pub THEN decLast'[w].left ELSE 0
    <3>1. window[d] \in [Adv -> Nat] BY <1>7 DEF CacheInv, TypeOK
    <3>2. window[d][w] = IF d \in decLast[w].pub THEN decLast[w].left ELSE 0
      BY DEF Clean, WindowOK
    <3>3. window'[d] = IF d \in ts THEN [window[d] EXCEPT ![v] = i.left] ELSE window[d]
      BY <1>3 DEF Deliver
    <3>4. CASE w = v BY <1>6, <2>1, <3>1, <3>3, <3>4
    <3>5. CASE w # v BY <2>1, <3>1, <3>2, <3>3, <3>5
    <3> QED BY <3>4, <3>5
  <2> QED BY <1>4, <2>2 DEF WindowOK, Idle
<1>11. ~echoed' BY <1>4, NoEchoStep
<1>12. up' \subseteq macs' BY <1>4 DEF Clean
<1> QED BY <1>8, <1>9, <1>10, <1>11, <1>12 DEF Clean

LEMMA DecodeOnce ==
  ASSUME SingleDecoder, CacheInv, Clean, NEW c \in Codec, Decode(c)
  PROVE  Clean'
<1>1. PICK a \in Adapter, r \in Raw :
        LET v == Inner[r]
            ts == Targets(c, v, a, {}) IN
        /\ <<a, r>> \in heard /\ c \in todo
        /\ Deliver(c, v, ts, IgnDur[c])
        /\ decLast' = [decLast EXCEPT ![v] = [left |-> IgnDur[c], codec |-> c, pub |-> ts]]
        /\ GoOn(a, r, todo \ {c})
        /\ UNCHANGED <<devices, inUse, rawLast, own, echoed, raised>>
  BY DEF Decode
<1> DEFINE v == Inner[r]
           ts == Targets(c, v, a, {})
<1>2. CacheInv OBVIOUS
<1>3. /\ v \in Adv /\ c \in Decoders(v) /\ IgnDur[c] \in Nat \ {0}
      /\ heard = {<<a, r>>} /\ todo \subseteq Decoders(v)
  BY <1>1, <1>2, Decoding
<1>4. todo \ {c} = {} BY <1>3 DEF SingleDecoder
<1>5. heard' = {} /\ lost' = (lost \/ Missed(a, v)) BY <1>1, <1>4 DEF GoOn
<1>6. \A d \in Device : window[d][v] = 0
  <2>1. <<a, r>>[2] = r OBVIOUS
  <2>2. decLast[v].left = 0 BY <1>3, <2>1 DEF Clean, WindowOK
  <2> QED BY <1>3, <2>2 DEF Clean, WindowOK
<1>7. ts \in SUBSET Device BY <1>2 DEF Targets, CacheInv, TypeOK
<1>8. UNCHANGED <<devices, up, macs, echoed>> BY <1>1 DEF own
<1>9. Deliver(c, v, ts, IgnDur[c])
      /\ decLast' = [decLast EXCEPT ![v] = [left |-> IgnDur[c], codec |-> c, pub |-> ts]]
  BY <1>1
<1> HIDE DEF v
<1>10. ~lost'
  <2>1. ~Missed(a, v) BY <1>2, <1>3, <1>8, <1>9, DeliveryMissesNothing
  <2> QED BY <1>5, <2>1 DEF Clean
<1> HIDE DEF ts
<1>11. ~twice'
  BY <1>3, <1>6, <1>7, <1>9, DeliveryIsNew DEF Clean
<1>12. WindowOK'
  <2>1. /\ decLast'[v].pub = ts /\ decLast'[v].left = IgnDur[c]
        /\ \A w \in Adv : w # v => decLast'[w] = decLast[w]
    BY <1>2, <1>3, <1>9 DEF CacheInv, TypeOK
  <2>2. ASSUME NEW d \in Device, NEW w \in Adv
        PROVE  window'[d][w] = IF d \in decLast'[w].pub THEN decLast'[w].left ELSE 0
    <3>1. window[d] \in [Adv -> Nat] BY <1>2 DEF CacheInv, TypeOK
    <3>2. window[d][w] = IF d \in decLast[w].pub THEN decLast[w].left ELSE 0
      BY DEF Clean, WindowOK
    <3>3. window'[d] = IF d \in ts THEN [window[d] EXCEPT ![v] = IgnDur[c]] ELSE window[d]
      BY <1>9 DEF Deliver
    <3>4. CASE w = v BY <1>6, <2>1, <3>1, <3>3, <3>4
    <3>5. CASE w # v BY <2>1, <3>1, <3>2, <3>3, <3>5
    <3> QED BY <3>4, <3>5
  <2> QED BY <1>5, <2>2 DEF WindowOK
<1>13. up' \subseteq macs' /\ ~echoed' BY <1>8 DEF Clean
<1> QED BY <1>10, <1>11, <1>12, <1>13 DEF Clean

LEMMA AddDeviceOnce ==
  ASSUME CacheInv, Clean, NEW d \in Device, AddDevice(d)
  PROVE  Clean'
BY DEF Clean, WindowOK, AddDevice, own, hand, aux

LEMMA RemoveDeviceOnce ==
  ASSUME CacheInv, Clean, NEW d \in Device, RemoveDevice(d)
  PROVE  Clean'
<1>1. WindowOK' BY DEF WindowOK, RemoveDevice, Idle, hand, NoItem
<1> QED BY <1>1 DEF Clean, RemoveDevice, own

LEMMA AdapterChangeOnce ==
  ASSUME CacheInv, Clean, NEW a \in Adapter, AdapterChange(a), ~raised'
  PROVE  Clean'
<1>1. up' \subseteq macs' BY DEF AdapterChange, OnAdapterChange
<1> QED BY <1>1 DEF Clean, WindowOK, AdapterChange, cache, hand, aux

\* The addresses of the adapters that are dropped stay among those that are ignored.
LEMMA CleanAdaptersOnce ==
  ASSUME CacheInv, Clean, NEW dropped \in SUBSET up, CleanAdapters(dropped)
  PROVE  Clean'
<1>1. up' \subseteq macs' BY DEF CleanAdapters, Clean
<1> QED BY <1>1 DEF Clean, WindowOK, CleanAdapters, cache, hand, aux

LEMMA TickOnce == CacheInv /\ Clean /\ Tick => Clean'
<1> SUFFICES ASSUME CacheInv, Clean, Tick PROVE Clean'
  OBVIOUS
<1>1. WindowOK'
  <2>1. ASSUME NEW d \in Device, NEW w \in Adv
        PROVE  window'[d][w] = IF d \in decLast'[w].pub THEN decLast'[w].left ELSE 0
    <3>1. window[d][w] = IF d \in decLast[w].pub THEN decLast[w].left ELSE 0
      BY DEF Clean, WindowOK
    <3>2. window'[d][w] = Less(window[d][w]) /\ decLast'[w] = Left(decLast[w]) BY DEF Tick
    <3>3. decLast[w] \in Items BY DEF Clean, CacheInv, TypeOK
    <3>4. CASE decLast[w].left > 1
      <4>1. Left(decLast[w]).pub = decLast[w].pub /\ Left(decLast[w]).left = decLast[w].left - 1
        BY <3>3, <3>4 DEF Left, Items
      <4> QED BY <3>1, <3>2, <3>3, <3>4, <4>1 DEF Less, Items
    <3>5. CASE ~(decLast[w].left > 1)
      <4>1. Left(decLast[w]) = NoItem /\ NoItem.pub = {} BY <3>5 DEF Left, NoItem
      <4>2. Less(window[d][w]) = 0 BY <3>1, <3>3, <3>5 DEF Less, Items
      <4> QED BY <3>2, <4>1, <4>2
    <3> QED BY <3>4, <3>5
  <2> QED BY <2>1 DEF WindowOK, Tick, Idle, hand
<1> QED BY <1>1 DEF Clean, Tick, own

LEMMA InitOnce == Init => IInv
<1> SUFFICES ASSUME Init PROVE IInv
  OBVIOUS
<1>1. WindowOK BY DEF Init, WindowOK, NoItem
<1> QED BY <1>1, InitCache DEF Init, IInv, Clean

LEMMA NextOnce ==
  ASSUME SingleDecoder, IInv, [Next]_vars
  PROVE  IInv'
<1>1. CacheInv' BY NextCache DEF IInv
<1>2. raised => raised'
  BY DEF Next, Handle, HandleIgnored, HandleDecoded, HandleUnknown, HandleNew, Decode, DecodeRaises,
         AddDevice, RemoveDevice, AdapterChange, OnAdapterChange, CleanAdapters, Tick, vars, aux
<1>3. SUFFICES ASSUME ~raised' PROVE Clean'
  BY <1>1 DEF IInv
<1>4. CacheInv /\ Clean BY <1>2, <1>3 DEF IInv
<1>5. ASSUME NEW a \in Adapter, NEW r \in Raw, NEW orig \in Adapter \cup {Remote}, Handle(a, r, orig)
      PROVE  Clean'
  BY <1>3, <1>4, <1>5, HandleIgnoredOnce, HandleDecodedOnce, HandleUnknownOnce, HandleNewOnce DEF Handle
<1>6. ASSUME NEW c \in Codec, Decode(c) PROVE Clean'
  BY <1>4, <1>6, DecodeOnce
<1>7. ASSUME NEW c \in Codec PROVE ~DecodeRaises(c)
  BY <1>3 DEF DecodeRaises
<1>8. ASSUME NEW d \in Device, AddDevice(d) \/ RemoveDevice(d) PROVE Clean'
  BY <1>4, <1>8, AddDeviceOnce, RemoveDeviceOnce
<1>9. ASSUME NEW a \in Adapter, AdapterChange(a) PROVE Clean'
  BY <1>3, <1>4, <1>9, AdapterChangeOnce
<1>10. ASSUME NEW dropped \in SUBSET up, CleanAdapters(dropped) PROVE Clean'
  BY <1>4, <1>10, CleanAdaptersOnce
<1>11. CASE Tick BY <1>4, <1>11, TickOnce
<1>12. CASE UNCHANGED vars
  <2>1. UNCHANGED <<devices, decLast, up, macs, heard, window, twice, lost, echoed>>
    BY <1>12 DEF vars, cache, own, hand, aux
  <2> QED BY <1>4, <2>1 DEF Clean, WindowOK
<1> QED BY <1>5, <1>6, <1>7, <1>8, <1>9, <1>10, <1>11, <1>12 DEF Next

\* When a payload has one codec at most, the whole invariant holds.
THEOREM CoordinatorInvariant ==
  ASSUME SingleDecoder
  PROVE  Spec => []IInv
<1>1. IInv /\ [Next]_vars => IInv' BY NextOnce
<1> QED BY <1>1, InitOnce, PTL DEF Spec

\* Then a device gets a command once in the life of its decoding, however often it
\* is heard and by however many adapters, until a handler raises
\* (_publish_to_devices).
THEOREM CommandsAreGivenOnce ==
  ASSUME SingleDecoder
  PROVE  Spec => []PublishedOnce
<1>1. IInv => PublishedOnce BY DEF IInv, Clean, PublishedOnce
<1> QED BY <1>1, CoordinatorInvariant, PTL

\* Then every device that listens to what its adapters hear gets it, whatever devices
\* came and left and whatever was ignored before, until a handler raises
\* (handle_raw_adv).
THEOREM CommandsAreNotLost ==
  ASSUME SingleDecoder
  PROVE  Spec => []NothingLost
<1>1. IInv => NothingLost BY DEF IInv, Clean, NothingLost
<1> QED BY <1>1, CoordinatorInvariant, PTL

\* Then nothing our own adapters send is handled as a command, until a handler raises
\* (on_adapter_change).
THEOREM OwnIsIgnored ==
  ASSUME SingleDecoder
  PROVE  Spec => []NoEcho
<1>1. IInv => NoEcho BY DEF IInv, Clean, NoEcho
<1> QED BY <1>1, CoordinatorInvariant, PTL
=============================================================================
