# A TLA+ verification of ha-ble-adv

ha-ble-adv is a Home Assistant integration that controls lamps and fans through
Bluetooth Low Energy advertisements, sent and received by the local Bluetooth
controllers (HCI) or by ESPHome proxies. It is one Python process, and one
thread: everything runs as tasks and callbacks of the asyncio event loop of
Home Assistant. This directory models its concurrent core and its algorithms in
TLA+, checks the models with TLC, and proves the main invariants with TLAPS.
Line numbers refer to `src/custom_components/ble_adv/`.

## 1. Inventory

| Part | State it keeps | Operations | What makes it correct |
|---|---|---|---|
| Queue of an adapter (`adapters/__init__.py` 40-233) | one queue of commands per device, the locked queues, the event of the task, the round robin index | `enqueue`, the `_dequeue` task, the unlock timers, `drain`, `async_init`, `async_final` | order within a queue, one command per key, no lost wake-up, fairness between queues, the delay after a command |
| HCI adapter (242-485) | the socket, the command in progress, the advertising mode | `open`, `close`, `_recv`, `_send_hci_cmd`, the three ways of advertising, the scan | each answer goes to its command, the controller is left silent after a piece |
| HCI manager (496-712) | the registry of adapters, the management socket, `_reconnecting` | initialisation with retries, events, errors, reconnection, management commands | the adapters that run are those plugged, one reconnection at a time, nothing left after the end |
| Asynchronous socket (`async_socket/`) | the call in progress, the reception task | calls through an executor or a tunnel, reception, closing | results go to their calls, a closing is not reported as an error, a hang-up is |
| ESPHome adapters and manager (`esp_adapters.py`) | the proxies known, their adapters, the listeners | discovery, creation, removal, reset, events | one adapter per proxy, none after the end |
| Coordinator (`coordinator.py`) | the devices, the codecs in use, the two caches of advertisements, the listening session | `handle_raw_adv`, `advertise`, `add_device`, `remove_device`, `on_adapter_change`, `start_listening` | each command is published once per device, caches are not stale, repeats are ignored |
| Devices and entities (`device.py`, `light.py`, `fan.py`, `switch.py`, `event.py`, `device_trigger.py`) | the attributes of each entity, the timer | commands of the user, commands received, restore, timer | the state shown is the one sent or received, a cancelled timer never fires |
| Codec model (`codecs/models.py`, `codecs/utils.py`) | the configuration with its transmission count and seed | encode, decode, translate | a decoded advertisement is the encoded one, the counter never takes a reserved value |
| Codecs (`codecs/*.py`) | none | the format of each protocol | as above |
| Set-up (`__init__.py`) | the singleton coordinator, the table of devices | set-up, unload, migration, the raw injection service | a migrated entry drives the device it drove, the coordinator knows the devices of the loaded entries |
| Configuration flow (`config_flow.py`) | the flow of pages, the listening sessions | pages, pairing, validation | what a remote sends is offered, only the end of a flow changes the entry, no page waits for ever |

The interactions: an entity turns a change into an attribute change, the device
translates it (`advertise`), the codec encodes it, the coordinator looks the
adapters up and enqueues one item per adapter. The adapter's task advertises
pieces and reports errors to its manager, which replaces adapters and tells the
coordinator, which tells the devices. In the other direction an adapter hands
each raw advertisement to `handle_raw_adv`, which decodes it once, and publishes
the command to the devices that match, whose entities may send commands again.

What is hard: a task resumes after an `await` in a world that changed
(adapters ended, queues cleared); an event is cleared and set by several
activities; two initialisations can overlap; late answers and late errors;
counters and bounds of the formats; an entry that is still shared by the flow
that changes it, the coordinator and the disk. These are the hazards of
PROJECT.json.

## 2. Modules

| Module | Models | Role |
|---|---|---|
| `QueueItem` | `BleAdvQueueItem` and `BleAdvAdapterAdvItem` (`adapters/__init__.py` 40-85) | operators, no state |
| `AdapterService` | what an adapter promises to those who enqueue | abstract specification |
| `AdapterQueue` | `BleAdvAdapter` (87-233) | state machine, EXTENDS `QueueItem`, implements `AdapterService` |
| `HciAdapter` | `BluetoothHCIAdapter` (242-485), one command at a time, and the controller | state machine |
| `HciManager` | `BleAdvBtHciManager` (549-712) and the registry (496-546) | state machine |
| `EspManager` | `BleAdvEspBtManager` (`esp_adapters.py` 114-225) and the registry | state machine |
| `AsyncSocket` | `async_socket/__init__.py`: the calls and the reception | state machine |
| `Coordinator` | `coordinator.py`: reception, caches, publication | state machine |
| `Device` | `device.py`, `switch.py` and the lamp that is controlled | state machine |
| `ConfigFlow` | `config_flow.py`, the listening of `coordinator.py`, the entry | state machine |
| `Setup` | `__init__.py`: migration, set-up, unload, and the entry | state machine |
| `Formats` | the formats of `codecs/*.py` | operators, no state |
| `Frames` | the codecs (`codecs/__init__.py`): what each is set up with, has room for, writes and reads | operators, EXTENDS `Formats` |
| `CodecModel` | the counts (`codecs/models.py` 582) and `consolidate` (`codecs/fanlamp.py` 146) | operators, no state |
| `Levels` | the levels of `light.py`, `fan.py` and `Trans` (`codecs/models.py`) | operators, no state |
| `Values` | the computations that take several steps: the pieces of a command, the counts of the commands sent, the presses of a remote, the levels received and sent again, a command written and read back | state machine, EXTENDS `QueueItem`, `CodecModel`, `Levels`, `Frames` |
| `AdapterQueueProofs` | `QueueItem`, `AdapterQueue`, the refinement of `AdapterService` | proofs |
| `LocalAdapterProofs` | `HciAdapter`, `AsyncSocket` | proofs |
| `ManagerProofs` | `HciManager`, `EspManager` | proofs |
| `CoordinatorProofs`, `DeviceProofs`, `ConfigFlowProofs`, `SetupProofs`, `ValuesProofs` | the module they are named after | proofs |
| `MC*` and `.cfg` | the instances that TLC checks; `MCValues` names the commands that the codecs are tried on | |

The modules meet at the calls of the code. `AdapterQueue` calls `_advertise`,
which ends, fails or times out: that is the interface `HciAdapter` refines into
commands of the controller. The managers see an adapter as something that is
opened, that reports errors and that is ended; `AdapterQueue` contains the end of
the adapter as one action at any moment, and `HciManager` and `EspManager`
contain the late error that an adapter ended in the middle of a piece may report.
`AsyncSocket` is what `HciAdapter` and `HciManager` send and receive through: its
calls are the steps that they see end or fail. `Coordinator` sees the managers as
the set of adapters there are, and the devices as what accepts or raises;
`Device` sees the coordinator as the commands it is given and sends.
`ConfigFlow` and `Setup` each keep the entry from their side, in memory and on
disk: the first changes it, the second reads and migrates it.

Conventions. A variable has the name of the attribute it stands for. Where two
modules are proved about together, the names that they would share have a prefix
in the second one (`esp` and `Esp` in `EspManager`, `socket` and `Socket` in
`AsyncSocket`). A handler,
or the part of one that runs between two suspension points, is one action: the
event loop runs one task at a time and switches only at an `await` that really
suspends (an asyncio lock that is free, or a coroutine without a suspension,
does not). `Mutated form:` in the comment of an operator, or an operator that
only PROJECT.json names and that stands before the one it has the name of, marks
a plausible bug of the operator after it. It is not part of the model: PROJECT.json
says which property finds it.

### AdapterQueue

State: `queues`, `locked` (the queues whose unlock timer runs), `event`
(`_add_event`), `order` (`_queues_index`), `curInd` (`_cur_ind`) and the place
of the dequeue task, `pc`: it is suspended in the wait for the event, in
`_advertise` or in `_on_error`. Actions: `Enqueue`, `DequeueStart`,
`DequeueWake`, `AdvertiseDone` and `AdvertiseFail`, `ErrorHandled`, `UnlockQueue`,
`AsyncInit` and `AsyncFinal`; each action of the task goes from one suspension to
the next, a pass over the queues included. `drain` is a state predicate: what it
waits for. `AdapterService` keeps for each queue the commands not sent yet and
forgets the event, the index and the task. It says that a queue is FIFO but for
the replacement of a command by another one of its key, that one piece is on the
air at a time, that a delay keeps its own queue closed, and that between two
pieces nothing is idle unless no queue can be served (`Settle`).
`Enqueue` asks for nothing but that the task was started once: an adapter that has
ended still takes commands from those who hold it, for nobody.

### HciAdapter

The controller and the adapter exchange commands and answers, the controller
taking its time: a command that timed out is executed, and answered, later. A
`job` (the opening, or a piece) is a sequence of commands and one sleep, as
`_hci_advertise`, `_hci_ext_advertise` and `_mgmt_advertise` issue them. The three
kinds of controllers are the three answers that `open` may meet. `sent` holds the
commands not executed yet, and `behind` records how many of them an earlier job had
left when the last one started.

### HciManager

Two activities, the initialisation and the reconnection task, run
`_async_init_retry`; their program counters are the suspension points of it. An
adapter may lose its reception while it is being opened (`OpeningError`, `unheard`): it
asks for a refresh before it is registered, and is deaf if its opening succeeds.
Around them, the events of the management socket, the errors of adapters, the
unplugging and plugging of controllers, and the end. `overlap`, `missed`,
`gaveUp` and `stop` record facts that the properties mention.

### EspManager

The adapters of a proxy all have its name and are numbered as they are created,
so that the model tells the adapter that reports an error from the one that is
registered when it does. Service calls do not wait for the proxy
(`async_call` without `blocking`), so that only the sleep of a reset suspends. A
proxy may take another name while it stays connected (`Rename`): it gets an adapter
of the new name, and the one of the old name stays.

### AsyncSocket

The calls are numbered in the order in which they ask for the lock, which asyncio
grants in that order. `slot` is `_base_res` with the event that announces it: one
slot for all the calls, which `Begin` clears and any `Answer` fills, the late
answer of a call that timed out included. Each of the calls waits for the lock,
for the tunnel when it has too much to write (`Written`, the `drain()` that no
time-out covers), for its answer, and ends with an answer, an exception, a time-out
or a cancellation. The reception is a task (on the host) or a callback of the tunnel;
`functional` is `_functional_recv_started`, which decides whether its end is an
error; a start that a closing interrupts (`interrupted`) may still set it.

### Coordinator

`handle_raw_adv` runs in one go: it awaits only the handlers of devices, which
suspend nowhere. It is modelled in steps, one per codec that decodes the payload
(`HandleNew`, then `Decode`), during which every other action waits. The codecs
are a function from payloads to what each codec reads in them, since `decode_adv`
depends on nothing else. Time is a count of ticks and the caches hold the time
left. A device that raises ends the handling where the code does, after any of
the other devices. Adapters come, are replaced and go, and `CleanAdapters` drops
several without a word to the coordinator. `window` records for how long a device must not get a payload
again; `twice`, `lost` and `echoed` record what must not happen.

### Device

The integration has no return path: it only knows what it sent and what it
heard. The module keeps both `ent`, what the entities show, and `lamp`, what the
lamp does, which the environment computes from the same commands, and states when
the two may differ. A command heard is either for the lamp itself (`direct`) or
relayed: the handler applies it, then sends what changed through the path of the
service calls, the silent mode, the timer and the forced attributes included. The
attributes other than on/off (`Setting`) have a value each, and a call or a command
sets any of them together, with a switch or a toggle or without. A disabled entity, or a
disabled event entity, makes the code raise where it writes its state, and the
handler ends there.

### ConfigFlow

The flow is a record, each `async_step_...` an operator that gives the flow as the
step leaves it, so that a step that calls another is a composition, and the menus
and forms are sets of such results. The pages that wait share one listening
session of the coordinator (`coord`) with the pages of another flow (`other`).
`live` is the data of the entry in memory, `disk` as it was last saved, and
`flow.own` tells whether the remote in the data of the flow is a copy or still
the object of the entry. `due` records what was heard while a page waited.

### Setup

An entry is a record with the keys of every version, each a set that is empty
when the key is missing; the migration is the composition of its steps, in the
order of the code, each a function on entries. Around it Home Assistant starts,
sets up, forwards to the platforms (which may fail), unloads, saves and stops;
adapters come and go. `origin` is the entry as the older version left it, which
the properties compare the device to.

### Values, Frames, Formats, CodecModel, Levels

Operators on bytes and numbers. A format is a pair `...From` and `...To`: the
bytes written for a command and what is read in them. Headers, whitening, CRC and
AES, which are independent of the fields, are left out; what mixes fields with
one another (pivots, matrices, checksums, XOR with a neighbour) is kept. The
exclusive and the inclusive or are tables over the bytes, written from their bits.
`Frames` says, for each codec, what a command may hold (`Commands`: a field that
the format has no room for is not set, and some have fewer bits than a byte) and
what is left of it (`Carried`). In
`Levels` a float that is truncated may give the whole number or the one below:
both are checked. `Values` puts the operators in sequence, as the code does: a
behaviour chooses a task and an input, then takes the pieces of a command one by
one, encodes command after command, presses, holds and releases a button of which
each count is heard or lost, shows a level and sends it again, or writes a command
in a buffer and reads it back.

## 3. Runs

| Run | Instance | Properties |
|---|---|---|
| `queue` | two queues, commands of one and two pieces with and without key and delay | `NoLostWakeup`, `BoundedBypass`, `DrainSound`, `Implements`, `EveryQueueServed` |
| `hci_manager` | two controllers, two tries, three faults | `LeakOnlyOnOverlap`, `StopAtRest`, `Converges`, `Settles` |
| `hci_pieces` | the three kinds of controllers, two pieces, five commands in flight | `OnAir`, `Silent` |
| `esp_proxies` | two proxies, four changes and errors, one change of name | `NoOrphan`, `Covered`, `EspStopAtRest`, `Recovers` |
| `coord_safety` | two devices, two adapters, four advertisements | `CachesSound`, `PublishedOnce`, `NothingLost`, `NoEcho` |
| `device_lamp` | two entities, one of them with two attributes of two values, the configurations of `MCConfigs` | `AvailabilityFollows`, `OnlyKnownGaps`, `TimersInStep`, `ForcedRecovers` |
| `socket` | three calls, both forms of the socket | `AnswersOwned`, `EndReported`, `CloseIsSilent`, `CallsEnd` |
| `config_flow` | two adapters, four configurations, another flow | `NothingMissed`, `EntitiesReviewed`, `FinishedIsUsable`, `OnlyTheEndChanges`, `PagesEnd` |
| `setup` | the entries of versions 1, 2, 6 and 7, two adapters, one failure | `SetUpAsMeant`, `DevicesInStep`, `AdaptersKept` |
| `values` | the tasks of `Values`, over the inputs of `Values_tasks.cfg` | `SplitSound`, `HeardAsSent`, `CountsFresh`, `RampInStep`, `LevelsKept` |
| `hci_deaf` | as `hci_manager` | `DeafIsRefreshed` is violated: finding 1 |
| `rw_wide_id` | the format of `rw.py` | `HeardAsSent` is violated: finding 2 |

What each property says is above its definition. The ones worth a comment:

* `NoLostWakeup`: the task clears the event after choosing, and a timer or an
  `enqueue` may set it at any point in between. The property says that the task
  never sleeps on a cleared event while a queue could be served. The exception
  it makes is in the code: after an error the event stays cleared, until the
  next `enqueue`.
* `BoundedBypass`: the round robin index is advanced at each queue looked at. A
  queue that is ready waits for at most one piece of each other queue.
* `Implements`: the choice is made on `_cur_ind` and the lock is taken on
  `_cur_ind` after the suspension; nothing else moves it.
* `LeakOnlyOnOverlap`, `Converges`: the code has no exclusion between the
  initialisation and a reconnection started by an event. The properties say
  exactly what remains true without it, and that the overlap is the only cause.
* `NothingLost`, `PublishedOnce`: the two caches may expire, be cleared by a
  change of devices, or hold an item for which a device is not concerned yet.
  Taken together: each command reaches each device once per decoding, from
  whichever of its adapters hears it first.
* `OnAir`, `Silent`: an answer that comes late is accepted for the next command
  of the same opcode. The properties say that it does no harm to a piece sent by
  commands of the controller when at most two commands were late as it started:
  between two commands of one opcode there are others, whose answers come in
  order, so that the adapter is in step again before the interval of the piece
  starts. With three late ones, those that enable, set the parameters and set the
  data of a piece that was given up, the answers of the old piece are taken one
  after the other for those of the new one, and what is enabled is the old data.
  The pieces of a managed controller start with one opcode, so that one late
  command is enough: for them the properties ask that none is late (`Sound`).
* `NoOrphan`, `Covered`: under any interleaving of resets and of the coming and
  going of proxies, until a device raises.
* `OnlyKnownGaps`, `TimersInStep`: what is shown and what the lamp does, and
  their two timers, part only in the situations that are named: no adapter, the
  silent mode, timers that already differ, a disabled entity, a change of
  configuration; for the timers, a relayed remote. Any other sequence of calls,
  remotes, toggles and timers keeps them equal. `ForcedRecovers` says how they meet again.
* `AnswersOwned`: the calls share one event and one result. Only a call that gave
  up can shift the answers by one, and an idle moment brings them back.
* `EndReported`: an end of the reception is reported, but when it comes before
  `async_start_recv` has returned (`async_socket/__init__.py` 104): nothing tells
  it then.
* `NothingMissed`: the listening of the coordinator lasts as long as the page, the
  time given to more configurations included; a page of another flow, or the same
  advertisement heard in the minute before, are the only ways to miss a remote.
* `OnlyTheEndChanges`: the data of a reconfiguration is a copy, but for its
  remote, whose translator set is in force at once.
* `SetUpAsMeant`: from any of the older entries, saved or not between two starts,
  the chain of migrations never misses a key and gives the device it drove.
* `AdaptersKept`: the adapters detected replace those of an entry of version 1,
  once, and never those of a migrated entry or of a choice of the user.
* `HeardAsSent`: each format, over the values at the ends of its fields: what is
  read is what was written, and no field spills into its neighbour.
* `CountsFresh`: two commands that follow one another never carry the same two
  counts, over a whole turn of both counters.
* `RampInStep`: a held button whose advertisements are partly lost: the steps
  published add up to the last count heard.

### Bounds, and why they are enough

Queues: two queues distinguish one that is served from one that is not, and the
index wraps; two items per queue give a head and a tail, a replaced key and a
kept one; commands of one and two pieces reach both branches of `has_next`.
Managers: two controllers, because a round of openings can fail for one while the
other works, which is where a refresh is dropped; two retries, so that the first
failure is retried and the second gives up; three faults are enough for a fault
during the retry of another. Proxies: four faults, so that a proxy goes and comes
back during the reset of its previous adapter and of another one; one of the changes
may be that of a name, after which the adapter of the old name stays, so that a
second one would show nothing new. Advertisements:
a payload received through two raw forms, and two of another codec whose commands
are numbered, each of them unknown while no device uses its codec; two ticks of
life, so that an entry is renewed, alive or expired. HCI: five commands in flight,
the two late ones that the properties allow and the three that set up a piece.
Entities: two,
one before and one after a disabled one; two attributes for one of them, so that what
is changed, what is forced and what is sent again differ, and none for the other. Calls: three, for a shift of the answers
to be passed on, then to end. Configuration flow: a phone application and a
remote without a count, heard by two adapters; one configuration that has an entry
already, one that no codec can encode. Set-up: a version for each place where the
adapter, the codecs and the repetitions were kept, one failure so that a device
is registered twice. Values: the ends of each byte, of each counter and of each
range that the user interface allows; each two fields of a command take every pair
of these values, which is how a field would spill into another. The safety properties
are proved for all values of these bounds (section 4).

### Deadlock

`CHECK_DEADLOCK FALSE` is said where the system may stop: an adapter or a
manager that has ended and has no fault left to suffer, a flow that nothing is
left to do in, and the end of the inputs of `MCValues`.

### Fairness

Fairness is given only to what the event loop, the operating system or the clock
owes. Weak: a task that is ready runs; a sleep ends; an `_advertise` ends or is
cancelled by `wait_for` (`MAX_ADV_WAIT`); a command of the management socket is
answered or times out (`MGMT_CMD_RTO`); an event that was sent, or an error that
is due, arrives; in `AsyncSocket` a call that got the lock begins, one that is
answered returns, its time-out comes, and what the tunnel writes is read by the
process at the other end, or refused: no time-out of the code covers that one, and
without it `CallsEnd` would not hold; in `ConfigFlow` the task of a page
evaluates what was heard, its page is followed by the next, and a blinking or a
pairing ends. Strong, for the clock of `ConfigFlow` only: its step is disabled
while a page has something to evaluate, and anyone may always press a button, so
that weak fairness would let time stop, which it does not. Enqueueing, faults,
answers, presses and the end are under no fairness. Nothing is assumed of the
order in which ready tasks run.

## 4. Proofs

Checked by tlapm with no assumption but the named ones on the constants. Every
safety property of the runs, the type invariants and the refinement are proved. Each component has an inductive invariant, of which the
properties are a part or a consequence:

* `AdapterQueueProofs`. First the arithmetic of `split_repeat` for all repeat counts
  and intervals (`NewItemCorrect`). Then `IInv`, which adds to the properties what
  they rest on: each queue has one rank and a queue without a rank is empty and
  unlocked (`IndexOK`); while the task has a piece on the air the index is that of
  its queue, and `_advertise_on_going` tells where the task is (`TaskOK`); a queue
  was bypassed at most as often as the index has moved since its own rank
  (`BypassOK`), which gives the bound of `BoundedBypass`. The number of queues is
  not bounded, and grows. Last, `AdapterImplementsService`: under `IInv` each action
  of the adapter is an action of the service or changes nothing that the service
  sees. The queues that the service holds back once a piece is done (`Held`) are
  those the task looks at; an adapter ended in the middle of a piece has no queue
  any more, so that its task finishes unseen.
* `LocalAdapterProofs`. `AdapterInv` of `HciAdapter` says at each step of a piece what
  may still be left to execute. Before the first answer, the commands of earlier
  jobs are not in turn a trial of advertising, parameters and data (`NoAll`); once
  the first is answered, not parameters then data (`NoTwo`); then no data
  (`NoData`), so that the data awaited is that of the piece, and its answer empties
  what is left (`Late`, `OnTime`). Two late commands cannot be the three of `NoAll`
  (`FewAreNotAll`): that is where the limit of `Sound` comes from. `PieceIsOnAir`
  and `PieceLeavesSilence` follow, for any number of pieces and of commands in
  flight. For the socket, `AnswersAreOwned`, for any number of calls: the calls
  before the one that has the lock are over and those after it wait (`CallInv`), the
  slot holds the answer of a call that was asked, and from a clean start only the
  call itself can fill it. `EndsAreReported` and `ClosingIsSilent` follow from where
  the reception is when it is functional (`RecepInv`).
* `ManagerProofs`. `ManagerInvariant` of `HciManager`: `OneRefresh` is inductive with
  the places of the activities; `LeakOnlyOnOverlap` needs that, without overlap,
  only one activity goes on and that what it has still to open does not run
  (`RoundsOK`). `EspInvariant` of `EspManager`: `NoOrphan` and `Covered` support each
  other through the discovery, which creates an adapter only for names that have
  none.
* `CoordinatorProofs`: `IgnoredAreUnknown` and `RememberedAreCurrent`, and with
  them `CachesAreSound`, hold whatever the devices do. `CoordinatorInvariant`
  needs the assumption `SingleDecoder` of its statement (a payload is decoded by
  one codec in use), and its conclusions on what the devices were given hold until
  a handler raises. It links the caches to the history: an item that is remembered
  lists exactly the devices that were given its command.
* `DeviceProofs`: for any number of entities, any attributes and any configurations. The action
  properties hold step by step from `DeviceInv`, the types and the availability.
  `GapsAreKnown` compares, for each kind of step, what the entity and the lamp become:
  a call sends all the attributes it changes (`ChgAttrs`), a command heard does to
  the lamp what it does to the entity. `TimersTogether` and `ForcedReachesLamp` go the
  same way.
* `ConfigFlowProofs`: `FlowInv` relates the flow to what it may find. Whatever page it
  is on, the index and the adapter chosen are in the list of configurations (`Good`,
  `SelectionIsFound`), so that no page reads outside of it; the entities were reviewed
  since the last change of translator set unless it was refused (`Reviewed`); what
  was heard in time is in the list, because the session of the coordinator lasts
  longer than the page (`Listening`, the time given to more configurations
  included). The lists of configurations are built by recursive functions, and what
  is proved of them is proved by induction: the induction of the libraries takes an
  operator as a parameter, so that it is stated here on sets (`Induction`).
* `SetupProofs`: the entry in memory and on disk is at each moment one that the
  chain of steps takes to what the original meant (`EntriesOK`, `MeantOK`): this is
  preserved by the chain, which may be applied again to an entry not saved, and by
  the changes of the user. `DevicesOK` counts the devices of failed set-ups. The
  assumptions say what an entry of an older version is (`LegacyAssumption`) and
  that the table of codecs knows its codecs (`SetupAssumption`).
* `ValuesProofs`: one invariant for each task. `SplitInv`: the sum of the pieces taken
  and left does not change (`TotalAppend`, `TotalTail`) and is at first what was asked
  (`RepeatsAddUp`, `AdvsAddUp`); the intervals and bunch times are those shorter than
  five ninths of `MAX_ADV_WAIT` (`SplitAssumption`; the user interface stops at 150
  ms of 3 s). `CountInv`: after q turns of the first count and r commands, the counts
  are those of q and r, in each of the three ways in which the codecs count. `PressInv`:
  what was heard last of a press is, as it was received, the command that the next one is
  compared to. `LevelInv`: bounds on the truncated divisions (`TruncatedBounds`) put the
  level sent within the steps that `LevelsKept` names, for every cold and warm level,
  every factor from 128 to 255 and up to a hundred speeds (`LevelAssumption`: the
  codecs use 250 and 255; below 128 the least brightness shown, two steps of Home
  Assistant, could be sent as dark, and a percentage tells no more than a hundred
  speeds apart). `FrameInv`: the buffer is what the codec wrote. What it rests on is
  `FormatsReadBack`, one lemma for each codec, for every command of `Commands`. The
  exclusive or is worked out from the bits of a byte (`XorBits`): it commutes,
  associates and undoes itself (`Undone`). A pivot is then the same before and after
  it is applied (`Pivoted0Twice`, `PivotedTwice`), a matrix is taken back with the
  pivot that its first byte shows (`MatrixUndone`), two fields in one byte stand apart
  when their bits do (`HalvesAdd`, `SixBitsAdd`), and `le` reads as many arguments as
  it wrote (`LePlainBytes`). `FrameAssumption`: a codec is given commands of its
  `Commands`; the run `rw_wide_id` shows what becomes of others.

Only model-checked: the liveness properties (`EveryQueueServed`, `Converges`,
`Settles`, `Recovers`, `CallsEnd`, `PagesEnd`), which are out of the prover's reach.

## 5. Findings

PROJECT.json quotes what the runs contradict:

1. `hci_deaf`: a refresh asked for during a reconnection is dropped, and the
   adapter that asked stays deaf (`adapters/__init__.py` 686).
2. `rw_wide_id`: the decoding of `rw.py` takes one byte for another (line 78).
   When the highest byte of an identifier is not 0, the arguments that are heard
   are not those that were sent: those 5, 6, 7 of the identifier 0xA1112233 are
   heard as 5, 167, 166. The identifiers that the integration generates are below
   0xFFF5, and the run `values` keeps that byte at 0: it shows that the format is
   right for them.

Others were met while modelling; each can be seen by checking the definition
named with the instance of its run, changed as said.

3. `HciManager.AvailabilityFollows` (`hci_manager`): the clean-up does not tell the
   coordinator that adapters went away: their devices stay available
   (`adapters/__init__.py` 527), while `coordinator.py` 190 says it updates them.
   `Coordinator` takes the same step (`CleanAdapters`), and its properties hold with it.
4. `HciAdapter.NotLonger` (`hci_pieces`): with extended advertising, an adapter
   closed during a piece leaves the controller advertising it, also after the next
   opening (344).
5. `Coordinator.NothingLost` with `Dupes = TRUE`: when two codecs decode a payload,
   the cache keeps one item for it, and a device that listens to the other codec
   may miss the command (`coordinator.py` 343, 328).
6. `Coordinator.NeverAgain` with `Broken = {"d1"}`: when a handler raises, the item
   is not remembered, and the other devices get the command again at each
   repetition (342, 274).
7. `Device.SwitchFollows`: the silent mode switch is not among the entities whose
   availability is updated: it keeps what it was created with (`device.py` 271,
   `coordinator.py` 190).
8. `ConfigFlow.ReconfigureIsSaved`: the remote that `config_remote_update` changes
   is still the object of the entry, so that at the end of a reconfiguration that
   changes nothing else the data does not differ, and is not saved: the answer is
   lost at the next restart (`config_flow.py` 779).

And these, which no property states, since the code does nothing about them. Where a
property leaves one out, its comment says so, and so does the hazard in PROJECT.json:

* the migration of version 6 turns the device's codec `zhijia_v2_fl` into a translator
  set, and not the one of a remote, whose codec then does not exist (`__init__.py` 162:
  `LegacyAssumption` leaves it out);
* a set-up whose platforms fail registers the device, and the next one registers it
  again (`__init__.py` 219: `DevicesInStep` counts them);
* a light of cold and warm parts that hears both at zero divides by zero (`light.py`
  273: `Levels` has not both 0);
* the return codes of the commands of a piece are not read, so that a refused piece
  counts as advertised (`adapters/__init__.py` 425);
* the last command heard and its count are kept per device and not per remote, so that
  two remotes with counts disturb each other (`coordinator.py` 281);
* a device that raises when it is told of an adapter keeps the coordinator from updating
  the addresses of its own adapters (`coordinator.py` 193: `NoEcho` holds until then);
* a proxy whose adapter is being reset when a device raises is not looked for again
  (`raised` in `EspManager`);
* a manager that ends during an initialisation or a reset, or with a piece on the air,
  may open sockets and create adapters afterwards (`stop` and `espStop = "busy"`);
* the entities after a disabled one keep the availability they showed (`device.py` 274:
  `AvailabilityFollows` is about those before);
* a reload while the device is unavailable shows the defaults, since the last state holds
  no attribute, and no reload restores the timer (`device.py` 226: `OnlyKnownGaps`
  and `TimersInStep` name these);
* a hang-up before `async_start_recv` has returned is reported to nobody
  (`async_socket/__init__.py` 104: `early`), and a start that ends after a closing
  leaves the flag of a closed socket set (the reception being over, nobody reads it);
* nothing bounds the wait of the tunnel for the process that reads it
  (`async_socket/__init__.py` 150, 260: `Written` has the fairness of that process);
* a change of translator set that was first submitted without an adapter is not seen when
  it is submitted again (`config_flow.py` 803: `refused`);
* the task of a page that raises is started again for ever (`config_flow.py` 172:
  `PagesEnd` leaves out the configurations that no codec can encode).

## 6. What is not modelled

* The whitening, CRC, AES and headers of the codecs and their tables of
  translators: data with no control. `mantra.py` and the first format of
  `zhimei.py` are left out with them, as is the cutting of a raw advertisement in
  fields (`codecs/models.py`, `from_raw`).
* In `HciAdapter`, other programs act on the controller by resetting it or making
  it refuse; they do not advertise themselves. Nothing is promised of a piece that
  starts with more commands late than `Sound` allows. The parameters of the scan are
  data.
* In `EspManager`, the several reasons for which an adapter may not be created: a
  proxy is `here` when its name is known and its services are there, and ESPHome
  registers the services before it publishes the name.
* In `Device`, the attributes that one change resets (an effect, by a colour) and
  presets; the attributes derived by a light of several channels are in `Levels`.
* In `ConfigFlow`, the tools that inject, decode or display, and the page shown
  when there is no adapter: they lead to no entry. Names and titles.
* The service that injects a raw advertisement: it enqueues, as `Enqueue` does.
* Device triggers, diagnostics, translations, the development environment: no
  state.

## 7. Plan

Done, in this order: the queue with its service and its proofs, the HCI manager,
the coordinator, the HCI adapter, the manager of proxies; then the socket, the
device, the configuration flow, the set-up, the values, the proofs of the socket
and of the set-up, and the refinement of `AdapterService`.
Then the proofs of the adapter, the device, the configuration flow, the values and
the formats.

What would come next: the choice of a translator in a table as a function over the
tables of one codec; the composition of `AsyncSocket` with `HciManager`, so
that the management commands that time out are those of the socket; and a promise of
the managers, to the coordinator, that both implement.
