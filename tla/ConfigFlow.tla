----------------------------- MODULE ConfigFlow -----------------------------
(***************************************************************************)
(* A configuration flow (config_flow.py), the listening sessions of the    *)
(* coordinator (coordinator.py:202-212, 293-301, 323-347) that its pages   *)
(* share with the pages of another flow, and the entry it modifies.        *)
(*                                                                         *)
(* The flow is a record, and each async_step_... method an operator on it  *)
(* that gives the flow as the step leaves it, so that a step that calls    *)
(* another is a composition. Pages that only display are left out.         *)
(***************************************************************************)
EXTENDS Sequences, FiniteSets, Integers

CONSTANTS
  Adapters,   \* the adapters
  Conf,       \* configurations: a codec, an id and an index
  Presses,    \* what is heard: an adapter and a configuration
  PhoneApps,  \* the configurations that each phone application pairs
  MatchOf,    \* each configuration with the codec its own is an alias of
  Repeated,   \* those whose codec has no count, and that no device uses
  TooLarge,   \* those whose id the codec cannot encode
  Configured, \* those an entry exists for
  Sets,       \* the translator sets of the codec of the device
  MaxWait,    \* WAIT_MAX_SECONDS, in steps of the clock
  Agg         \* the time given to more configurations, in steps of the clock

ASSUME FlowAssumption ==
  /\ TooLarge \cup Configured \cup Repeated \subseteq Conf
  /\ Presses \subseteq Adapters \X Conf
  /\ PhoneApps \subseteq Seq(Conf \ TooLarge) \ {<<>>}
  /\ MatchOf \in [Conf -> Conf]
  /\ MaxWait \in Nat \ {0} /\ Agg \in Nat \ {0}

None == "none"

VARIABLES
  flow,    \* the flow: its page and its fields
  left,    \* of the waiting page: the time until _stop_time
  coord,   \* the coordinator: time of listening left, what it heard, what it ignores
  other,   \* the other flow: the time until its waiting page ends
  live,    \* the data of the entry of the device, in memory, or NoData
  disk,    \* and as it was last saved
  alone,   \* auxiliary: no other page waited since the waiting page began
  due,     \* auxiliary: what was pressed in time for the waiting page
  refused, \* auxiliary: config_technical was refused, in this flow or before
  asked    \* auxiliary: the last set given for the remote

entry == <<live, disk>>
aux   == <<alone, due, refused, asked>>
vars  == <<flow, left, coord, other, entry, aux>>

NoRemote == [conf |-> None, set |-> None]
NewData(s) == [ents |-> None, set |-> s, adapter |-> TRUE, remote |-> NoRemote]
NoData == [ents |-> None, set |-> None, adapter |-> FALSE, remote |-> NoRemote]
DefSet == CHOOSE s \in Sets : TRUE

EmptyConfs == [a \in Adapters |-> <<>>]
Found(confs) == {a \in Adapters : confs[a] # <<>>}

WaitPages == {"wait_config", "wait_config_remote", "listen_raw"}
ProgressPages == WaitPages \cup {"blink", "wait_pair"}

\* The flow before its first step. "own" tells whether the remote of _data is an object
\* of the flow, or still the one of the entry.
NewFlow(source) ==
  [source |-> source, page |-> "start", agg |-> FALSE, confs |-> EmptyConfs, first |-> None,
   adapter |-> None, idx |-> 1, data |-> NewData(DefSet), own |-> TRUE, final |-> FALSE]

Init ==
  /\ flow = NewFlow("none")
  /\ left = 0
  /\ coord = [left |-> 0, heard |-> <<>>, recent |-> {}]
  /\ other = 0
  /\ live = NoData
  /\ disk = live
  /\ alone = FALSE
  /\ due = {}
  /\ refused = FALSE
  /\ asked = None

-----------------------------------------------------------------------------
(***************************************************************************)
(* BleAdvConfigHandler: the configurations found, by adapter.              *)
(***************************************************************************)

\* The adapter that was selected, else the first one that heard something.
SelectedAdapter(f) == IF f.adapter \in Found(f.confs) THEN f.adapter ELSE f.first
SelectedConfs(f) == f.confs[SelectedAdapter(f)]
Selected(f) == SelectedConfs(f)[f.idx]
HasNext(f) == f.idx < Len(SelectedConfs(f))

Handler(f, confs, first) ==
  [f EXCEPT !.confs = confs, !.first = first, !.adapter = None, !.idx = 1]

AddConfig(confs, a, c) ==
  IF \E i \in DOMAIN confs[a] : confs[a][i] = c THEN confs
  ELSE [confs EXCEPT ![a] = Append(@, c)]

-----------------------------------------------------------------------------
(***************************************************************************)
(* The steps.                                                              *)
(***************************************************************************)

Goto(f, page) == [f EXCEPT !.page = page]
Wait(f, page) == [Handler(f, EmptyConfs, None) EXCEPT !.page = page, !.agg = FALSE]

HasOneEntity(f) == f.data.ents # None

ChooseAdapter(f) ==
  Goto(f, IF Cardinality(Found(f.confs)) = 1 THEN "blink" ELSE "choose_adapter")

RetryAll(f) == ChooseAdapter([f EXCEPT !.adapter = None, !.idx = 1])
NoAnother(f) == Goto([f EXCEPT !.idx = @ + 1], "blink")

ConfirmYes(f) ==
  IF Selected(f) \in Configured THEN Goto(f, "aborted")
  ELSE Goto(Handler([f EXCEPT !.data = NewData(DefSet), !.own = TRUE], EmptyConfs, None), "configure")

ConfigRemote(f) ==
  IF f.data.remote # NoRemote THEN Goto(f, "config_remote") ELSE Wait(f, "wait_config_remote")

DeleteRemote(f) == Goto([f EXCEPT !.data.remote = NoRemote, !.own = TRUE], "configure")

FinalizeUnchecked(f) == Goto(f, IF f.source = "reconfigure" THEN "reconfigured" ELSE "finalize")
Finalize(f) ==
  IF ~HasOneEntity(f) THEN Goto([f EXCEPT !.final = TRUE], "config_entities")
  ELSE Goto(f, IF f.source = "reconfigure" THEN "reconfigured" ELSE "finalize")

\* The steps a menu offers, and what they do. A retry keeps the configuration. What was
\* found is not used after "configure": it is emptied there.
ConfirmMenu(f) ==
  {ConfirmYes(f), Goto(f, "blink"), RetryAll(f)}
    \cup (IF HasNext(f) THEN {NoAnother(f)} ELSE {Goto(f, "aborted")})
RemoteMenu(f) ==
  {DeleteRemote(f), Goto(f, "config_remote_update"), Wait(f, "wait_config_remote"),
   Goto(f, "configure")}
ConfigureMenu(f) ==
  {Goto(f, "config_entities"), ConfigRemote(f), Goto(f, "config_technical"), Finalize(f)}

Menu(f) ==
  CASE f.page = "user" -> {Wait(f, "wait_config"), Goto(f, "pair"), Goto(f, "tools")}
    [] f.page = "tools" -> {Goto(f, "manual"), Goto(f, "listen_raw"), Goto(f, "tools")}
    [] f.page = "listen_raw_res" -> {Goto(f, "listen_raw"), Goto(f, "tools")}
    [] f.page = "confirm_pair" -> {Goto(f, "pair"), Goto(f, "aborted"), Goto(f, "blink")}
    [] f.page = "no_config" -> {Wait(f, "wait_config"), Goto(f, "aborted")}
    [] f.page = "confirm" -> ConfirmMenu(f)
    [] f.page = "configure" -> ConfigureMenu(f)
    [] f.page = "config_remote" -> RemoteMenu(f)
    [] OTHER -> {}

\* The forms, with what they are given. The entities offered are those of the set.
ManualForm(f) ==
  {Goto(Handler(f, [EmptyConfs EXCEPT ![a] = <<c>>], a), "blink") : a \in Adapters, c \in Conf}
PairForm(f) ==
  {Goto(Handler(f, [EmptyConfs EXCEPT ![a] = s], a), "wait_pair") : a \in Adapters, s \in PhoneApps}
AdapterForm(f) == {Goto([f EXCEPT !.adapter = a, !.idx = 1], "blink") : a \in Found(f.confs)}
EntitiesForm(f) ==
  {[f EXCEPT !.data.ents = None],
   LET g == [f EXCEPT !.data.ents = f.data.set]
   IN  IF g.final THEN Finalize(g) ELSE Goto(g, "configure")}

Form(f) ==
  CASE f.page = "manual" -> ManualForm(f)
    [] f.page = "pair" -> PairForm(f)
    [] f.page = "choose_adapter" -> AdapterForm(f)
    [] f.page = "config_entities" -> EntitiesForm(f)
    [] f.page = "finalize" -> {Goto(f, "created")}
    [] OTHER -> {}

\* config_technical keeps what it is given, then refuses it when no adapter is chosen.
TechnicalNoReview(f, s, some) ==
  [f EXCEPT !.data.set = s, !.data.adapter = some, !.page = IF some THEN "configure" ELSE @]
Technical(f, s, some) ==
  [f EXCEPT !.data.set = s, !.data.adapter = some,
            !.page = IF ~some THEN @ ELSE IF s # f.data.set THEN "config_entities" ELSE "configure"]

-----------------------------------------------------------------------------
(***************************************************************************)
(* The actions.                                                            *)
(***************************************************************************)

\* start_listening, when the step leads to a page that waits. What is heard between two
\* such pages is cleared by the second: it is not kept here.
StartListening(time) == [coord EXCEPT !.left = time, !.heard = <<>>]
NoPageWaits ==
  /\ coord' = StartListening(0)
  /\ due' = {}
  /\ alone' = FALSE

DurationNoAgg(page) == MaxWait
Duration(page) == MaxWait + (IF page = "wait_config" THEN Agg ELSE 0)

Enter(g) ==
  /\ flow' = g
  /\ IF g.page \in WaitPages
     THEN /\ left' = MaxWait /\ coord' = StartListening(Duration(g.page))
          /\ alone' = (other = 0) /\ due' = {}
     ELSE UNCHANGED <<left, coord, alone, due>>

\* async_step_user or async_step_reconfigure: the data is copied, its remote is not. Once
\* there is an entry, it is the one that the flows are about.
Start ==
  /\ flow.page \in {"start", "created", "reconfigured", "aborted", "closed"}
  /\ \/ live = NoData /\ flow' = Goto(NewFlow("user"), "user")
     \/ live # NoData /\ flow' = [Goto(NewFlow("reconfigure"), "configure") EXCEPT !.data = live, !.own = FALSE]
  /\ asked' = None
  /\ UNCHANGED <<left, coord, other, entry, alone, due, refused>>

\* A menu or a form is answered. The entry is created or updated, and saved if it
\* differs, at the end of the flow.
UpdateEntryEagerly(g) ==
  IF (live # NoData \/ g.page = "created") /\ g.data # live THEN live' = g.data /\ disk' = g.data
  ELSE UNCHANGED entry
UpdateEntry(g) ==
  IF g.page \in {"created", "reconfigured"} /\ g.data # live THEN live' = g.data /\ disk' = g.data
  ELSE UNCHANGED entry

Choose ==
  /\ \E g \in Menu(flow) :
       /\ Enter(g)
       /\ UpdateEntry(g)
       /\ asked' = IF g.data.remote = NoRemote THEN None ELSE asked
  /\ UNCHANGED <<other, refused>>

Submit ==
  /\ \E g \in Form(flow) : Enter(g) /\ UpdateEntry(g)
  /\ UNCHANGED <<other, refused, asked>>

\* config_remote_update keeps the set (not the answer "paired", which nothing stores) in
\* the remote of _data, which may be the one of the entry.
SubmitRemote ==
  /\ flow.page = "config_remote_update"
  /\ \E s \in Sets :
       /\ flow' = Goto([flow EXCEPT !.data.remote.set = s], "configure")
       /\ live' = IF flow.own THEN live ELSE [live EXCEPT !.remote.set = s]
       /\ asked' = s
  /\ UNCHANGED <<left, coord, other, disk, alone, due, refused>>

SubmitTechnical ==
  /\ flow.page = "config_technical"
  /\ \E s \in Sets, some \in BOOLEAN :
       /\ flow' = Technical(flow, s, some)
       /\ refused' = (refused \/ (~some /\ s # flow.data.set))
  /\ UNCHANGED <<left, coord, other, entry, alone, due, asked>>

\* _evaluate, every 0.1 s until _stop_time: the first configuration found starts the
\* aggregation. The lists of the coordinator are cleared.
AddAll(confs, heard, withMatch) ==
  LET Add(found, p) ==
        AddConfig(IF withMatch THEN AddConfig(found, p[1], MatchOf[p[2]]) ELSE found, p[1], p[2])
      added[n \in 0 .. Len(heard)] ==
        IF n = 0 THEN confs ELSE Add(added[n - 1], heard[n])
  IN  added[Len(heard)]

StopTimeAgain == IF flow.page = "wait_config" THEN Agg ELSE 0
StopTime == IF flow.agg THEN left ELSE IF flow.page = "wait_config" THEN Agg ELSE 0

Evaluate ==
  /\ flow.page \in WaitPages \ {"listen_raw"} /\ left > 0 /\ coord.heard # <<>>
  /\ LET first == IF flow.agg THEN flow.first ELSE Head(coord.heard)[1]
         confs == AddAll(flow.confs, coord.heard, flow.page = "wait_config")
     IN  flow' = [flow EXCEPT !.confs = confs, !.first = first, !.agg = TRUE]
  /\ left' = StopTime
  /\ coord' = [coord EXCEPT !.heard = <<>>]
  /\ UNCHANGED <<other, entry, aux>>

\* The page that waits ends, and the step goes on with what was found.
WaitEnds(page, g) ==
  /\ flow.page = page /\ left = 0
  /\ flow' = g
  /\ NoPageWaits
  /\ UNCHANGED <<left, other, entry, refused, asked>>

ListenRawEnds == WaitEnds("listen_raw", Goto(flow, "listen_raw_res"))
WaitConfigEnds ==
  WaitEnds("wait_config",
           IF Found(flow.confs) = {} THEN Goto(flow, "no_config") ELSE ChooseAdapter(flow))
WaitRemoteEnds ==
  WaitEnds("wait_config_remote",
           IF Found(flow.confs) = {} THEN Goto(flow, "configure")
           ELSE Goto(Handler([flow EXCEPT !.own = TRUE,
                                          !.data.remote = [conf |-> Selected(flow), set |-> None]],
                             EmptyConfs, None), "config_remote_update"))

\* The blinking or the pairing ends. When it raises, the page starts it again.
BlinkEnds ==
  /\ flow.page = "blink" /\ Selected(flow) \notin TooLarge
  /\ flow' = Goto(flow, "confirm")
  /\ UNCHANGED <<left, coord, other, entry, aux>>
PairEnds ==
  /\ flow.page = "wait_pair"
  /\ flow' = Goto(flow, "confirm_pair")
  /\ UNCHANGED <<left, coord, other, entry, aux>>

\* The user closes the dialog.
CloseFlow ==
  /\ flow.page \notin {"start", "created", "reconfigured", "aborted", "closed"}
  /\ flow' = Goto(NewFlow("none"), "closed")
  /\ left' = 0
  /\ NoPageWaits
  /\ UNCHANGED <<other, entry, refused, asked>>

\* A button is pressed and an adapter hears it: handle_raw_adv, _handle_listening. The
\* raw advertisement of a codec that no device uses is then ignored for a minute.
Press(a, c) ==
  /\ coord' =
       IF c \in coord.recent THEN coord
       ELSE [coord EXCEPT
               !.heard = IF coord.left = 0 \/ \E i \in DOMAIN @ : @[i] = <<a, c>> THEN @
                         ELSE Append(@, <<a, c>>),
               !.recent = @ \cup ({c} \cap Repeated)]
  /\ due' = IF flow.page \in WaitPages /\ left > 0 /\ c \notin coord.recent
            THEN due \cup {<<a, c>>} ELSE due
  /\ UNCHANGED <<flow, left, other, entry, alone, refused, asked>>

\* A minute without it.
Forget(c) ==
  /\ c \in coord.recent
  /\ coord' = [coord EXCEPT !.recent = @ \ {c}]
  /\ UNCHANGED <<flow, left, other, entry, aux>>

\* A page of another flow starts to wait, and takes what is heard.
OtherWaits ==
  /\ other = 0
  /\ other' = MaxWait
  /\ coord' = IF flow.page \in WaitPages THEN StartListening(MaxWait) ELSE coord
  /\ alone' = FALSE
  /\ UNCHANGED <<flow, left, entry, due, refused, asked>>

OtherEvaluates ==
  /\ other > 0 /\ coord.heard # <<>>
  /\ coord' = [coord EXCEPT !.heard = <<>>]
  /\ UNCHANGED <<flow, left, other, entry, aux>>

\* The clock: a page has evaluated what was heard before a step of it.
Less(t) == IF t = 0 THEN 0 ELSE t - 1
Tick ==
  /\ flow.page \in WaitPages \ {"listen_raw"} /\ left > 0 => coord.heard = <<>>
  /\ left + coord.left + other > 0
  /\ left' = Less(left)
  /\ other' = Less(other)
  /\ coord' = [coord EXCEPT !.left = Less(@)]
  /\ UNCHANGED <<flow, entry, aux>>

\* Home Assistant restarts: the flows are lost, the entry is read.
Restart ==
  /\ flow' = NewFlow("none")
  /\ left' = 0
  /\ coord' = [left |-> 0, heard |-> <<>>, recent |-> {}]
  /\ other' = 0
  /\ live' = disk
  /\ alone' = FALSE
  /\ due' = {}
  /\ asked' = None
  /\ UNCHANGED <<disk, refused>>

\* Another entry is saved, and this one with it.
SaveEntries ==
  /\ disk' = live
  /\ UNCHANGED <<flow, left, coord, other, live, aux>>

Next ==
  \/ Start \/ Choose \/ Submit \/ SubmitRemote \/ SubmitTechnical
  \/ Evaluate \/ ListenRawEnds \/ WaitConfigEnds \/ WaitRemoteEnds
  \/ BlinkEnds \/ PairEnds \/ CloseFlow
  \/ \E p \in Presses : Press(p[1], p[2])
  \/ \E c \in Conf : Forget(c)
  \/ OtherWaits \/ OtherEvaluates \/ Tick \/ Restart \/ SaveEntries

\* The loop runs the tasks of the pages, and time passes.
Fairness ==
  /\ WF_vars(Evaluate) /\ WF_vars(ListenRawEnds \/ WaitConfigEnds \/ WaitRemoteEnds)
  /\ WF_vars(BlinkEnds) /\ WF_vars(PairEnds) /\ SF_vars(Tick)

Spec == Init /\ [][Next]_vars /\ Fairness

-----------------------------------------------------------------------------
\* What a remote sends in time, while a page waits, is offered by it
\* (config_flow.py:240-253), unless another page listens too (coordinator.py:208) or the
\* same advertisement was heard in the minute before (coordinator.py:323).
Has(confs, p) == \E i \in DOMAIN confs[p[1]] : confs[p[1]][i] = p[2]
Got == {p \in Adapters \X Conf : Has(flow.confs, p)}
NothingMissed ==
  flow.page \in {"wait_config", "wait_config_remote"} /\ alone =>
    \A p \in due : p \in Got \/ (left > 0 /\ \E i \in DOMAIN coord.heard : coord.heard[i] = p)

\* After a change of translator set the entities are reviewed (config_flow.py:805), but
\* when the change was first submitted without an adapter (config_flow.py:803).
EntitiesReviewed ==
  /\ flow.page \in {"configure", "finalize", "created", "reconfigured"}
  /\ HasOneEntity(flow) /\ ~refused
  => flow.data.ents = flow.data.set

\* A flow only ends well with an entity and an adapter (config_flow.py:677-683, 804, 835).
FinishedIsUsable ==
  flow.page \in {"created", "reconfigured"} => HasOneEntity(flow) /\ flow.data.adapter

\* Until a reconfiguration ends the entry is not changed, nor saved, but for the
\* translator set of its remote (config_flow.py:779, 851), which shows at once.
OnlyTheEndChanges ==
  [][ \/ live' = flow'.data /\ disk' = flow'.data /\ flow'.page \in {"created", "reconfigured"}
      \/ live = NoData /\ UNCHANGED entry
      \/ /\ live # NoData
         /\ \E s \in Sets \cup {None} :
              live' = [live EXCEPT !.remote = [@ EXCEPT !.set = s]]
         /\ disk' \in {disk, live} ]_vars

\* The answers about the remote are in the entry when the reconfiguration ends, and
\* still are after a restart. They are not when nothing else changes (see the README).
ReconfigureIsSaved ==
  flow.page = "reconfigured" /\ asked # None => disk.remote.set = asked

\* The pages with a task end by themselves, whatever is pressed, and one that asks
\* follows, unless the task raises: it is then started again for ever (config_flow.py:172).
PagesEnd ==
  flow.page \in ProgressPages ~>
    \/ flow.page \notin ProgressPages
    \/ flow.page = "blink" /\ Selected(flow) \in TooLarge
=============================================================================
