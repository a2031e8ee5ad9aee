--------------------------- MODULE ConfigFlowProofs ---------------------------
(***************************************************************************)
(* The configuration flow, for any adapters, configurations, translator    *)
(* sets, waiting times and presses: what is selected is among what was     *)
(* found, what was pressed in time is offered, the entities are reviewed,  *)
(* a flow that ends well is usable, and only its end changes the entry.    *)
(***************************************************************************)
EXTENDS ConfigFlow, WellFoundedInduction, TLAPS

-----------------------------------------------------------------------------
(***************************************************************************)
(* Induction, in a form without an operator as parameter: a set of natural *)
(* numbers with 0 and the successors of its elements holds them all.       *)
(***************************************************************************)

LEMMA Induction ==
  ASSUME NEW S \in SUBSET Nat, 0 \in S, \A n \in S : n + 1 \in S
  PROVE  S = Nat
<1> DEFINE R == {ss \in Nat \X Nat : ss[1] < ss[2]}
           T == Nat \ S
<1>1. IsWellFoundedOn(R, Nat) BY NatLessThanWellFounded DEF OpToRel
<1> SUFFICES ASSUME T # {} PROVE FALSE OBVIOUS
<1>2. PICK x \in T : \A y \in T : <<y, x>> \notin R
  <2> HIDE DEF R, T
  <2>1. T \subseteq Nat BY DEF T
  <2> QED BY <1>1, <2>1, WFMin
<1>3. x \in Nat /\ x # 0 /\ x \notin S OBVIOUS
<1>4. x - 1 \in Nat /\ <<x - 1, x>> \in R BY <1>3
<1>5. x - 1 \in S BY <1>2, <1>4
<1>6. (x - 1) + 1 \in S BY <1>5
<1> QED BY <1>3, <1>6

-----------------------------------------------------------------------------
(***************************************************************************)
(* What was found.                                                         *)
(***************************************************************************)

Confs == [Adapters -> Seq(Conf)]

\* A configuration that is added is there, with all that was.
LEMMA AddConfigKeeps ==
  ASSUME NEW confs \in Confs, NEW a \in Adapters, NEW c \in Conf
  PROVE  /\ AddConfig(confs, a, c) \in Confs
         /\ Has(AddConfig(confs, a, c), <<a, c>>)
         /\ \A p \in Adapters \X Conf : Has(confs, p) => Has(AddConfig(confs, a, c), p)
<1>1. CASE \E i \in DOMAIN confs[a] : confs[a][i] = c
  BY <1>1 DEF AddConfig, Has
<1>2. CASE ~ \E i \in DOMAIN confs[a] : confs[a][i] = c
  <2> DEFINE s == Append(confs[a], c)
             res == [confs EXCEPT ![a] = s]
  <2>1. AddConfig(confs, a, c) = res BY <1>2 DEF AddConfig
  <2>2. confs[a] \in Seq(Conf) BY DEF Confs
  <2>3. /\ s \in Seq(Conf)
        /\ Len(confs[a]) + 1 \in DOMAIN s
        /\ s[Len(confs[a]) + 1] = c
        /\ \A i \in DOMAIN confs[a] : i \in DOMAIN s /\ s[i] = confs[a][i]
    BY <2>2
  <2> HIDE DEF s
  <2>4. res \in Confs /\ res[a] = s /\ \A b \in Adapters \ {a} : res[b] = confs[b]
    BY <2>3 DEF Confs
  <2> HIDE DEF res
  <2>5. Has(res, <<a, c>>) BY <2>3, <2>4 DEF Has
  <2>6. ASSUME NEW p \in Adapters \X Conf, Has(confs, p) PROVE Has(res, p)
    <3>1. PICK i \in DOMAIN confs[p[1]] : confs[p[1]][i] = p[2] BY <2>6 DEF Has
    <3>2. CASE p[1] = a BY <3>1, <3>2, <2>3, <2>4 DEF Has
    <3>3. CASE p[1] # a BY <3>1, <3>3, <2>4 DEF Has
    <3> QED BY <3>2, <3>3
  <2> QED BY <2>1, <2>4, <2>5, <2>6
<1> QED BY <1>1, <1>2

\* What is heard is added with, perhaps, the configuration it is an alias of.
AddHeard(found, p, withMatch) ==
  AddConfig(IF withMatch THEN AddConfig(found, p[1], MatchOf[p[2]]) ELSE found, p[1], p[2])

LEMMA AddHeardKeeps ==
  ASSUME NEW confs \in Confs, NEW p \in Adapters \X Conf, NEW withMatch \in BOOLEAN
  PROVE  /\ AddHeard(confs, p, withMatch) \in Confs
         /\ Has(AddHeard(confs, p, withMatch), p)
         /\ \A q \in Adapters \X Conf : Has(confs, q) => Has(AddHeard(confs, p, withMatch), q)
<1> DEFINE m == IF withMatch THEN AddConfig(confs, p[1], MatchOf[p[2]]) ELSE confs
<1>1. p[1] \in Adapters /\ p[2] \in Conf /\ MatchOf[p[2]] \in Conf /\ p = <<p[1], p[2]>>
  BY FlowAssumption
<1>2. m \in Confs /\ \A q \in Adapters \X Conf : Has(confs, q) => Has(m, q)
  BY <1>1, AddConfigKeeps
<1> HIDE DEF m
<1>3. AddHeard(confs, p, withMatch) = AddConfig(m, p[1], p[2]) BY DEF AddHeard, m
<1> QED BY <1>1, <1>2, <1>3, AddConfigKeeps

\* AddAll, as a function of how many were added.
Adding(f, confs, heard, withMatch, k) ==
  f = [n \in 0 .. k |-> IF n = 0 THEN confs ELSE AddHeard(f[n - 1], heard[n], withMatch)]
Added(confs, heard, withMatch) == CHOOSE f : Adding(f, confs, heard, withMatch, Len(heard))

LEMMA AddAllIsAdded ==
  ASSUME NEW confs, NEW heard, NEW withMatch
  PROVE  AddAll(confs, heard, withMatch) = Added(confs, heard, withMatch)[Len(heard)]
BY DEF AddAll, Added, Adding, AddHeard

LEMMA AddedExists ==
  ASSUME NEW confs, NEW heard, NEW withMatch, Len(heard) \in Nat
  PROVE  Adding(Added(confs, heard, withMatch), confs, heard, withMatch, Len(heard))
<1> DEFINE S == {k \in Nat : \E f : Adding(f, confs, heard, withMatch, k)}
<1>1. 0 \in S
  <2>1. Adding([n \in 0 .. 0 |-> confs], confs, heard, withMatch, 0) BY DEF Adding
  <2> QED BY <2>1
<1>2. ASSUME NEW k \in S PROVE k + 1 \in S
  <2>1. PICK f : Adding(f, confs, heard, withMatch, k) BY <1>2
  <2> DEFINE g == [n \in 0 .. k + 1 |-> IF n <= k THEN f[n] ELSE AddHeard(f[k], heard[k + 1], withMatch)]
  <2>2. Adding(g, confs, heard, withMatch, k + 1) BY <2>1 DEF Adding
  <2>3. k + 1 \in Nat OBVIOUS
  <2> HIDE DEF g
  <2> QED BY <2>2, <2>3
<1>3. S = Nat
  <2>1. S \subseteq Nat OBVIOUS
  <2> HIDE DEF S
  <2> QED BY <1>1, <1>2, <2>1, Induction
<1>4. \E f : Adding(f, confs, heard, withMatch, Len(heard)) BY <1>3
<1> QED BY <1>4 DEF Added

\* All that was heard is added, and nothing of what was found is lost, however long the
\* list is (_evaluate).
LEMMA AddAllKeeps ==
  ASSUME NEW confs \in Confs, NEW heard \in Seq(Adapters \X Conf), NEW withMatch \in BOOLEAN
  PROVE  /\ AddAll(confs, heard, withMatch) \in Confs
         /\ \A q \in Adapters \X Conf : Has(confs, q) => Has(AddAll(confs, heard, withMatch), q)
         /\ \A i \in DOMAIN heard : Has(AddAll(confs, heard, withMatch), heard[i])
<1> DEFINE f == Added(confs, heard, withMatch)
           Right(k) == /\ f[k] \in Confs
                       /\ \A q \in Adapters \X Conf : Has(confs, q) => Has(f[k], q)
                       /\ \A i \in 1 .. k : Has(f[k], heard[i])
           S == {k \in Nat : k <= Len(heard) => Right(k)}
<1>1. Len(heard) \in Nat /\ DOMAIN heard = 1 .. Len(heard) OBVIOUS
<1>2. /\ f[0] = confs
      /\ \A k \in 1 .. Len(heard) : f[k] = AddHeard(f[k - 1], heard[k], withMatch)
  BY <1>1, AddedExists DEF Adding
<1> HIDE DEF f
<1>3. 0 \in S BY <1>2
<1>4. ASSUME NEW k \in S PROVE k + 1 \in S
  <2> SUFFICES ASSUME k + 1 <= Len(heard) PROVE Right(k + 1) OBVIOUS
  <2>1. k \in Nat /\ Right(k) BY <1>4
  <2>2. heard[k + 1] \in Adapters \X Conf BY <2>1
  <2>3. f[k + 1] = AddHeard(f[k], heard[k + 1], withMatch)
    <3>1. k + 1 \in 1 .. Len(heard) /\ (k + 1) - 1 = k BY <2>1
    <3> QED BY <3>1, <1>2
  <2>4. /\ f[k + 1] \in Confs
        /\ Has(f[k + 1], heard[k + 1])
        /\ \A q \in Adapters \X Conf : Has(f[k], q) => Has(f[k + 1], q)
    BY <2>1, <2>2, <2>3, AddHeardKeeps
  <2>5. \A i \in 1 .. k + 1 : i \in 1 .. k \/ i = k + 1 BY <2>1
  <2>6. \A i \in 1 .. k : heard[i] \in Adapters \X Conf BY <2>1
  <2> QED BY <2>1, <2>4, <2>5, <2>6
<1>5. S = Nat
  <2>1. S \subseteq Nat OBVIOUS
  <2> HIDE DEF S
  <2> QED BY <1>3, <1>4, <2>1, Induction
<1>6. Right(Len(heard)) BY <1>1, <1>5
<1>7. AddAll(confs, heard, withMatch) = f[Len(heard)] BY AddAllIsAdded DEF f
<1> QED BY <1>1, <1>6, <1>7

-----------------------------------------------------------------------------
(***************************************************************************)
(* The inductive invariant.                                                *)
(***************************************************************************)

Pages ==
  {"start", "user", "tools", "manual", "pair", "wait_pair", "confirm_pair",
   "listen_raw", "listen_raw_res", "wait_config", "no_config", "choose_adapter",
   "blink", "confirm", "configure", "config_entities", "config_technical",
   "config_remote", "wait_config_remote", "config_remote_update",
   "finalize", "created", "reconfigured", "aborted", "closed"}
FoundPages == {"wait_config", "wait_config_remote"}
BlinkPages == {"blink", "confirm", "wait_pair", "confirm_pair"}
EndPages   == {"finalize", "created", "reconfigured"}

\* A set of translators, the one chosen by default, or none.
ASet == Sets \cup {DefSet, None}
Remote == [conf : Conf \cup {None}, set : Sets \cup {None}]
Data == [ents : ASet, set : ASet, adapter : BOOLEAN, remote : Remote]
Flow ==
  [source : {"none", "user", "reconfigure"}, page : Pages, agg : BOOLEAN, confs : Confs,
   first : Adapters \cup {None}, adapter : Adapters \cup {None}, idx : Nat, data : Data,
   own : BOOLEAN, final : BOOLEAN]

TypeOK ==
  /\ flow \in Flow
  /\ left \in Nat /\ other \in Nat
  /\ coord \in [left : Nat, heard : Seq(Adapters \X Conf), recent : SUBSET Conf]
  /\ live \in Data /\ disk \in Data
  /\ alone \in BOOLEAN /\ refused \in BOOLEAN
  /\ due \subseteq Adapters \X Conf

\* What a page selects is among what was found: the first adapter found something, and
\* the index is one of the configurations of the adapter selected.
Selection(f) ==
  /\ f.page \in FoundPages =>
       /\ f.idx = 1
       /\ f.agg => f.first \in Found(f.confs)
       /\ ~ f.agg => Found(f.confs) = {}
  /\ f.page \in BlinkPages \cup {"choose_adapter"} => f.first \in Found(f.confs)
  /\ f.page \in BlinkPages => f.idx \in 1 .. Len(SelectedConfs(f))

\* The entities are those of the set.
Reviewed(d) == d.ents # None => d.ents = d.set

\* What holds of the data of a flow, r telling whether a change was refused.
Kept(f, r) ==
  /\ f.page # "config_technical" => f.data.adapter
  /\ f.page \in EndPages => HasOneEntity(f)
  /\ ~ r /\ f.page # "config_entities" => Reviewed(f.data)

Good(f, r) == f \in Flow /\ Selection(f) /\ Kept(f, r)

\* A flow that may go on to any page.
Ready(f, r) == f \in Flow /\ f.data.adapter /\ (~ r => Reviewed(f.data))

\* The entry, once there is one, has an adapter, and differs on the disk only by the set of
\* its remote; the remote of a flow is the one of the entry only when there is one.
EntryKept ==
  /\ live # NoData => live.adapter
  /\ live = NoData => disk = NoData
  /\ \E s \in Sets \cup {None} : disk = [live EXCEPT !.remote.set = s]
  /\ ~ refused => Reviewed(live) /\ Reviewed(disk)
  /\ ~ flow.own => live # NoData

\* While a page waits and no other does, the coordinator listens at least as long, and
\* beyond the time given to more configurations.
Listening ==
  flow.page \in FoundPages /\ alone =>
    /\ other = 0
    /\ left <= coord.left
    /\ flow.page = "wait_config" /\ ~ flow.agg /\ left > 0 => left + Agg <= coord.left

FlowInv == TypeOK /\ Good(flow, refused) /\ EntryKept /\ Listening /\ NothingMissed

-----------------------------------------------------------------------------
(***************************************************************************)
(* The operators on a flow.                                                *)
(***************************************************************************)

LEMMA GotoType ==
  ASSUME NEW f \in Flow, NEW page \in Pages
  PROVE  /\ Goto(f, page) \in Flow
         /\ Goto(f, page).page = page
         /\ Goto(f, page).agg = f.agg
         /\ Goto(f, page).confs = f.confs
         /\ Goto(f, page).first = f.first
         /\ Goto(f, page).adapter = f.adapter
         /\ Goto(f, page).idx = f.idx
         /\ Goto(f, page).data = f.data
         /\ Goto(f, page).own = f.own
BY DEF Goto, Flow

LEMMA HandlerType ==
  ASSUME NEW f \in Flow, NEW confs \in Confs, NEW first \in Adapters \cup {None}
  PROVE  /\ Handler(f, confs, first) \in Flow
         /\ Handler(f, confs, first).page = f.page
         /\ Handler(f, confs, first).agg = f.agg
         /\ Handler(f, confs, first).confs = confs
         /\ Handler(f, confs, first).first = first
         /\ Handler(f, confs, first).adapter = None
         /\ Handler(f, confs, first).idx = 1
         /\ Handler(f, confs, first).data = f.data
         /\ Handler(f, confs, first).own = f.own
BY DEF Handler, Flow

LEMMA EmptyConfsType == EmptyConfs \in Confs /\ Found(EmptyConfs) = {}
BY DEF EmptyConfs, Confs, Found

LEMMA NewDataType ==
  ASSUME NEW s \in ASet
  PROVE  /\ NewData(s) \in Data
         /\ NewData(s).adapter
         /\ NewData(s).ents = None
BY DEF NewData, Data, NoRemote, Remote, ASet

LEMMA NoDataType == NoData \in Data /\ ~ NoData.adapter /\ NoData.ents = None
BY DEF NoData, Data, NoRemote, Remote, ASet

\* The adapter selected found something as soon as the first one did.
LEMMA SelectedFound ==
  ASSUME NEW f, f.first \in Found(f.confs)
  PROVE  SelectedAdapter(f) \in Found(f.confs)
BY DEF SelectedAdapter

LEMMA FirstIsThere ==
  ASSUME NEW f, f.confs \in Confs, f.first \in Found(f.confs), f.idx = 1
  PROVE  f.idx \in 1 .. Len(SelectedConfs(f))
<1>1. SelectedAdapter(f) \in Found(f.confs) BY SelectedFound
<1>2. SelectedConfs(f) \in Seq(Conf) /\ SelectedConfs(f) # <<>>
  BY <1>1 DEF Confs, Found, SelectedConfs
<1>3. Len(SelectedConfs(f)) \in Nat \ {0} BY <1>2
<1> QED BY <1>3

LEMMA SelectedType ==
  ASSUME NEW f \in Flow, Selection(f),
         f.page \in BlinkPages \/ (f.page \in FoundPages /\ Found(f.confs) # {})
  PROVE  Selected(f) \in Conf
<1>1. f.confs \in Confs /\ f.agg \in BOOLEAN BY DEF Flow
<1>2. f.first \in Found(f.confs) BY <1>1 DEF Selection
<1>3. f.idx \in 1 .. Len(SelectedConfs(f)) BY <1>1, <1>2, FirstIsThere DEF Selection
<1>4. SelectedConfs(f) \in Seq(Conf)
  BY <1>1, <1>2, SelectedFound DEF SelectedConfs, Confs, Found
<1> QED BY <1>3, <1>4 DEF Selected

\* A step to a page that waits for nothing keeps what was found.
LEMMA GoodIsReady ==
  ASSUME NEW f, NEW r, Good(f, r), f.page \notin {"config_technical", "config_entities"}
  PROVE  Ready(f, r)
BY DEF Good, Ready, Kept

LEMMA GotoGood ==
  ASSUME NEW r, NEW f, Ready(f, r), NEW page \in Pages \ FoundPages,
         page \in BlinkPages \cup {"choose_adapter"} => f.first \in Found(f.confs),
         page \in BlinkPages => f.idx \in 1 .. Len(SelectedConfs(f)),
         page \in EndPages => HasOneEntity(f)
  PROVE  Good(Goto(f, page), r) /\ Goto(f, page).own = f.own /\ Goto(f, page).page = page
<1> DEFINE g == Goto(f, page)
<1>1. /\ g \in Flow /\ g.page = page /\ g.agg = f.agg /\ g.confs = f.confs /\ g.first = f.first
      /\ g.adapter = f.adapter /\ g.idx = f.idx /\ g.data = f.data /\ g.own = f.own
  BY GotoType DEF Ready
<1> HIDE DEF g
<1>2. SelectedConfs(g) = SelectedConfs(f) BY <1>1 DEF SelectedConfs, SelectedAdapter
<1>3. Selection(g) BY <1>1, <1>2 DEF Selection, FoundPages
<1>4. Kept(g, r) BY <1>1 DEF Ready, Kept, HasOneEntity
<1> QED BY <1>1, <1>3, <1>4 DEF Good, g

\* A step to a page that waits forgets it.
LEMMA WaitGood ==
  ASSUME NEW r, NEW f, Ready(f, r), NEW page \in FoundPages
  PROVE  Good(Wait(f, page), r) /\ Wait(f, page).own = f.own
<1> DEFINE h == Handler(f, EmptyConfs, None)
           g == Wait(f, page)
<1>1. /\ h \in Flow /\ h.confs = EmptyConfs /\ h.idx = 1 /\ h.data = f.data /\ h.own = f.own
  BY HandlerType, EmptyConfsType DEF Ready
<1>2. g = [h EXCEPT !.page = page, !.agg = FALSE] BY DEF Wait
<1> HIDE DEF g, h
<1>3. page \in Pages BY DEF FoundPages, Pages
<1>4. /\ g \in Flow /\ g.page = page /\ ~ g.agg /\ g.confs = h.confs /\ g.idx = h.idx
      /\ g.data = h.data /\ g.own = h.own
  BY <1>1, <1>2, <1>3 DEF Flow
<1>5. Selection(g)
  BY <1>1, <1>4, EmptyConfsType DEF Selection, FoundPages, BlinkPages
<1>6. Kept(g, r)
  BY <1>1, <1>4 DEF Ready, Kept, HasOneEntity, FoundPages, EndPages
<1> QED BY <1>1, <1>4, <1>5, <1>6 DEF Good, g

\* A step that takes a list of configurations, of one adapter, starts with its first.
LEMMA HandlerGood ==
  ASSUME NEW r, NEW f, Ready(f, r), NEW a \in Adapters, NEW s \in Seq(Conf), s # <<>>,
         NEW page \in BlinkPages
  PROVE  /\ Good(Goto(Handler(f, [EmptyConfs EXCEPT ![a] = s], a), page), r)
         /\ Goto(Handler(f, [EmptyConfs EXCEPT ![a] = s], a), page).own = f.own
         /\ Goto(Handler(f, [EmptyConfs EXCEPT ![a] = s], a), page).page = page
<1> DEFINE confs == [EmptyConfs EXCEPT ![a] = s]
           h == Handler(f, confs, a)
           g == Goto(h, page)
<1>1. confs \in Confs /\ a \in Found(confs)
  <2>1. EmptyConfs \in Confs BY EmptyConfsType
  <2>2. confs \in Confs /\ confs[a] = s BY <2>1 DEF Confs
  <2> QED BY <2>2 DEF Found
<1> HIDE DEF confs
<1>2. h \in Flow /\ h.confs = confs /\ h.first = a /\ h.idx = 1 /\ h.data = f.data /\ h.own = f.own
  BY <1>1, HandlerType DEF Ready
<1> HIDE DEF h
<1>3. page \in Pages BY DEF BlinkPages, Pages
<1>4. /\ g \in Flow /\ g.page = page /\ g.confs = confs /\ g.first = a /\ g.idx = 1
      /\ g.data = f.data /\ g.own = f.own
  BY <1>2, <1>3, GotoType
<1> HIDE DEF g
<1>5. g.idx \in 1 .. Len(SelectedConfs(g)) BY <1>1, <1>4, FirstIsThere
<1>6. Selection(g) BY <1>1, <1>4, <1>5 DEF Selection, FoundPages, BlinkPages
<1>7. Kept(g, r) BY <1>4 DEF Ready, Kept, BlinkPages, EndPages
<1> QED BY <1>4, <1>6, <1>7 DEF Good, g, h, confs

\* A step that forgets what was found, to a page that needs none of it.
LEMMA ForgetGood ==
  ASSUME NEW r, NEW f, Ready(f, r), NEW page \in {"configure", "config_remote_update"}
  PROVE  /\ Good(Goto(Handler(f, EmptyConfs, None), page), r)
         /\ Goto(Handler(f, EmptyConfs, None), page).own = f.own
         /\ Goto(Handler(f, EmptyConfs, None), page).page = page
<1> DEFINE h == Handler(f, EmptyConfs, None)
<1>1. h \in Flow /\ h.data = f.data /\ h.own = f.own
  BY HandlerType, EmptyConfsType DEF Ready
<1>2. Ready(h, r) BY <1>1 DEF Ready
<1> HIDE DEF h
<1>3. page \in Pages \ (FoundPages \cup BlinkPages \cup EndPages \cup {"choose_adapter"})
  BY DEF Pages, FoundPages, BlinkPages, EndPages
<1>4. Good(Goto(h, page), r) /\ Goto(h, page).own = h.own /\ Goto(h, page).page = page
  BY <1>2, <1>3, GotoGood
<1> QED BY <1>1, <1>4 DEF h

\* The simplest steps: to a page that selects nothing.
Simple == Pages \ (FoundPages \cup BlinkPages \cup EndPages \cup {"choose_adapter"})

LEMMA SimpleGood ==
  ASSUME NEW r, NEW f, Ready(f, r), NEW page \in Simple
  PROVE  Good(Goto(f, page), r) /\ Goto(f, page).own = f.own
BY GotoGood DEF Simple

LEMMA ChooseAdapterGood ==
  ASSUME NEW r, NEW f, Ready(f, r), f.first \in Found(f.confs), f.idx = 1
  PROVE  Good(ChooseAdapter(f), r) /\ ChooseAdapter(f).own = f.own
<1>1. f.idx \in 1 .. Len(SelectedConfs(f)) BY FirstIsThere DEF Ready, Flow
<1>2. {"blink", "choose_adapter"} \subseteq Pages \ (FoundPages \cup EndPages)
  BY DEF Pages, FoundPages, EndPages
<1>3. "choose_adapter" \notin BlinkPages BY DEF BlinkPages
<1>4. Good(Goto(f, "blink"), r) /\ Goto(f, "blink").own = f.own BY <1>1, <1>2, GotoGood
<1>5. Good(Goto(f, "choose_adapter"), r) /\ Goto(f, "choose_adapter").own = f.own
  BY <1>2, <1>3, GotoGood
<1> QED BY <1>4, <1>5 DEF ChooseAdapter

\* The steps of the confirmation.
LEMMA ConfirmYesGood ==
  ASSUME NEW r, NEW f, Ready(f, r)
  PROVE  Good(ConfirmYes(f), r) /\ (ConfirmYes(f).own \/ ConfirmYes(f).own = f.own)
<1> DEFINE h == [f EXCEPT !.data = NewData(DefSet), !.own = TRUE]
<1>1. "aborted" \in Simple
  BY DEF Simple, Pages, FoundPages, BlinkPages, EndPages
<1>2. NewData(DefSet) \in Data /\ NewData(DefSet).adapter /\ NewData(DefSet).ents = None
  BY NewDataType DEF ASet
<1>3. h \in Flow /\ h.data = NewData(DefSet) /\ h.own BY <1>2 DEF Ready, Flow
<1>4. Ready(h, r) BY <1>2, <1>3 DEF Ready, Reviewed
<1> HIDE DEF h
<1>5. CASE Selected(f) \in Configured BY <1>1, <1>5, SimpleGood DEF ConfirmYes
<1>6. CASE Selected(f) \notin Configured
  <2>1. ConfirmYes(f) = Goto(Handler(h, EmptyConfs, None), "configure")
    BY <1>6 DEF ConfirmYes, h
  <2> QED BY <2>1, <1>3, <1>4, ForgetGood
<1> QED BY <1>5, <1>6

LEMMA ConfirmMenuGood ==
  ASSUME NEW r, NEW f, Good(f, r), f.page = "confirm", NEW g \in ConfirmMenu(f)
  PROVE  Good(g, r) /\ (g.own \/ g.own = f.own)
<1>1. Ready(f, r) BY GoodIsReady
<1>2. f.first \in Found(f.confs) /\ f.idx \in 1 .. Len(SelectedConfs(f)) /\ f.confs \in Confs
  BY DEF Good, Selection, BlinkPages, Flow
<1>3. "aborted" \in Simple BY DEF Simple, Pages, FoundPages, BlinkPages, EndPages
<1>4. "blink" \in Pages \ (FoundPages \cup EndPages) BY DEF Pages, FoundPages, EndPages
<1>5. CASE g = ConfirmYes(f) BY <1>1, <1>5, ConfirmYesGood
<1>6. CASE g = Goto(f, "blink") BY <1>1, <1>2, <1>4, <1>6, GotoGood
<1>7. CASE g = RetryAll(f)
  <2> DEFINE h == [f EXCEPT !.adapter = None, !.idx = 1]
  <2>1. h \in Flow /\ h.data = f.data /\ h.confs = f.confs /\ h.first = f.first /\ h.idx = 1 /\ h.own = f.own
    BY <1>1 DEF Ready, Flow
  <2>2. Ready(h, r) BY <1>1, <2>1 DEF Ready
  <2>3. g = ChooseAdapter(h) BY <1>7 DEF RetryAll
  <2> HIDE DEF h
  <2> QED BY <1>2, <2>1, <2>2, <2>3, ChooseAdapterGood
<1>8. CASE HasNext(f) /\ g = NoAnother(f)
  <2> DEFINE h == [f EXCEPT !.idx = @ + 1]
  <2>1. /\ h \in Flow /\ h.data = f.data /\ h.confs = f.confs /\ h.first = f.first
        /\ h.adapter = f.adapter /\ h.idx = f.idx + 1 /\ h.own = f.own
    BY <1>1 DEF Ready, Flow
  <2>2. Ready(h, r) BY <1>1, <2>1 DEF Ready
  <2>3. g = Goto(h, "blink") BY <1>8 DEF NoAnother
  <2> HIDE DEF h
  <2>4. SelectedConfs(h) = SelectedConfs(f) BY <2>1 DEF SelectedConfs, SelectedAdapter
  <2>5. SelectedConfs(f) \in Seq(Conf)
    BY <1>2, SelectedFound DEF SelectedConfs, Confs, Found
  <2>6. h.idx \in 1 .. Len(SelectedConfs(h)) BY <1>2, <1>8, <2>1, <2>4, <2>5 DEF HasNext
  <2> QED BY <1>2, <1>4, <2>1, <2>2, <2>3, <2>6, GotoGood
<1>9. CASE g = Goto(f, "aborted") BY <1>1, <1>3, <1>9, SimpleGood
<1> QED BY <1>5, <1>6, <1>7, <1>8, <1>9 DEF ConfirmMenu

\* The steps of the configuration and of its end.
LEMMA FinalizeGood ==
  ASSUME NEW r, NEW f, Ready(f, r)
  PROVE  Good(Finalize(f), r) /\ Finalize(f).own = f.own
<1>1. "config_entities" \in Simple BY DEF Simple, Pages, FoundPages, BlinkPages, EndPages
<1>2. {"reconfigured", "finalize"} \subseteq Pages \ (FoundPages \cup BlinkPages \cup {"choose_adapter"})
  BY DEF Pages, FoundPages, BlinkPages
<1>3. CASE ~ HasOneEntity(f)
  <2> DEFINE h == [f EXCEPT !.final = TRUE]
  <2>1. h \in Flow /\ h.data = f.data /\ h.own = f.own BY DEF Ready, Flow
  <2>2. Ready(h, r) BY <2>1 DEF Ready
  <2>3. Finalize(f) = Goto(h, "config_entities") BY <1>3 DEF Finalize
  <2> HIDE DEF h
  <2> QED BY <1>1, <2>1, <2>2, <2>3, SimpleGood
<1>4. CASE HasOneEntity(f)
  <2>1. \A page \in {"reconfigured", "finalize"} :
          Good(Goto(f, page), r) /\ Goto(f, page).own = f.own
    BY <1>2, <1>4, GotoGood
  <2> QED BY <1>4, <2>1 DEF Finalize
<1> QED BY <1>3, <1>4

LEMMA ConfigureMenuGood ==
  ASSUME NEW r, NEW f, Ready(f, r), NEW g \in ConfigureMenu(f)
  PROVE  Good(g, r) /\ g.own = f.own
<1>1. {"config_entities", "config_remote", "config_technical"} \subseteq Simple
  BY DEF Simple, Pages, FoundPages, BlinkPages, EndPages
<1>2. "wait_config_remote" \in FoundPages BY DEF FoundPages
<1>3. \A page \in {"config_entities", "config_remote", "config_technical"} :
        Good(Goto(f, page), r) /\ Goto(f, page).own = f.own
  BY <1>1, SimpleGood
<1>4. Good(ConfigRemote(f), r) /\ ConfigRemote(f).own = f.own
  BY <1>2, <1>3, WaitGood DEF ConfigRemote
<1>5. Good(Finalize(f), r) /\ Finalize(f).own = f.own BY FinalizeGood
<1> QED BY <1>3, <1>4, <1>5 DEF ConfigureMenu

LEMMA RemoteMenuGood ==
  ASSUME NEW r, NEW f, Ready(f, r), NEW g \in RemoteMenu(f)
  PROVE  Good(g, r) /\ (g.own \/ g.own = f.own)
<1>1. {"config_remote_update", "configure"} \subseteq Simple
  BY DEF Simple, Pages, FoundPages, BlinkPages, EndPages
<1>2. "wait_config_remote" \in FoundPages BY DEF FoundPages
<1>3. \A page \in {"config_remote_update", "configure"} :
        Good(Goto(f, page), r) /\ Goto(f, page).own = f.own
  BY <1>1, SimpleGood
<1>4. Good(DeleteRemote(f), r) /\ DeleteRemote(f).own
  <2> DEFINE h == [f EXCEPT !.data.remote = NoRemote, !.own = TRUE]
  <2>1. NoRemote \in Remote BY DEF NoRemote, Remote
  <2>2. /\ h \in Flow /\ h.data.adapter = f.data.adapter /\ h.data.ents = f.data.ents
        /\ h.data.set = f.data.set /\ h.own
    BY <2>1 DEF Ready, Flow, Data
  <2>3. Ready(h, r) BY <2>2 DEF Ready, Reviewed
  <2>4. DeleteRemote(f) = Goto(h, "configure") BY DEF DeleteRemote
  <2> HIDE DEF h
  <2> QED BY <1>1, <2>2, <2>3, <2>4, SimpleGood
<1> QED BY <1>2, <1>3, <1>4, WaitGood DEF RemoteMenu

\* Every answer to a menu is good, and the remote of the entry is never taken back.
LEMMA MenuGood ==
  ASSUME NEW r, NEW f, Good(f, r), NEW g \in Menu(f)
  PROVE  Good(g, r) /\ (g.own \/ g.own = f.own)
<1>1. {"pair", "tools", "manual", "listen_raw", "aborted"} \subseteq Simple
  BY DEF Simple, Pages, FoundPages, BlinkPages, EndPages
<1>2. "wait_config" \in FoundPages BY DEF FoundPages
<1>3. "blink" \in Pages \ (FoundPages \cup EndPages) BY DEF Pages, FoundPages, EndPages
<1>4. f.page \notin {"config_technical", "config_entities"} BY DEF Menu
<1>5. Ready(f, r) BY <1>4, GoodIsReady
<1>6. \A page \in {"pair", "tools", "manual", "listen_raw", "aborted"} :
        Good(Goto(f, page), r) /\ Goto(f, page).own = f.own
  BY <1>1, <1>5, SimpleGood
<1>7. Good(Wait(f, "wait_config"), r) /\ Wait(f, "wait_config").own = f.own
  BY <1>2, <1>5, WaitGood
<1>8. CASE f.page \in {"user", "tools", "listen_raw_res", "no_config"}
  BY <1>6, <1>7, <1>8 DEF Menu
<1>9. CASE f.page = "confirm_pair"
  <2>1. f.first \in Found(f.confs) /\ f.idx \in 1 .. Len(SelectedConfs(f))
    BY <1>9 DEF Good, Selection, BlinkPages
  <2>2. Good(Goto(f, "blink"), r) /\ Goto(f, "blink").own = f.own
    BY <1>3, <1>5, <2>1, GotoGood
  <2> QED BY <1>6, <1>9, <2>2 DEF Menu
<1>10. CASE f.page = "confirm" BY <1>10, ConfirmMenuGood DEF Menu
<1>11. CASE f.page = "configure" BY <1>5, <1>11, ConfigureMenuGood DEF Menu
<1>12. CASE f.page = "config_remote" BY <1>5, <1>12, RemoteMenuGood DEF Menu
<1>13. f.page \in {"user", "tools", "listen_raw_res", "no_config", "confirm_pair", "confirm",
                   "configure", "config_remote"}
  BY DEF Menu
<1> QED BY <1>8, <1>9, <1>10, <1>11, <1>12, <1>13

\* So is every answer to a form.
LEMMA FormGood ==
  ASSUME NEW r, NEW f, Good(f, r), NEW g \in Form(f)
  PROVE  Good(g, r) /\ g.own = f.own
<1>1. {"blink", "wait_pair"} \subseteq BlinkPages BY DEF BlinkPages
<1>2. CASE f.page = "manual"
  <2>1. PICK a \in Adapters, c \in Conf :
          g = Goto(Handler(f, [EmptyConfs EXCEPT ![a] = <<c>>], a), "blink")
    BY <1>2 DEF Form, ManualForm
  <2>2. <<c>> \in Seq(Conf) /\ <<c>> # <<>> OBVIOUS
  <2>3. Ready(f, r) BY <1>2, GoodIsReady
  <2> QED BY <1>1, <2>1, <2>2, <2>3, HandlerGood
<1>3. CASE f.page = "pair"
  <2>1. PICK a \in Adapters, s \in PhoneApps :
          g = Goto(Handler(f, [EmptyConfs EXCEPT ![a] = s], a), "wait_pair")
    BY <1>3 DEF Form, PairForm
  <2>2. s \in Seq(Conf) /\ s # <<>> BY FlowAssumption
  <2>3. Ready(f, r) BY <1>3, GoodIsReady
  <2> QED BY <1>1, <2>1, <2>2, <2>3, HandlerGood
<1>4. CASE f.page = "choose_adapter"
  <2>1. PICK a \in Found(f.confs) : g = Goto([f EXCEPT !.adapter = a, !.idx = 1], "blink")
    BY <1>4 DEF Form, AdapterForm
  <2> DEFINE h == [f EXCEPT !.adapter = a, !.idx = 1]
  <2>2. Ready(f, r) /\ f.first \in Found(f.confs) /\ a \in Adapters
    BY <1>4, <2>1, GoodIsReady DEF Good, Selection, Found
  <2>3. /\ h \in Flow /\ h.data = f.data /\ h.confs = f.confs /\ h.first = f.first
        /\ h.idx = 1 /\ h.own = f.own
    BY <2>2 DEF Ready, Flow
  <2>4. Ready(h, r) /\ h.confs \in Confs BY <2>2, <2>3 DEF Ready, Flow
  <2>7. g = Goto(h, "blink") BY <2>1
  <2> HIDE DEF h
  <2>5. h.idx \in 1 .. Len(SelectedConfs(h)) BY <2>2, <2>3, <2>4, FirstIsThere
  <2>6. "blink" \in Pages \ (FoundPages \cup EndPages) BY DEF Pages, FoundPages, EndPages
  <2> QED BY <2>2, <2>3, <2>4, <2>5, <2>6, <2>7, GotoGood
<1>5. CASE f.page = "config_entities"
  <2>1. f \in Flow /\ f.data.adapter BY <1>5 DEF Good, Kept
  <2>2. CASE g = [f EXCEPT !.data.ents = None]
    <3>1. g \in Flow /\ g.page = "config_entities" /\ g.data.adapter = f.data.adapter /\ g.own = f.own
      BY <1>5, <2>1, <2>2 DEF Flow, Data, ASet
    <3> QED BY <2>1, <3>1 DEF Good, Selection, Kept, FoundPages, BlinkPages, EndPages
  <2> DEFINE h == [f EXCEPT !.data.ents = f.data.set]
  <2>3. /\ h \in Flow /\ h.data.adapter = f.data.adapter /\ h.data.ents = f.data.set
        /\ h.data.set = f.data.set /\ h.own = f.own
    BY <2>1 DEF Flow, Data
  <2>4. Ready(h, r) BY <2>1, <2>3 DEF Ready, Reviewed
  <2>5. g = [f EXCEPT !.data.ents = None] \/ g = Finalize(h) \/ g = Goto(h, "configure")
    BY <1>5 DEF Form, EntitiesForm
  <2> HIDE DEF h
  <2>6. "configure" \in Simple BY DEF Simple, Pages, FoundPages, BlinkPages, EndPages
  <2> QED BY <2>2, <2>3, <2>4, <2>5, <2>6, FinalizeGood, SimpleGood
<1>6. CASE f.page = "finalize"
  <2>1. g = Goto(f, "created") BY <1>6 DEF Form
  <2>2. "created" \in Pages \ (FoundPages \cup BlinkPages \cup {"choose_adapter"})
    BY DEF Pages, FoundPages, BlinkPages
  <2>3. Ready(f, r) /\ HasOneEntity(f) BY <1>6, GoodIsReady DEF Good, Kept, EndPages
  <2> QED BY <2>1, <2>2, <2>3, GotoGood
<1>7. f.page \in {"manual", "pair", "choose_adapter", "config_entities", "finalize"} BY DEF Form
<1> QED BY <1>2, <1>3, <1>4, <1>5, <1>6, <1>7

-----------------------------------------------------------------------------
(***************************************************************************)
(* The steps.                                                              *)
(***************************************************************************)

\* A page that waits for no configuration has no listening to keep.
LEMMA NoListening ==
  ASSUME flow'.page \notin FoundPages
  PROVE  Listening' /\ NothingMissed'
BY DEF Listening, NothingMissed, FoundPages

\* The step to a page starts its listening.
LEMMA EnterStep ==
  ASSUME FlowInv, NEW g, Good(g, refused), Enter(g), other' = other
  PROVE  /\ flow' = g
         /\ left' \in Nat /\ alone' \in BOOLEAN /\ due' \subseteq Adapters \X Conf
         /\ coord' \in [left : Nat, heard : Seq(Adapters \X Conf), recent : SUBSET Conf]
         /\ Listening' /\ NothingMissed'
<1>1. flow' = g /\ g.page \in Pages BY DEF Enter, Good, Flow
<1>2. FoundPages \subseteq WaitPages BY DEF FoundPages, WaitPages
<1>3. CASE g.page \notin WaitPages
  BY <1>1, <1>2, <1>3, NoListening DEF Enter, FlowInv, TypeOK
<1>4. CASE g.page \in WaitPages
  <2>1. /\ left' = MaxWait /\ coord' = StartListening(Duration(g.page))
        /\ alone' = (other = 0) /\ due' = {}
    BY <1>4 DEF Enter
  <2>2. MaxWait \in Nat /\ Agg \in Nat BY FlowAssumption
  <2>3. Duration(g.page) \in Nat /\ MaxWait <= Duration(g.page)
        /\ (g.page = "wait_config" => Duration(g.page) = MaxWait + Agg)
    BY <2>2 DEF Duration
  <2>4. <<>> \in Seq(Adapters \X Conf) OBVIOUS
  <2>5. /\ coord' \in [left : Nat, heard : Seq(Adapters \X Conf), recent : SUBSET Conf]
        /\ coord'.left = Duration(g.page)
    BY <2>1, <2>3, <2>4 DEF StartListening, FlowInv, TypeOK
  <2>6. Listening'
    <3>1. alone' => other' = 0 BY <2>1
    <3>2. left' <= coord'.left BY <2>1, <2>3, <2>5
    <3>3. flow'.page = "wait_config" => left' + Agg <= coord'.left BY <1>1, <2>1, <2>2, <2>3, <2>5
    <3> QED BY <3>1, <3>2, <3>3 DEF Listening
  <2>7. NothingMissed' BY <2>1 DEF NothingMissed
  <2> QED BY <1>1, <2>1, <2>2, <2>5, <2>6, <2>7
<1> QED BY <1>3, <1>4

\* The data of an entry with another set for its remote.
LEMMA WithSet ==
  ASSUME NEW d \in Data, NEW s \in Sets \cup {None}
  PROVE  /\ [d EXCEPT !.remote.set = s] \in Data
         /\ [d EXCEPT !.remote.set = s].adapter = d.adapter
         /\ [d EXCEPT !.remote.set = s].ents = d.ents
         /\ [d EXCEPT !.remote.set = s].set = d.set
         /\ \A t : [[d EXCEPT !.remote.set = s] EXCEPT !.remote.set = t] = [d EXCEPT !.remote.set = t]
BY DEF Data, Remote

LEMMA SameSet ==
  ASSUME NEW d \in Data
  PROVE  d.remote.set \in Sets \cup {None} /\ d = [d EXCEPT !.remote.set = d.remote.set]
BY DEF Data, Remote

\* The entry is created or updated with the data of a flow that ends well.
LEMMA UpdateEntryStep ==
  ASSUME FlowInv, NEW g, Good(g, refused), UpdateEntry(g), flow' = g,
         g.own \/ g.own = flow.own, refused' = refused
  PROVE  live' \in Data /\ disk' \in Data /\ EntryKept'
<1>1. CASE g.page \in {"created", "reconfigured"} /\ g.data # live
  <2>1. live' = g.data /\ disk' = g.data BY <1>1 DEF UpdateEntry
  <2>2. g.data \in Data /\ g.data.adapter /\ (~ refused => Reviewed(g.data))
    BY <1>1 DEF Good, Flow, Kept
  <2>3. g.data # NoData BY <2>2, NoDataType
  <2>4. \E s \in Sets \cup {None} : disk' = [live' EXCEPT !.remote.set = s]
    BY <2>1, <2>2, SameSet
  <2> QED BY <2>1, <2>2, <2>3, <2>4 DEF EntryKept
<1>2. CASE ~ (g.page \in {"created", "reconfigured"} /\ g.data # live)
  <2>1. live' = live /\ disk' = disk BY <1>2 DEF UpdateEntry, entry
  <2> QED BY <2>1 DEF FlowInv, TypeOK, EntryKept
<1> QED BY <1>1, <1>2

\* A step that leaves the entry, to a flow with its own remote or the same.
LEMMA EntryUnchanged ==
  ASSUME FlowInv, UNCHANGED entry, refused' \in BOOLEAN, refused => refused',
         flow'.own \/ flow'.own = flow.own
  PROVE  live' \in Data /\ disk' \in Data /\ EntryKept'
BY DEF FlowInv, TypeOK, EntryKept, entry

LEMMA StartStep ==
  ASSUME FlowInv, Start
  PROVE  FlowInv'
<1> DEFINE n(source) == NewFlow(source)
<1>1. \A source \in {"none", "user", "reconfigure"} :
        /\ n(source) \in Flow /\ n(source).data = NewData(DefSet) /\ n(source).own
        /\ n(source).page = "start"
  BY NewDataType, EmptyConfsType DEF NewFlow, Flow, Pages, ASet
<1> HIDE DEF n
<1>2. NewData(DefSet).adapter /\ Reviewed(NewData(DefSet)) BY NewDataType DEF Reviewed, ASet
<1>3. {"user", "configure"} \subseteq Simple BY DEF Simple, Pages, FoundPages, BlinkPages, EndPages
<1>4. Good(flow', refused) /\ (flow'.own \/ live # NoData) /\ flow'.page \in {"user", "configure"}
  <2>1. CASE flow' = Goto(n("user"), "user")
    <3>1. Ready(n("user"), refused) BY <1>1, <1>2 DEF Ready
    <3>2. n("user").own BY <1>1
    <3>3. Good(flow', refused) /\ flow'.own BY <1>3, <2>1, <3>1, <3>2, SimpleGood
    <3>4. flow'.page = "user" BY <1>1, <2>1, GotoType DEF Pages
    <3> QED BY <3>3, <3>4
  <2>2. CASE live # NoData /\ flow' = [Goto(n("reconfigure"), "configure") EXCEPT !.data = live, !.own = FALSE]
    <3> DEFINE h == Goto(n("reconfigure"), "configure")
    <3>1. h \in Flow /\ h.page = "configure" BY <1>1, GotoType DEF Pages
    <3> HIDE DEF h
    <3>2. flow' = [h EXCEPT !.data = live, !.own = FALSE] BY <2>2 DEF h
    <3>3. flow' \in Flow /\ flow'.page = "configure" /\ flow'.data = live
      BY <3>1, <3>2 DEF Flow, FlowInv, TypeOK
    <3>4. Selection(flow') BY <3>3 DEF Selection, FoundPages, BlinkPages
    <3>5. Kept(flow', refused) BY <2>2, <3>3 DEF Kept, FlowInv, EntryKept, EndPages
    <3> QED BY <2>2, <3>3, <3>4, <3>5 DEF Good
  <2> QED BY <2>1, <2>2 DEF Start, n
<1>5. Listening' /\ NothingMissed' BY <1>4, NoListening DEF FoundPages
<1>6. EntryKept' BY <1>4 DEF Start, FlowInv, EntryKept, entry
<1>7. TypeOK' BY <1>4 DEF Start, FlowInv, TypeOK, Good, entry
<1> QED BY <1>4, <1>5, <1>6, <1>7 DEF FlowInv, Start

\* The answers to the menus and the forms.
LEMMA AnswerStep ==
  ASSUME FlowInv, NEW g, Good(g, refused), g.own \/ g.own = flow.own,
         Enter(g), UpdateEntry(g), UNCHANGED <<other, refused>>
  PROVE  FlowInv'
<1>1. /\ flow' = g
      /\ left' \in Nat /\ alone' \in BOOLEAN /\ due' \subseteq Adapters \X Conf
      /\ coord' \in [left : Nat, heard : Seq(Adapters \X Conf), recent : SUBSET Conf]
      /\ Listening' /\ NothingMissed'
  BY EnterStep
<1>2. live' \in Data /\ disk' \in Data /\ EntryKept' BY <1>1, UpdateEntryStep
<1>3. TypeOK' BY <1>1, <1>2 DEF TypeOK, FlowInv, Good
<1> QED BY <1>1, <1>2, <1>3 DEF FlowInv

LEMMA SubmitRemoteStep ==
  ASSUME FlowInv, SubmitRemote
  PROVE  FlowInv'
<1>1. PICK s \in Sets :
        /\ flow' = Goto([flow EXCEPT !.data.remote.set = s], "configure")
        /\ live' = IF flow.own THEN live ELSE [live EXCEPT !.remote.set = s]
  BY DEF SubmitRemote
<1>2. flow.page = "config_remote_update" /\ UNCHANGED <<left, coord, other, disk, alone, due, refused>>
  BY DEF SubmitRemote
<1>3. flow \in Flow /\ flow.data \in Data /\ live \in Data /\ disk \in Data /\ s \in Sets \cup {None}
  BY DEF FlowInv, TypeOK, Flow
<1>4. Ready(flow, refused) BY <1>2, GoodIsReady DEF FlowInv
<1> DEFINE h == [flow EXCEPT !.data.remote.set = s]
           d == [flow.data EXCEPT !.remote.set = s]
<1>5. h = [flow EXCEPT !.data = d] BY <1>3 DEF Flow, Data, Remote
<1>6. d \in Data /\ d.adapter = flow.data.adapter /\ d.ents = flow.data.ents /\ d.set = flow.data.set
  BY <1>3, WithSet
<1>7. flow' = Goto(h, "configure") BY <1>1
<1> HIDE DEF h, d
<1>8. h \in Flow /\ h.data = d /\ h.own = flow.own BY <1>3, <1>5, <1>6 DEF Flow
<1>9. Ready(h, refused) BY <1>4, <1>6, <1>8 DEF Ready, Reviewed
<1>10. "configure" \in Simple BY DEF Simple, Pages, FoundPages, BlinkPages, EndPages
<1>11. Good(flow', refused) /\ flow'.own = flow.own BY <1>7, <1>8, <1>9, <1>10, SimpleGood
<1>12. flow'.page = "configure" BY <1>7, <1>8, GotoType DEF Pages
<1>13. Listening' /\ NothingMissed' BY <1>12, NoListening DEF FoundPages
<1>14. live' \in Data /\ EntryKept'
  <2>1. CASE flow.own BY <1>1, <1>2, <1>3, <1>11, <2>1 DEF FlowInv, EntryKept
  <2>2. CASE ~ flow.own
    <3>1. live' = [live EXCEPT !.remote.set = s] BY <1>1, <2>2
    <3>2. live # NoData /\ live.adapter BY <2>2 DEF FlowInv, EntryKept
    <3>3. /\ live' \in Data /\ live'.adapter = live.adapter /\ live'.ents = live.ents
          /\ live'.set = live.set
          /\ \A t : [live' EXCEPT !.remote.set = t] = [live EXCEPT !.remote.set = t]
      BY <1>3, <3>1, WithSet
    <3>4. live' # NoData BY <3>2, <3>3, NoDataType
    <3>5. \E t \in Sets \cup {None} : disk' = [live' EXCEPT !.remote.set = t]
      BY <1>2, <3>3 DEF FlowInv, EntryKept
    <3>6. ~ refused' => Reviewed(live') /\ Reviewed(disk')
      BY <1>2, <3>3 DEF FlowInv, EntryKept, Reviewed
    <3> QED BY <3>2, <3>3, <3>4, <3>5, <3>6 DEF EntryKept
  <2> QED BY <2>1, <2>2 DEF FlowInv, TypeOK, Flow
<1>15. TypeOK' BY <1>2, <1>11, <1>14 DEF FlowInv, TypeOK, Good
<1> QED BY <1>2, <1>11, <1>13, <1>14, <1>15 DEF FlowInv

LEMMA SubmitTechnicalStep ==
  ASSUME FlowInv, SubmitTechnical
  PROVE  FlowInv'
<1>1. PICK s \in Sets, some \in BOOLEAN :
        /\ flow' = Technical(flow, s, some)
        /\ refused' = (refused \/ (~some /\ s # flow.data.set))
  BY DEF SubmitTechnical
<1>2. flow.page = "config_technical" /\ UNCHANGED <<left, coord, other, entry, alone, due>>
  BY DEF SubmitTechnical
<1>3. flow \in Flow /\ refused \in BOOLEAN BY DEF FlowInv, TypeOK
<1> DEFINE page == IF ~some THEN flow.page ELSE IF s # flow.data.set THEN "config_entities" ELSE "configure"
<1>4. page \in {"config_technical", "config_entities", "configure"} BY <1>2
<1>5. /\ flow' \in Flow /\ flow'.page = page /\ flow'.data.ents = flow.data.ents
      /\ flow'.data.set = s /\ flow'.data.adapter = some /\ flow'.own = flow.own
  BY <1>1, <1>2, <1>3 DEF Technical, Flow, Data, Pages, ASet
<1>6. Selection(flow') BY <1>4, <1>5 DEF Selection, FoundPages, BlinkPages
<1>7. Kept(flow', refused')
  <2>1. ~ refused => Reviewed(flow.data) BY <1>2 DEF FlowInv, Good, Kept
  <2>2. page # "config_technical" => some BY <1>2
  <2>3. ~ refused' /\ page # "config_entities" => s = flow.data.set BY <1>1
  <2> QED BY <1>1, <1>4, <1>5, <2>1, <2>2, <2>3 DEF Kept, Reviewed, EndPages
<1>8. Listening' /\ NothingMissed' BY <1>4, <1>5, NoListening DEF FoundPages
<1>9. refused' \in BOOLEAN /\ (refused => refused') BY <1>1
<1>10. live' \in Data /\ disk' \in Data /\ EntryKept' BY <1>2, <1>5, <1>9, EntryUnchanged
<1>11. TypeOK' BY <1>2, <1>5, <1>9, <1>10 DEF FlowInv, TypeOK
<1> QED BY <1>5, <1>6, <1>7, <1>8, <1>10, <1>11 DEF FlowInv, Good

\* What the page found so far holds what was pressed in time, or will.
LEMMA EvaluateStep ==
  ASSUME FlowInv, Evaluate
  PROVE  FlowInv'
<1> DEFINE w == flow.page = "wait_config"
           confs == AddAll(flow.confs, coord.heard, w)
           first == IF flow.agg THEN flow.first ELSE Head(coord.heard)[1]
<1>1. /\ flow.page \in FoundPages /\ left > 0 /\ coord.heard # <<>>
      /\ flow' = [flow EXCEPT !.confs = confs, !.first = first, !.agg = TRUE]
      /\ left' = StopTime /\ coord' = [coord EXCEPT !.heard = <<>>]
      /\ UNCHANGED <<other, entry, aux>>
  BY DEF Evaluate, WaitPages, FoundPages
<1>2. /\ flow \in Flow /\ flow.confs \in Confs /\ coord.heard \in Seq(Adapters \X Conf)
      /\ w \in BOOLEAN /\ flow.agg \in BOOLEAN
  BY DEF FlowInv, TypeOK, Flow
<1>3. /\ confs \in Confs
      /\ \A q \in Adapters \X Conf : Has(flow.confs, q) => Has(confs, q)
      /\ \A i \in DOMAIN coord.heard : Has(confs, coord.heard[i])
  BY <1>2, AddAllKeeps
<1>4. first \in Found(confs)
  <2>1. CASE flow.agg
    <3>1. flow.first \in Found(flow.confs) BY <1>1, <2>1 DEF FlowInv, Good, Selection
    <3>2. flow.first \in Adapters /\ flow.confs[flow.first] \in Seq(Conf)
          /\ flow.confs[flow.first] # <<>>
      BY <1>2, <3>1 DEF Found, Confs
    <3>3. 1 \in DOMAIN flow.confs[flow.first] /\ flow.confs[flow.first][1] \in Conf BY <3>2
    <3>4. Has(flow.confs, <<flow.first, flow.confs[flow.first][1]>>) BY <3>3 DEF Has
    <3>5. Has(confs, <<flow.first, flow.confs[flow.first][1]>>) BY <1>3, <3>2, <3>3, <3>4
    <3> QED BY <2>1, <3>2, <3>5 DEF Has, Found
  <2>2. CASE ~ flow.agg
    <3>1. 1 \in DOMAIN coord.heard /\ Head(coord.heard) = coord.heard[1] BY <1>1, <1>2
    <3>2. coord.heard[1] \in Adapters \X Conf BY <1>2, <3>1
    <3>3. Has(confs, coord.heard[1]) BY <1>3, <3>1
    <3> HIDE DEF confs
    <3>4. confs[coord.heard[1][1]] # <<>> BY <3>3 DEF Has
    <3> QED BY <2>2, <3>1, <3>2, <3>4 DEF Found
  <2> QED BY <2>1, <2>2
<1>5. first \in Adapters BY <1>4 DEF Found
<1> HIDE DEF confs, first, w
<1>6. /\ flow' \in Flow /\ flow'.page = flow.page /\ flow'.confs = confs /\ flow'.first = first
      /\ flow'.agg /\ flow'.idx = flow.idx /\ flow'.data = flow.data /\ flow'.own = flow.own
  BY <1>1, <1>2, <1>3, <1>5 DEF Flow
<1>7. Good(flow', refused)
  <2>1. Selection(flow')
    BY <1>1, <1>4, <1>6 DEF Selection, FoundPages, BlinkPages, FlowInv, Good
  <2>2. Kept(flow', refused) BY <1>6 DEF FlowInv, Good, Kept, HasOneEntity
  <2> QED BY <1>6, <2>1, <2>2 DEF Good
<1>8. coord' \in [left : Nat, heard : Seq(Adapters \X Conf), recent : SUBSET Conf]
      /\ coord'.left = coord.left
  <2>1. <<>> \in Seq(Adapters \X Conf) OBVIOUS
  <2> QED BY <1>1, <2>1 DEF FlowInv, TypeOK
<1>9. Agg \in Nat /\ left \in Nat /\ coord.left \in Nat BY FlowAssumption DEF FlowInv, TypeOK
<1>10. left' \in Nat BY <1>1, <1>9 DEF StopTime
<1>11. Listening'
  <2> SUFFICES ASSUME alone PROVE other' = 0 /\ left' <= coord'.left
    BY <1>1, <1>6 DEF Listening, aux
  <2>1. /\ other = 0 /\ left <= coord.left
        /\ flow.page = "wait_config" /\ ~ flow.agg => left + Agg <= coord.left
    BY <1>1 DEF FlowInv, Listening
  <2> QED BY <1>1, <1>8, <1>9, <2>1 DEF StopTime
<1>12. NothingMissed'
  <2> SUFFICES ASSUME alone, NEW p \in due PROVE Has(confs, p) /\ p \in Adapters \X Conf
    BY <1>1, <1>6 DEF NothingMissed, Got, aux
  <2>1. p \in Adapters \X Conf BY DEF FlowInv, TypeOK
  <2>2. Has(flow.confs, p) \/ \E i \in DOMAIN coord.heard : coord.heard[i] = p
    BY <1>1 DEF FlowInv, NothingMissed, Got, FoundPages
  <2> QED BY <1>3, <2>1, <2>2
<1>13. live' \in Data /\ disk' \in Data /\ EntryKept'
  BY <1>1, <1>6, EntryUnchanged DEF aux, FlowInv, TypeOK
<1>14. TypeOK' BY <1>1, <1>6, <1>8, <1>10, <1>13 DEF FlowInv, TypeOK, aux
<1> QED BY <1>1, <1>7, <1>11, <1>12, <1>13, <1>14 DEF FlowInv, aux

\* A step of the flow to a page that does not wait, listening being over or going on for
\* nobody.
LEMMA LeaveStep ==
  ASSUME FlowInv, Good(flow', refused), flow'.page \notin FoundPages,
         flow'.own \/ flow'.own = flow.own,
         left' \in Nat, alone' \in BOOLEAN, due' \subseteq Adapters \X Conf,
         coord' \in [left : Nat, heard : Seq(Adapters \X Conf), recent : SUBSET Conf],
         UNCHANGED <<other, entry, refused>>
  PROVE  FlowInv'
<1>1. Listening' /\ NothingMissed' BY NoListening
<1>2. live' \in Data /\ disk' \in Data /\ EntryKept' BY EntryUnchanged DEF FlowInv, TypeOK
<1>3. TypeOK' BY <1>2 DEF FlowInv, TypeOK, Good
<1> QED BY <1>1, <1>2, <1>3 DEF FlowInv

LEMMA NoPageWaitsType ==
  ASSUME FlowInv, NoPageWaits
  PROVE  /\ coord' \in [left : Nat, heard : Seq(Adapters \X Conf), recent : SUBSET Conf]
         /\ alone' \in BOOLEAN /\ due' \subseteq Adapters \X Conf
<1>1. <<>> \in Seq(Adapters \X Conf) OBVIOUS
<1> QED BY <1>1 DEF NoPageWaits, StartListening, FlowInv, TypeOK

LEMMA WaitEndsStep ==
  ASSUME FlowInv, ListenRawEnds \/ WaitConfigEnds \/ WaitRemoteEnds
  PROVE  FlowInv'
<1>1. /\ NoPageWaits /\ UNCHANGED <<left, other, entry, refused>>
      /\ flow.page \in {"listen_raw", "wait_config", "wait_config_remote"}
  BY DEF ListenRawEnds, WaitConfigEnds, WaitRemoteEnds, WaitEnds
<1>2. Ready(flow, refused) BY <1>1, GoodIsReady DEF FlowInv
<1>3. {"listen_raw_res", "no_config", "configure"} \subseteq Simple
  BY DEF Simple, Pages, FoundPages, BlinkPages, EndPages
<1>4. \A page \in {"listen_raw_res", "no_config", "configure"} :
        /\ Good(Goto(flow, page), refused) /\ Goto(flow, page).own = flow.own
        /\ Goto(flow, page).page = page
  BY <1>2, <1>3, SimpleGood, GotoType DEF Simple, Ready
<1>5. flow.page \in FoundPages /\ Found(flow.confs) # {} =>
        flow.first \in Found(flow.confs) /\ flow.idx = 1
  BY <1>2 DEF FlowInv, Good, Selection, Ready, Flow
<1>6. /\ Good(flow', refused) /\ (flow'.own \/ flow'.own = flow.own)
      /\ flow'.page \notin FoundPages
  <2>1. CASE ListenRawEnds
    BY <1>4, <2>1 DEF ListenRawEnds, WaitEnds, FoundPages
  <2>2. CASE WaitConfigEnds
    <3>1. CASE Found(flow.confs) = {}
      BY <1>4, <2>2, <3>1 DEF WaitConfigEnds, WaitEnds, FoundPages
    <3>2. CASE Found(flow.confs) # {}
      <4>1. flow' = ChooseAdapter(flow) /\ flow.page \in FoundPages
        BY <2>2, <3>2 DEF WaitConfigEnds, WaitEnds, FoundPages
      <4>2. Good(flow', refused) /\ flow'.own = flow.own
        BY <1>2, <1>5, <3>2, <4>1, ChooseAdapterGood
      <4>3. flow'.page \in {"blink", "choose_adapter"}
        BY <1>2, <4>1, GotoType DEF ChooseAdapter, Ready, Pages
      <4> QED BY <4>2, <4>3 DEF FoundPages
    <3> QED BY <3>1, <3>2
  <2>3. CASE WaitRemoteEnds
    <3>1. CASE Found(flow.confs) = {}
      BY <1>4, <2>3, <3>1 DEF WaitRemoteEnds, WaitEnds, FoundPages
    <3>2. CASE Found(flow.confs) # {}
      <4> DEFINE remote == [conf |-> Selected(flow), set |-> None]
                 h == [flow EXCEPT !.own = TRUE, !.data.remote = remote]
      <4>1. flow' = Goto(Handler(h, EmptyConfs, None), "config_remote_update")
            /\ flow.page \in FoundPages
        BY <2>3, <3>2 DEF WaitRemoteEnds, WaitEnds, FoundPages
      <4>2. Selected(flow) \in Conf
        BY <1>2, <3>2, <4>1, SelectedType DEF FlowInv, Good, Ready
      <4>3. remote \in Remote BY <4>2 DEF Remote
      <4> HIDE DEF remote
      <4>4. /\ h \in Flow /\ h.own /\ h.data.adapter = flow.data.adapter
            /\ h.data.ents = flow.data.ents /\ h.data.set = flow.data.set
        BY <1>2, <4>3 DEF Ready, Flow, Data
      <4>5. Ready(h, refused) BY <1>2, <4>4 DEF Ready, Reviewed
      <4> HIDE DEF h
      <4>6. Good(flow', refused) /\ flow'.own /\ flow'.page = "config_remote_update"
        BY <4>1, <4>4, <4>5, ForgetGood
      <4> QED BY <4>6 DEF FoundPages
    <3> QED BY <3>1, <3>2
  <2> QED BY <2>1, <2>2, <2>3
<1>7. left' \in Nat BY <1>1 DEF FlowInv, TypeOK
<1> QED BY <1>1, <1>6, <1>7, NoPageWaitsType, LeaveStep

LEMMA ProgressEndsStep ==
  ASSUME FlowInv, BlinkEnds \/ PairEnds
  PROVE  FlowInv'
<1>1. PICK page \in {"confirm", "confirm_pair"} :
        /\ flow.page \in {"blink", "wait_pair"}
        /\ flow' = Goto(flow, page)
        /\ UNCHANGED <<left, coord, other, entry, aux>>
  BY DEF BlinkEnds, PairEnds
<1>2. Ready(flow, refused) BY <1>1, GoodIsReady DEF FlowInv
<1>3. flow.first \in Found(flow.confs) /\ flow.idx \in 1 .. Len(SelectedConfs(flow))
  BY <1>1 DEF FlowInv, Good, Selection, BlinkPages
<1>4. page \in Pages \ (FoundPages \cup EndPages) BY DEF Pages, FoundPages, EndPages
<1>5. Good(flow', refused) /\ flow'.own = flow.own /\ flow'.page = page
  BY <1>1, <1>2, <1>3, <1>4, GotoGood
<1>6. flow'.page \notin FoundPages BY <1>4, <1>5
<1> QED BY <1>1, <1>5, <1>6, LeaveStep DEF FlowInv, TypeOK, aux

\* A flow that has not started.
LEMMA NewFlowGood ==
  ASSUME NEW r
  PROVE  Good(NewFlow("none"), r) /\ NewFlow("none").own /\ NewFlow("none").page = "start"
<1> DEFINE n == NewFlow("none")
<1>1. n \in Flow /\ n.data = NewData(DefSet) /\ n.own /\ n.page = "start"
  BY NewDataType, EmptyConfsType DEF NewFlow, Flow, Pages, ASet
<1> HIDE DEF n
<1>2. NewData(DefSet).adapter /\ Reviewed(NewData(DefSet)) BY NewDataType DEF Reviewed, ASet
<1>3. Selection(n) BY <1>1 DEF Selection, FoundPages, BlinkPages
<1>4. Kept(n, r) BY <1>1, <1>2 DEF Kept, EndPages
<1> QED BY <1>1, <1>3, <1>4 DEF Good, n

LEMMA CloseFlowStep ==
  ASSUME FlowInv, CloseFlow
  PROVE  FlowInv'
<1> DEFINE n == NewFlow("none")
<1>1. flow' = Goto(n, "closed") /\ left' = 0 /\ NoPageWaits /\ UNCHANGED <<other, entry, refused>>
  BY DEF CloseFlow
<1>2. Ready(n, refused) /\ n.own BY NewFlowGood, GoodIsReady
<1>3. "closed" \in Simple BY DEF Simple, Pages, FoundPages, BlinkPages, EndPages
<1> HIDE DEF n
<1>4. Good(flow', refused) /\ flow'.own BY <1>1, <1>2, <1>3, SimpleGood
<1>5. flow'.page \notin FoundPages BY <1>1, <1>2, GotoType DEF Ready, Pages, FoundPages
<1> QED BY <1>1, <1>4, <1>5, NoPageWaitsType, LeaveStep

\* A step of the others leaves the flow as good as it was.
LEMMA OthersStep ==
  ASSUME FlowInv, flow' = flow, refused' = refused, UNCHANGED entry,
         left' \in Nat, other' \in Nat, alone' \in BOOLEAN, due' \subseteq Adapters \X Conf,
         coord' \in [left : Nat, heard : Seq(Adapters \X Conf), recent : SUBSET Conf],
         Listening', NothingMissed'
  PROVE  FlowInv'
<1>1. live' \in Data /\ disk' \in Data /\ EntryKept' BY EntryUnchanged DEF FlowInv, TypeOK
<1>2. TypeOK' BY <1>1 DEF FlowInv, TypeOK
<1> QED BY <1>1, <1>2 DEF FlowInv

\* What is pressed in time while a page waits is in the list of the coordinator.
LEMMA PressStep ==
  ASSUME FlowInv, NEW p \in Presses, Press(p[1], p[2])
  PROVE  FlowInv'
<1>1. p \in Adapters \X Conf /\ p = <<p[1], p[2]>> BY FlowAssumption
<1>2. UNCHANGED <<flow, left, other, entry, alone, refused>> BY DEF Press
<1> DEFINE heard == IF coord.left = 0 \/ \E i \in DOMAIN coord.heard : coord.heard[i] = p
                    THEN coord.heard ELSE Append(coord.heard, p)
           taken == p[2] \notin coord.recent
<1>3. /\ coord.heard \in Seq(Adapters \X Conf) /\ coord.left \in Nat /\ left \in Nat
      /\ coord \in [left : Nat, heard : Seq(Adapters \X Conf), recent : SUBSET Conf]
  BY DEF FlowInv, TypeOK
<1>4. coord' = IF taken THEN [coord EXCEPT !.heard = heard, !.recent = @ \cup ({p[2]} \cap Repeated)]
               ELSE coord
  BY <1>1 DEF Press
<1>5. /\ heard \in Seq(Adapters \X Conf)
      /\ \A q : (\E i \in DOMAIN coord.heard : coord.heard[i] = q)
                  => \E i \in DOMAIN heard : heard[i] = q
      /\ coord.left # 0 => \E i \in DOMAIN heard : heard[i] = p
  <2>1. CASE heard = coord.heard BY <1>3, <2>1
  <2>2. CASE heard = Append(coord.heard, p)
    <3>1. heard \in Seq(Adapters \X Conf) BY <1>1, <1>3, <2>2
    <3>2. Len(coord.heard) + 1 \in DOMAIN heard /\ heard[Len(coord.heard) + 1] = p BY <1>1, <1>3, <2>2
    <3>3. \A i \in DOMAIN coord.heard : i \in DOMAIN heard /\ heard[i] = coord.heard[i]
      BY <1>1, <1>3, <2>2
    <3> QED BY <3>1, <3>2, <3>3
  <2> QED BY <2>1, <2>2
<1> HIDE DEF heard
<1>6. /\ coord' \in [left : Nat, heard : Seq(Adapters \X Conf), recent : SUBSET Conf]
      /\ coord'.left = coord.left
      /\ coord'.heard = IF taken THEN heard ELSE coord.heard
  <2>1. {p[2]} \cap Repeated \subseteq Conf BY <1>1
  <2> QED BY <1>3, <1>4, <1>5, <2>1
<1>7. due' = IF flow.page \in WaitPages /\ left > 0 /\ taken THEN due \cup {p} ELSE due
  BY <1>1 DEF Press
<1>8. Listening' BY <1>2, <1>6 DEF FlowInv, Listening
<1>9. NothingMissed'
  <2> SUFFICES ASSUME flow.page \in FoundPages, alone, NEW q \in due'
               PROVE  q \in Got \/ (left > 0 /\ \E i \in DOMAIN coord'.heard : coord'.heard[i] = q)
    BY <1>2 DEF NothingMissed, Got, FoundPages
  <2>1. left <= coord.left BY DEF FlowInv, Listening
  <2>2. CASE q \in due
    <3>1. q \in Got \/ (left > 0 /\ \E i \in DOMAIN coord.heard : coord.heard[i] = q)
      BY <2>2 DEF FlowInv, NothingMissed, FoundPages
    <3> QED BY <1>5, <1>6, <3>1
  <2>3. CASE q \notin due
    <3>1. q = p /\ left > 0 /\ taken BY <1>7, <2>3
    <3> QED BY <1>3, <1>5, <1>6, <2>1, <3>1
  <2> QED BY <2>2, <2>3
<1>10. due' \subseteq Adapters \X Conf BY <1>1, <1>7 DEF FlowInv, TypeOK
<1> QED BY <1>2, <1>6, <1>8, <1>9, <1>10, OthersStep DEF FlowInv, TypeOK

\* The other pages only take what they wait for alone, and what is forgotten is not due.
LEMMA OtherPagesStep ==
  ASSUME FlowInv, (\E c \in Conf : Forget(c)) \/ OtherWaits \/ OtherEvaluates
  PROVE  FlowInv'
<1>1. UNCHANGED <<flow, left, entry, due, refused>>
  BY DEF Forget, OtherWaits, OtherEvaluates, aux
<1>2. <<>> \in Seq(Adapters \X Conf) /\ MaxWait \in Nat BY FlowAssumption
<1>3. /\ left' \in Nat /\ other' \in Nat /\ alone' \in BOOLEAN /\ due' \subseteq Adapters \X Conf
      /\ coord' \in [left : Nat, heard : Seq(Adapters \X Conf), recent : SUBSET Conf]
  BY <1>1, <1>2 DEF FlowInv, TypeOK, Forget, OtherWaits, OtherEvaluates, StartListening, aux
<1>4. Listening' /\ NothingMissed'
  <2>1. ASSUME NEW c \in Conf, Forget(c) PROVE Listening' /\ NothingMissed'
    <3>1. coord'.left = coord.left /\ coord'.heard = coord.heard /\ UNCHANGED <<other, alone>>
      BY <2>1 DEF Forget, FlowInv, TypeOK, aux
    <3> QED BY <1>1, <3>1 DEF FlowInv, Listening, NothingMissed, Got
  <2>2. CASE OtherWaits BY <2>2 DEF OtherWaits, Listening, NothingMissed
  <2>3. CASE OtherEvaluates
    <3>1. flow'.page \in FoundPages => ~ alone'
      BY <1>1, <2>3 DEF OtherEvaluates, FlowInv, TypeOK, Listening, aux
    <3> QED BY <3>1 DEF Listening, NothingMissed, FoundPages
  <2> QED BY <2>1, <2>2, <2>3
<1> QED BY <1>1, <1>3, <1>4, OthersStep

LEMMA TickStep ==
  ASSUME FlowInv, Tick
  PROVE  FlowInv'
<1>1. /\ flow.page \in FoundPages /\ left > 0 => coord.heard = <<>>
      /\ left' = Less(left) /\ other' = Less(other)
      /\ coord' = [coord EXCEPT !.left = Less(@)]
      /\ UNCHANGED <<flow, entry, aux>>
  BY DEF Tick, WaitPages, FoundPages
<1>2. left \in Nat /\ other \in Nat /\ coord.left \in Nat /\ Agg \in Nat
  BY FlowAssumption DEF FlowInv, TypeOK
<1>3. \A t \in Nat : Less(t) \in Nat /\ Less(t) <= t /\ (t # 0 => Less(t) = t - 1) BY DEF Less
<1>4. /\ coord' \in [left : Nat, heard : Seq(Adapters \X Conf), recent : SUBSET Conf]
      /\ coord'.left = Less(coord.left) /\ coord'.heard = coord.heard
  BY <1>1, <1>2, <1>3 DEF FlowInv, TypeOK
<1>5. Listening'
  <2> SUFFICES ASSUME flow.page \in FoundPages, alone
               PROVE  /\ other' = 0
                      /\ left' <= coord'.left
                      /\ flow.page = "wait_config" /\ ~ flow.agg /\ left' > 0
                           => left' + Agg <= coord'.left
    BY <1>1 DEF Listening, aux
  <2>1. /\ other = 0 /\ left <= coord.left
        /\ flow.page = "wait_config" /\ ~ flow.agg /\ left > 0 => left + Agg <= coord.left
    BY DEF FlowInv, Listening
  <2> QED BY <1>1, <1>2, <1>4, <2>1 DEF Less
<1>6. NothingMissed'
  <2> SUFFICES ASSUME flow.page \in FoundPages, alone, NEW q \in due
               PROVE  q \in Got
    BY <1>1 DEF NothingMissed, Got, FoundPages, aux
  <2>1. q \in Got \/ (left > 0 /\ \E i \in DOMAIN coord.heard : coord.heard[i] = q)
    BY DEF FlowInv, NothingMissed, FoundPages
  <2> QED BY <1>1, <2>1
<1> QED BY <1>1, <1>2, <1>3, <1>4, <1>5, <1>6, OthersStep DEF FlowInv, TypeOK, aux

LEMMA RestartStep ==
  ASSUME FlowInv, Restart
  PROVE  FlowInv'
<1>1. /\ flow' = NewFlow("none") /\ left' = 0 /\ other' = 0 /\ live' = disk /\ alone' = FALSE
      /\ coord' = [left |-> 0, heard |-> <<>>, recent |-> {}]
      /\ due' = {} /\ disk' = disk /\ refused' = refused
  BY DEF Restart
<1>2. Good(flow', refused) /\ flow'.own /\ flow'.page = "start" BY <1>1, NewFlowGood
<1>3. Listening' /\ NothingMissed' BY <1>2, NoListening DEF FoundPages
<1>4. live \in Data /\ disk \in Data BY DEF FlowInv, TypeOK
<1>5. PICK s \in Sets \cup {None} : disk = [live EXCEPT !.remote.set = s]
  BY DEF FlowInv, EntryKept
<1>6. disk # NoData => live # NoData /\ disk.adapter
  BY <1>4, <1>5, WithSet DEF FlowInv, EntryKept
<1>7. \E t \in Sets \cup {None} : disk = [disk EXCEPT !.remote.set = t] BY <1>4, SameSet
<1>8. EntryKept' BY <1>1, <1>2, <1>6, <1>7 DEF FlowInv, EntryKept
<1>9. <<>> \in Seq(Adapters \X Conf) OBVIOUS
<1>10. TypeOK' BY <1>1, <1>2, <1>4, <1>9 DEF FlowInv, TypeOK, Good
<1> QED BY <1>1, <1>2, <1>3, <1>8, <1>10 DEF FlowInv

LEMMA SaveEntriesStep ==
  ASSUME FlowInv, SaveEntries
  PROVE  FlowInv'
<1>1. disk' = live /\ UNCHANGED <<flow, left, coord, other, live, aux>> BY DEF SaveEntries
<1>2. live \in Data BY DEF FlowInv, TypeOK
<1>3. \E s \in Sets \cup {None} : live = [live EXCEPT !.remote.set = s] BY <1>2, SameSet
<1>4. EntryKept' BY <1>1, <1>3 DEF FlowInv, EntryKept, aux
<1>5. TypeOK' BY <1>1 DEF FlowInv, TypeOK, aux
<1>6. Listening' /\ NothingMissed'
  BY <1>1 DEF FlowInv, Listening, NothingMissed, Got, aux
<1> QED BY <1>1, <1>4, <1>5, <1>6 DEF FlowInv, aux

LEMMA FlowInvInit ==
  ASSUME Init
  PROVE  FlowInv
<1>1. Good(flow, refused) /\ flow.own /\ flow.page = "start" BY NewFlowGood DEF Init
<1>2. NoData \in Data /\ NoData.ents = None BY NoDataType
<1>3. \E s \in Sets \cup {None} : NoData = [NoData EXCEPT !.remote.set = s] BY <1>2, SameSet
<1>4. EntryKept BY <1>1, <1>2, <1>3 DEF Init, EntryKept, Reviewed
<1>5. <<>> \in Seq(Adapters \X Conf) OBVIOUS
<1>6. TypeOK BY <1>1, <1>2, <1>5 DEF Init, TypeOK, Good
<1>7. Listening /\ NothingMissed BY <1>1 DEF Listening, NothingMissed, FoundPages
<1> QED BY <1>1, <1>4, <1>6, <1>7 DEF FlowInv

LEMMA FlowInvStep ==
  ASSUME FlowInv, [Next]_vars
  PROVE  FlowInv'
<1>1. CASE Start BY <1>1, StartStep
<1>2. CASE Choose
  <2>1. PICK g \in Menu(flow) : Enter(g) /\ UpdateEntry(g) BY <1>2 DEF Choose
  <2>2. Good(g, refused) /\ (g.own \/ g.own = flow.own) BY MenuGood DEF FlowInv
  <2> QED BY <1>2, <2>1, <2>2, AnswerStep DEF Choose
<1>3. CASE Submit
  <2>1. PICK g \in Form(flow) : Enter(g) /\ UpdateEntry(g) BY <1>3 DEF Submit
  <2>2. Good(g, refused) /\ g.own = flow.own BY FormGood DEF FlowInv
  <2> QED BY <1>3, <2>1, <2>2, AnswerStep DEF Submit
<1>4. CASE SubmitRemote BY <1>4, SubmitRemoteStep
<1>5. CASE SubmitTechnical BY <1>5, SubmitTechnicalStep
<1>6. CASE Evaluate BY <1>6, EvaluateStep
<1>7. CASE ListenRawEnds \/ WaitConfigEnds \/ WaitRemoteEnds BY <1>7, WaitEndsStep
<1>8. CASE BlinkEnds \/ PairEnds BY <1>8, ProgressEndsStep
<1>9. CASE CloseFlow BY <1>9, CloseFlowStep
<1>10. CASE \E p \in Presses : Press(p[1], p[2]) BY <1>10, PressStep
<1>11. CASE (\E c \in Conf : Forget(c)) \/ OtherWaits \/ OtherEvaluates BY <1>11, OtherPagesStep
<1>12. CASE Tick BY <1>12, TickStep
<1>13. CASE Restart BY <1>13, RestartStep
<1>14. CASE SaveEntries BY <1>14, SaveEntriesStep
<1>15. CASE UNCHANGED vars
  BY <1>15 DEF vars, entry, aux, FlowInv, TypeOK, EntryKept, Listening, NothingMissed, Got
<1> QED BY <1>1, <1>2, <1>3, <1>4, <1>5, <1>6, <1>7, <1>8, <1>9, <1>10, <1>11, <1>12, <1>13,
           <1>14, <1>15 DEF Next

LEMMA FlowInvariant == Spec => []FlowInv
<1>1. Init => FlowInv BY FlowInvInit
<1>2. FlowInv /\ [Next]_vars => FlowInv' BY FlowInvStep
<1> QED BY <1>1, <1>2, PTL DEF Spec

-----------------------------------------------------------------------------
(***************************************************************************)
(* The theorems.                                                           *)
(***************************************************************************)

\* What is pressed in time while a page waits alone is offered by it, whatever the adapters,
\* the configurations, the waiting times and what else is heard (_evaluate, start_listening).
THEOREM PressedIsOffered == Spec => []NothingMissed
<1>1. FlowInv => NothingMissed BY DEF FlowInv
<1> QED BY <1>1, FlowInvariant, PTL

\* What a page blinks, pairs or confirms is one of the configurations found: the index and
\* the adapter that was chosen are never stale (BleAdvConfigHandler).
THEOREM SelectionIsFound ==
  Spec => [](flow.page \in BlinkPages => Selected(flow) \in Conf)
<1>1. FlowInv => (flow.page \in BlinkPages => Selected(flow) \in Conf)
  BY SelectedType DEF FlowInv, Good
<1> QED BY <1>1, FlowInvariant, PTL

\* The entities are reviewed after a change of translator set that was not refused first
\* (async_step_config_technical).
THEOREM EntitiesAreReviewed == Spec => []EntitiesReviewed
<1>1. FlowInv => EntitiesReviewed
  BY DEF FlowInv, Good, Kept, Reviewed, EntitiesReviewed, HasOneEntity
<1> QED BY <1>1, FlowInvariant, PTL

\* A flow that ends well has an entity and an adapter (async_step_finalize).
THEOREM EndIsUsable == Spec => []FinishedIsUsable
<1>1. FlowInv => FinishedIsUsable
  BY DEF FlowInv, Good, Kept, EndPages, FinishedIsUsable
<1> QED BY <1>1, FlowInvariant, PTL

\* Until a flow ends the entry is neither changed nor saved, but for the translator set of
\* its remote: by a step, and by a restart.
THEOREM OnlyEndsChange == Spec => OnlyTheEndChanges
<1> DEFINE End == live' = flow'.data /\ disk' = flow'.data /\ flow'.page \in {"created", "reconfigured"}
           SetOnly == /\ live # NoData
                      /\ \E s \in Sets \cup {None} : live' = [live EXCEPT !.remote = [@ EXCEPT !.set = s]]
                      /\ disk' \in {disk, live}
<1>1. ASSUME FlowInv, [Next]_vars
      PROVE  End \/ (live = NoData /\ UNCHANGED entry) \/ SetOnly
  <2>1. live \in Data /\ disk \in Data BY <1>1 DEF FlowInv, TypeOK
  <2>2. \A s : [live EXCEPT !.remote = [@ EXCEPT !.set = s]] = [live EXCEPT !.remote.set = s]
    OBVIOUS
  <2>3. ASSUME UNCHANGED entry PROVE (live = NoData /\ UNCHANGED entry) \/ SetOnly
    BY <2>1, <2>2, <2>3, SameSet DEF entry
  <2>4. ASSUME NEW g, Enter(g), UpdateEntry(g)
        PROVE  End \/ (live = NoData /\ UNCHANGED entry) \/ SetOnly
    BY <2>3, <2>4 DEF UpdateEntry, Enter
  <2>5. CASE SubmitRemote
    <3>1. PICK s \in Sets : live' = IF flow.own THEN live ELSE [live EXCEPT !.remote.set = s]
      BY <2>5 DEF SubmitRemote
    <3>2. disk' = disk BY <2>5 DEF SubmitRemote
    <3>3. CASE flow.own BY <2>3, <3>1, <3>2, <3>3 DEF entry
    <3>4. CASE ~ flow.own
      <4>1. live # NoData BY <1>1, <3>4 DEF FlowInv, EntryKept
      <4> QED BY <2>2, <3>1, <3>2, <3>4, <4>1
    <3> QED BY <3>3, <3>4
  <2>6. CASE Restart
    <3>1. live' = disk /\ disk' = disk BY <2>6 DEF Restart
    <3>2. CASE live = NoData BY <1>1, <3>1, <3>2 DEF FlowInv, EntryKept, entry
    <3>3. CASE live # NoData BY <1>1, <2>2, <3>1, <3>3 DEF FlowInv, EntryKept
    <3> QED BY <3>2, <3>3
  <2>7. CASE SaveEntries
    <3>1. live' = live /\ disk' = live BY <2>7 DEF SaveEntries
    <3>2. CASE live = NoData BY <1>1, <3>1, <3>2 DEF FlowInv, EntryKept, entry
    <3>3. CASE live # NoData BY <2>1, <2>2, <3>1, <3>3, SameSet
    <3> QED BY <3>2, <3>3
  <2>8. CASE Choose BY <2>4, <2>8 DEF Choose
  <2>9. CASE Submit BY <2>4, <2>9 DEF Submit
  <2>10. \/ SubmitRemote \/ Restart \/ SaveEntries \/ Choose \/ Submit
         \/ UNCHANGED entry
    BY <1>1 DEF Next, vars, Start, SubmitTechnical, Evaluate, ListenRawEnds, WaitConfigEnds,
           WaitRemoteEnds, WaitEnds, BlinkEnds, PairEnds, CloseFlow, Press, Forget, OtherWaits,
           OtherEvaluates, Tick
  <2> QED BY <2>3, <2>5, <2>6, <2>7, <2>8, <2>9, <2>10
<1>2. FlowInv /\ [Next]_vars =>
        [ \/ live' = flow'.data /\ disk' = flow'.data /\ flow'.page \in {"created", "reconfigured"}
          \/ live = NoData /\ UNCHANGED entry
          \/ /\ live # NoData
             /\ \E s \in Sets \cup {None} :
                  live' = [live EXCEPT !.remote = [@ EXCEPT !.set = s]]
             /\ disk' \in {disk, live} ]_vars
  BY <1>1
<1> QED BY <1>2, FlowInvariant, PTL DEF Spec, OnlyTheEndChanges
=============================================================================
