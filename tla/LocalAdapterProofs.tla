------------------------- MODULE LocalAdapterProofs -------------------------
(***************************************************************************)
(* A local adapter, for all its parameters: what HciAdapter says of the    *)
(* controller while a piece is advertised and once it is over, and what    *)
(* AsyncSocket says of the socket under it.                                *)
(***************************************************************************)
EXTENDS HciAdapter, AsyncSocket, TLAPS

\* The opening counts each refusal of its trial once.
Trial ==
  job = "open" => refused <= (IF step <= 2 THEN 0 ELSE IF step = 3 THEN 1 ELSE 2)

\* Before the data of the piece is set, the commands left by the previous jobs: a trial of
\* advertising, its parameters and its data, in this order, are not all among them, nor
\* the last two once the first was answered, nor the last one once the second was.
NoAll(s)  == ~ \E i, j, k \in DOMAIN s :
                 i < j /\ j < k /\ s[i].op = "enable" /\ s[j].op = "parameters" /\ s[k].op = "data"
NoTwo(s)  == ~ \E j, k \in DOMAIN s : j < k /\ s[j].op = "parameters" /\ s[k].op = "data"
NoData(s) == ~ \E k \in DOMAIN s : s[k].op = "data"

\* A command of the piece is awaited, or its answer is there.
Awaited(op) == waiting /\ answer = "none" /\ opened /\ ongoing = op
Done == waiting /\ answer # "none"

\* What is left to execute, and what the controller does, at each step of a piece.
Late ==
  /\ step = 1 /\ ~ waiting => NoAll(sent)
  /\ step = 1 /\ Awaited("enable") => NoAll(sent)
  /\ step = 1 /\ Done => NoTwo(sent)
  /\ step = 2 /\ ~ waiting => NoTwo(sent)
  /\ step = 2 /\ Awaited("parameters") => NoTwo(sent)
  /\ step = 2 /\ Done => NoData(sent)
  /\ step = 3 /\ ~ waiting => NoData(sent)
  /\ step = 3 /\ Awaited("data") =>
       /\ sent # <<>> /\ sent[Len(sent)] = Command("data", piece)
       /\ \A i \in 1 .. Len(sent) - 1 : sent[i].op # "data"
  /\ step = 3 /\ Done => sent = <<>> /\ ctl.data = piece

OnTime ==
  /\ step = 4 /\ ~ waiting => sent = <<>> /\ ctl.data = piece
  /\ step = 4 /\ Awaited("enable") => sent = <<Command("enable", "on")>> /\ ctl.data = piece
  /\ step = 4 /\ Done => sent = <<>> /\ ctl.data = piece /\ ctl.on
  /\ step = 5 => sent = <<>> /\ ctl.data = piece /\ ctl.on
  /\ step = 6 /\ ~ waiting => sent = <<>>
  /\ step = 6 /\ Awaited("enable") => sent = <<Command("enable", "off")>>
  /\ step = 6 /\ Done => sent = <<>> /\ ~ ctl.on
  /\ step = 7 /\ ~ waiting => sent = <<>> /\ ~ ctl.on
  /\ step = 7 /\ Awaited("data") => sent = <<Command("data", "fake")>> /\ ~ ctl.on
  /\ step = 7 /\ Done => sent = <<>> /\ ~ ctl.on /\ ctl.data = "fake"

ByManager ==
  /\ step = 1 /\ ~ waiting => sent = <<>>
  /\ step = 1 /\ Awaited("add") => sent = <<Command("add", piece)>>
  /\ step = 1 /\ Done => sent = <<>> /\ ctl.data = piece /\ ctl.on
  /\ step = 2 => sent = <<>> /\ ctl.data = piece /\ ctl.on
  /\ step = 3 /\ ~ waiting => sent = <<>>
  /\ step = 3 /\ Awaited("remove") => sent = <<Command("remove", "none")>>
  /\ step = 3 /\ Done => sent = <<>> /\ ~ ctl.on /\ ctl.data = "none"

Progress ==
  job = "piece" /\ Sound =>
    IF mode = "mgmt" THEN ByManager ELSE Late /\ OnTime

Going ==
  /\ Busy => ~ complete
  /\ job = "piece" /\ waiting => ongoing = Steps[step].op /\ ~ Sleeping

AdapterInv ==
  /\ TypeOK /\ Trial
  /\ Going
  /\ Progress
  /\ Silent

-----------------------------------------------------------------------------
\* The steps, one by one.
LEMMA OpenStepsAre ==
  /\ DOMAIN OpenSteps = 1 .. 6
  /\ \A k \in 1 .. 6 : OpenSteps[k] \in Commands /\ OpenSteps[k].arg # "piece" /\ OpenSteps[k] # Sleep
BY DEF OpenSteps, Command, Commands, Ops, Data, Sleep

LEMMA ManagedStepsAre ==
  /\ DOMAIN AdvertiseSteps("mgmt") = 1 .. 3
  /\ AdvertiseSteps("mgmt")[1] = Command("add", "piece")
  /\ AdvertiseSteps("mgmt")[2] = Sleep
  /\ AdvertiseSteps("mgmt")[3] = Command("remove", "none")
BY DEF AdvertiseSteps, ManagedSteps

LEMMA AdvertiseStepsAre ==
  ASSUME NEW m, m # "mgmt"
  PROVE  /\ DOMAIN AdvertiseSteps(m) = 1 .. 7
         /\ AdvertiseSteps(m)[1] = Command("enable", "off")
         /\ AdvertiseSteps(m)[2] = Command("parameters", "none")
         /\ AdvertiseSteps(m)[3] = Command("data", "piece")
         /\ AdvertiseSteps(m)[4] = Command("enable", "on")
         /\ AdvertiseSteps(m)[5] = Sleep
         /\ AdvertiseSteps(m)[6] = Command("enable", "off")
         /\ AdvertiseSteps(m)[7] = Command("data", "fake")
BY DEF AdvertiseSteps

\* Where a piece sleeps.
LEMMA SleepingIs ==
  ASSUME job = "piece", step \in DOMAIN Steps
  PROVE  /\ mode = "mgmt" => step \in 1 .. 3 /\ (Sleeping <=> step = 2)
         /\ mode # "mgmt" => step \in 1 .. 7 /\ (Sleeping <=> step = 5)
<1>1. Steps = AdvertiseSteps(mode) BY DEF Steps
<1>2. CASE mode = "mgmt"
  <2>1. step \in {1, 2, 3} BY <1>1, <1>2, ManagedStepsAre
  <2> QED BY <1>1, <1>2, <2>1, ManagedStepsAre DEF Sleeping, Sleep, Command
<1>3. CASE mode # "mgmt"
  <2>1. step \in {1, 2, 3, 4, 5, 6, 7} BY <1>1, <1>3, AdvertiseStepsAre
  <2> QED BY <1>1, <1>3, <2>1, AdvertiseStepsAre DEF Sleeping, Sleep, Command
<1> QED BY <1>2, <1>3

\* What is left once the first command is executed.
LEMMA TailIs ==
  ASSUME NEW C, NEW s \in Seq(C), s # <<>>
  PROVE  /\ Head(s) = s[1] /\ Head(s) \in C
         /\ Tail(s) \in Seq(C) /\ Len(Tail(s)) = Len(s) - 1 /\ Len(s) \in Nat \ {0}
         /\ DOMAIN s = 1 .. Len(s) /\ DOMAIN Tail(s) = 1 .. Len(s) - 1
         /\ \A i \in 1 .. Len(s) - 1 : Tail(s)[i] = s[i + 1]
OBVIOUS

LEMMA ExecutedLeaves ==
  ASSUME NEW s \in Seq(Commands), s # <<>>
  PROVE  /\ NoAll(s) => NoAll(Tail(s))
         /\ NoTwo(s) => NoTwo(Tail(s))
         /\ NoData(s) => NoData(Tail(s))
         /\ NoAll(s) /\ s[1].op = "enable" => NoTwo(Tail(s))
         /\ NoTwo(s) /\ s[1].op = "parameters" => NoData(Tail(s))
<1> DEFINE t == Tail(s)
           n == Len(s)
<1>1. /\ n \in Nat \ {0} /\ DOMAIN s = 1 .. n /\ DOMAIN t = 1 .. n - 1
      /\ \A i \in 1 .. n - 1 : t[i] = s[i + 1]
  BY TailIs
<1> HIDE DEF t, n
<1>2. \A i \in DOMAIN t : i \in Nat /\ i + 1 \in DOMAIN s /\ 1 < i + 1 /\ t[i] = s[i + 1]
  BY <1>1
<1>3. 1 \in DOMAIN s BY <1>1
<1>4. \A i, j \in DOMAIN t : i < j => i + 1 < j + 1 BY <1>2
<1>5. NoAll(s) => NoAll(t) BY <1>2, <1>4 DEF NoAll
<1>6. NoTwo(s) => NoTwo(t) BY <1>2, <1>4 DEF NoTwo
<1>7. NoData(s) => NoData(t) BY <1>2 DEF NoData
<1>8. NoAll(s) /\ s[1].op = "enable" => NoTwo(t) BY <1>2, <1>3, <1>4 DEF NoAll, NoTwo
<1>9. NoTwo(s) /\ s[1].op = "parameters" => NoData(t) BY <1>2, <1>3 DEF NoTwo, NoData
<1> QED BY <1>5, <1>6, <1>7, <1>8, <1>9 DEF t

\* A command that is sent comes last.
LEMMA AppendIs ==
  ASSUME NEW s \in Seq(Commands), NEW c \in Commands
  PROVE  /\ Append(s, c) \in Seq(Commands) /\ Append(s, c) # <<>>
         /\ Len(Append(s, c)) = Len(s) + 1 /\ Len(s) \in Nat
         /\ DOMAIN Append(s, c) = 1 .. Len(s) + 1 /\ DOMAIN s = 1 .. Len(s)
         /\ Append(s, c)[Len(s) + 1] = c
         /\ \A i \in 1 .. Len(s) : Append(s, c)[i] = s[i]
OBVIOUS

LEMMA SentLast ==
  ASSUME NEW s \in Seq(Commands), NEW c \in Commands
  PROVE  /\ NoAll(s) /\ c.op # "data" => NoAll(Append(s, c))
         /\ NoTwo(s) /\ c.op # "data" => NoTwo(Append(s, c))
         /\ NoData(s) => \A i \in 1 .. Len(Append(s, c)) - 1 : Append(s, c)[i].op # "data"
<1> DEFINE t == Append(s, c)
           n == Len(s)
<1>1. /\ n \in Nat /\ Len(t) = n + 1 /\ DOMAIN t = 1 .. n + 1 /\ DOMAIN s = 1 .. n
      /\ t[n + 1] = c /\ \A i \in 1 .. n : t[i] = s[i]
  BY AppendIs
<1> HIDE DEF t, n
<1>2. c.op # "data" => \A k \in DOMAIN t : t[k].op = "data" => k \in DOMAIN s /\ t[k] = s[k]
  BY <1>1
<1>3. \A j, k \in DOMAIN t : j < k => j \in DOMAIN s /\ t[j] = s[j] BY <1>1
<1>4. NoAll(s) /\ c.op # "data" => NoAll(t) BY <1>2, <1>3 DEF NoAll
<1>5. NoTwo(s) /\ c.op # "data" => NoTwo(t) BY <1>2, <1>3 DEF NoTwo
<1>6. NoData(s) => \A i \in 1 .. Len(t) - 1 : t[i].op # "data" BY <1>1 DEF NoData
<1> QED BY <1>4, <1>5, <1>6 DEF t

\* Two commands are not three.
LEMMA FewAreNotAll ==
  ASSUME NEW s \in Seq(Commands), Len(s) <= 2
  PROVE  NoAll(s)
<1>1. Len(s) \in Nat /\ DOMAIN s = 1 .. Len(s) OBVIOUS
<1> QED BY <1>1 DEF NoAll

-----------------------------------------------------------------------------
\* Types.
LEMMA SentType ==
  ASSUME TypeOK, NEW c \in Commands \cup {Command("data", "piece"), Command("add", "piece")}
  PROVE  Sent(c) \in Commands
<1>1. piece \in Data BY DEF TypeOK
<1>2. CASE c.arg = "piece"
  BY <1>1, <1>2 DEF Sent, Commands, Command, Ops
<1>3. CASE c.arg # "piece"
  BY <1>3 DEF Sent, Commands, Command
<1> QED BY <1>2, <1>3

\* Every command of a job may be sent.
LEMMA StepType ==
  ASSUME TypeOK, Busy, Steps[step] # Sleep
  PROVE  Sent(Steps[step]) \in Commands /\ Steps[step].op \in Ops
<1>1. step \in DOMAIN Steps /\ mode \in {"hci", "ext", "mgmt"} /\ job \in {"open", "piece"}
  BY DEF TypeOK, Busy
<1>2. CASE job = "open"
  <2>1. Steps[step] \in Commands BY <1>1, <1>2, OpenStepsAre DEF Steps
  <2> QED BY <2>1, SentType DEF Commands, Ops
<1>3. CASE job = "piece"
  <2>1. Steps = AdvertiseSteps(mode) BY <1>3 DEF Steps
  <2>2. Steps[step] \in {Command("enable", "off"), Command("parameters", "none"),
                         Command("data", "piece"), Command("enable", "on"),
                         Command("data", "fake"), Command("add", "piece"),
                         Command("remove", "none")}
    <3>1. CASE mode = "mgmt"
      <4>1. step \in {1, 2, 3} BY <1>1, <2>1, <3>1, ManagedStepsAre
      <4> QED BY <2>1, <3>1, <4>1, ManagedStepsAre
    <3>2. CASE mode # "mgmt"
      <4>1. step \in {1, 2, 3, 4, 5, 6, 7} BY <1>1, <2>1, <3>2, AdvertiseStepsAre
      <4> QED BY <2>1, <3>2, <4>1, AdvertiseStepsAre
    <3> QED BY <3>1, <3>2
  <2>3. Steps[step].op \in Ops BY <2>2 DEF Command, Ops
  <2>4. Steps[step] \in Commands \cup {Command("data", "piece"), Command("add", "piece")}
    BY <2>2 DEF Command, Commands, Ops, Data
  <2> QED BY <2>3, <2>4, SentType
<1> QED BY <1>1, <1>2, <1>3

\* A job goes on within its steps.
LEMMA GoOnType ==
  ASSUME TypeOK, Busy, GoOn(mode'), mode' \in {"hci", "ext", "mgmt"},
         job = "piece" => mode' = mode
  PROVE  /\ step' \in Nat /\ job' \in {"none", job} /\ complete' \in BOOLEAN
         /\ job' # "none" => step' \in DOMAIN Steps'
         /\ (job' = "none" /\ complete' = (job = "piece"))
            \/ (step' = NextStep(mode') /\ NextStep(mode') \in DOMAIN Steps
                /\ job' = job /\ complete' = complete)
<1>1. NextStep(mode') \in Nat BY DEF NextStep, TypeOK
<1>2. CASE NextStep(mode') \in DOMAIN Steps
  <2>1. step' = NextStep(mode') /\ job' = job /\ complete' = complete BY <1>2 DEF GoOn
  <2>2. Steps' = Steps BY <2>1 DEF Steps, TypeOK, Busy
  <2> QED BY <1>1, <1>2, <2>1, <2>2 DEF TypeOK
<1>3. CASE NextStep(mode') \notin DOMAIN Steps
  BY <1>3 DEF GoOn
<1> QED BY <1>2, <1>3

LEMMA EffectType ==
  ASSUME ctl \in [on : BOOLEAN, data : Data], NEW c \in Commands
  PROVE  Effect(c) \in [on : BOOLEAN, data : Data]
<1>1. c.op \in {"data", "add"} => c.arg \in Data BY DEF Commands, Ops
<1>2. "none" \in Data BY DEF Data
<1>3. CASE c.op = "enable" BY <1>3 DEF Effect
<1>4. CASE c.op = "data" BY <1>1, <1>4 DEF Effect
<1>5. CASE c.op = "add" BY <1>1, <1>5 DEF Effect
<1>6. CASE c.op = "remove" BY <1>2, <1>6 DEF Effect
<1>7. CASE c.op \notin {"enable", "data", "add", "remove"} BY <1>7 DEF Effect
<1> QED BY <1>3, <1>4, <1>5, <1>6, <1>7

LEMMA TypeStep ==
  ASSUME TypeOK, Trial, [Next]_vars
  PROVE  TypeOK'
<1> USE DEF controller, object, aux
<1>1. 1 \in DOMAIN OpenSteps /\ \A m : 1 \in DOMAIN AdvertiseSteps(m)
  <2>1. \A m : DOMAIN AdvertiseSteps(m) = 1 .. 3 \/ DOMAIN AdvertiseSteps(m) = 1 .. 7
    BY ManagedStepsAre, AdvertiseStepsAre
  <2> QED BY <2>1, OpenStepsAre
<1>2. CASE Open
  <2>1. job' = "open" /\ step' = 1 /\ behind' = Len(sent) BY <1>2 DEF Open, Start
  <2>2. step' \in DOMAIN Steps' BY <1>1, <2>1 DEF Steps
  <2>3. behind' \in 0 .. MaxSent BY <2>1 DEF TypeOK
  <2>4. /\ UNCHANGED <<kind, ctl, sent, piece>> /\ opened' = TRUE /\ mode' = "hci"
        /\ ongoing' = "none" /\ answer' = "none" /\ refused' = 0
        /\ waiting' = FALSE /\ complete' = FALSE /\ disturbed' = (disturbed /\ sent # <<>>)
    BY <1>2 DEF Open, Start
  <2>5. disturbed' \in BOOLEAN /\ complete' \in BOOLEAN BY <2>4
  <2>6. /\ kind' \in {"legacy", "extended", "managed"} /\ ctl' \in [on : BOOLEAN, data : Data]
        /\ sent' \in Seq(Commands) /\ Len(sent') <= MaxSent /\ piece' \in Data
    BY <2>4 DEF TypeOK
  <2>7. refused' \in 0 .. 2 /\ step' \in Nat BY <2>1, <2>4
  <2> QED BY <2>1, <2>2, <2>3, <2>4, <2>5, <2>6, <2>7 DEF TypeOK
<1>3. ASSUME NEW p \in Pieces, Advertise(p) PROVE TypeOK'
  <2>1. job' = "piece" /\ step' = 1 /\ behind' = Len(sent) BY <1>3 DEF Advertise, Start
  <2>2. step' \in DOMAIN Steps' BY <1>1, <2>1 DEF Steps
  <2>3. behind' \in 0 .. MaxSent BY <2>1 DEF TypeOK
  <2>4. /\ UNCHANGED <<kind, ctl, sent, opened, mode, ongoing, answer, refused>> /\ piece' = p
        /\ waiting' = FALSE /\ complete' = FALSE /\ disturbed' = (disturbed /\ sent # <<>>)
    BY <1>3 DEF Advertise, Start
  <2> QED BY <2>1, <2>2, <2>3, <2>4 DEF TypeOK, Data
<1>4. CASE Send
  <2>1. Busy /\ Steps[step] # Sleep
    BY <1>4, OpenStepsAre DEF Send, Sleeping, Busy, TypeOK, Steps
  <2>2. Sent(Steps[step]) \in Commands /\ Steps[step].op \in Ops BY <2>1, StepType
  <2>3. sent' = Append(sent, Sent(Steps[step])) /\ Len(sent) < MaxSent BY <1>4 DEF Send
  <2>4. sent' \in Seq(Commands) /\ Len(sent') <= MaxSent
    <3>1. Len(sent) \in Nat /\ MaxSent \in Nat /\ sent \in Seq(Commands)
      BY AdapterAssumption DEF TypeOK, Commands
    <3>2. Len(sent') = Len(sent) + 1 /\ sent' \in Seq(Commands) BY <2>2, <2>3, <3>1
    <3> QED BY <2>3, <3>1, <3>2
  <2>5. Steps' = Steps /\ Busy' = Busy BY <1>4 DEF Send, Steps, Busy
  <2> QED BY <1>4, <2>2, <2>4, <2>5 DEF Send, TypeOK, Commands
<1>5. CASE Answered
  <2>1. mode' = ModeAfter /\ refused' = RefusedAfter /\ GoOn(mode') /\ Busy
    BY <1>5 DEF Answered
  <2>2. mode' \in {"hci", "ext", "mgmt"} /\ (job = "piece" => mode' = mode)
    BY <2>1 DEF ModeAfter, TypeOK
  <2>3. refused' \in 0 .. 2
    <3>1. CASE job = "open" /\ step \in {2, 3} /\ answer = "disallowed"
      BY <2>1, <3>1 DEF RefusedAfter, TypeOK, Trial
    <3>2. CASE ~ (job = "open" /\ step \in {2, 3} /\ answer = "disallowed")
      BY <2>1, <3>2 DEF RefusedAfter, TypeOK
    <3> QED BY <3>1, <3>2
  <2>4. /\ step' \in Nat /\ job' \in {"none", job} /\ complete' \in BOOLEAN
        /\ job' # "none" => step' \in DOMAIN Steps'
    BY <2>1, <2>2, GoOnType
  <2> QED BY <1>5, <2>2, <2>3, <2>4 DEF Answered, TypeOK, Busy
<1>6. CASE SleepEnds
  <2>1. GoOn(mode') /\ Busy /\ mode' = mode BY <1>6 DEF SleepEnds, Sleeping, Busy
  <2>2. /\ step' \in Nat /\ job' \in {"none", job} /\ complete' \in BOOLEAN
        /\ job' # "none" => step' \in DOMAIN Steps'
    BY <2>1, GoOnType DEF TypeOK
  <2> QED BY <1>6, <2>2 DEF SleepEnds, TypeOK, Busy
<1>7. CASE Raise BY <1>7 DEF Raise, TypeOK, Busy
<1>8. CASE Close
  <2>1. Steps' = Steps /\ Busy' = Busy BY <1>8 DEF Close, Steps, Busy
  <2> QED BY <1>8, <2>1 DEF Close, TypeOK
<1>9. CASE Execute
  <2>1. sent # <<>> /\ sent' = Tail(sent) BY <1>9 DEF Execute
  <2>2. /\ Head(sent) \in Commands /\ sent' \in Seq(Commands) /\ Len(sent') <= MaxSent
    <3>1. sent \in Seq(Commands) /\ Len(sent) <= MaxSent /\ MaxSent \in Nat
      BY AdapterAssumption DEF TypeOK, Commands
    <3> QED BY <2>1, <3>1, TailIs
  <2>3. Steps' = Steps /\ Busy' = Busy BY <1>9 DEF Execute, Steps, Busy
  <2>4. ctl' \in [on : BOOLEAN, data : Data]
    <3>1. ctl \in [on : BOOLEAN, data : Data] /\ ctl' \in {ctl, Effect(Head(sent))}
      BY <1>9 DEF Execute, TypeOK
    <3> QED BY <2>2, <3>1, EffectType
  <2>5. answer' \in {"none", "ok", "disallowed", "failed"} /\ disturbed' \in BOOLEAN
    BY <1>9 DEF Execute, TypeOK, Recv
  <2> QED BY <1>9, <2>2, <2>3, <2>4, <2>5 DEF Execute, TypeOK, Commands
<1>10. CASE Reset
  <2>1. Steps' = Steps /\ Busy' = Busy BY <1>10 DEF Reset, Steps, Busy
  <2>2. <<>> \in Seq(Commands) /\ Len(<<>>) = 0 OBVIOUS
  <2> QED BY <1>10, <2>1, <2>2, AdapterAssumption DEF Reset, TypeOK, Commands, Data
<1>11. CASE UNCHANGED vars
  <2>1. Steps' = Steps /\ Busy' = Busy BY <1>11 DEF vars, Steps, Busy
  <2> QED BY <1>11, <2>1 DEF vars, TypeOK
<1> QED BY <1>2, <1>3, <1>4, <1>5, <1>6, <1>7, <1>8, <1>9, <1>10, <1>11 DEF Next

LEMMA TrialStep ==
  ASSUME TypeOK, Trial, [Next]_vars
  PROVE  Trial'
<1> USE DEF controller, object, aux
<1>1. refused \in 0 .. 2 /\ step \in Nat BY DEF TypeOK
<1>2. CASE Open BY <1>2 DEF Open, Start, Trial
<1>3. ASSUME NEW p \in Pieces, Advertise(p) PROVE Trial' BY <1>3 DEF Advertise, Start, Trial
<1>4. CASE Answered
  <2>1. ASSUME job' = "open" PROVE Trial'
    <3>1. /\ job = "open" /\ step' = NextStep(mode') /\ mode' = ModeAfter
          /\ refused' = RefusedAfter
      BY <1>4, <2>1 DEF Answered, GoOn
    <3>2. step \in DOMAIN OpenSteps BY <3>1 DEF TypeOK, Busy, Steps
    <3>3. step \in 1 .. 6 BY <3>2, OpenStepsAre
    <3>4. CASE step = 1
      <4>1. refused = 0 BY <1>1, <3>1, <3>4 DEF Trial
      <4> QED BY <3>1, <3>4, <4>1 DEF RefusedAfter, Trial
    <3>5. CASE step = 2
      <4>1. refused = 0 /\ step' = 3 BY <1>1, <3>1, <3>5 DEF Trial, NextStep
      <4> QED BY <3>1, <3>5, <4>1 DEF RefusedAfter, Trial
    <3>6. CASE step = 3
      <4>1. refused \in 0 .. 1 /\ step' = 4 BY <1>1, <3>1, <3>6 DEF Trial, NextStep
      <4> QED BY <3>1, <3>6, <4>1 DEF RefusedAfter, Trial
    <3>7. CASE step > 3
      <4>1. step' = step + 1 /\ refused' = refused
        BY <1>1, <3>1, <3>7 DEF NextStep, RefusedAfter
      <4> QED BY <1>1, <3>7, <4>1 DEF Trial
    <3> QED BY <3>3, <3>4, <3>5, <3>6, <3>7
  <2> QED BY <2>1 DEF Trial
<1>5. CASE SleepEnds BY <1>5 DEF SleepEnds, Sleeping, GoOn, Trial
<1>6. CASE Raise BY <1>6 DEF Raise, Trial
<1>7. CASE Send BY <1>7 DEF Send, Trial
<1>8. CASE Close BY <1>8 DEF Close, Trial
<1>9. CASE Execute BY <1>9 DEF Execute, Trial
<1>10. CASE Reset BY <1>10 DEF Reset, Trial
<1>11. CASE UNCHANGED vars BY <1>11 DEF vars, Trial
<1> QED BY <1>2, <1>3, <1>4, <1>5, <1>6, <1>7, <1>8, <1>9, <1>10, <1>11 DEF Next

-----------------------------------------------------------------------------
\* What starts a job leaves no command of it awaited.
LEMMA OpenKeeps ==
  ASSUME Open
  PROVE  Going' /\ Progress' /\ Silent'
<1>1. job' = "open" /\ complete' = FALSE BY DEF Open, Start
<1> QED BY <1>1 DEF Going, Progress, Silent, Sleeping

LEMMA AdvertiseKeeps ==
  ASSUME TypeOK, NEW p \in Pieces, Advertise(p)
  PROVE  Going' /\ Progress' /\ Silent'
<1>1. /\ job' = "piece" /\ step' = 1 /\ waiting' = FALSE /\ complete' = FALSE
      /\ behind' = Len(sent) /\ sent' = sent /\ mode' = mode
  BY DEF Advertise, Start, controller, object
<1>2. Going' /\ Silent' BY <1>1 DEF Going, Silent
<1>3. sent \in Seq(Commands) /\ Len(sent) \in Nat BY DEF TypeOK
<1>4. ASSUME Sound' PROVE IF mode' = "mgmt" THEN ByManager' ELSE Late' /\ OnTime'
  <2>1. CASE mode = "mgmt"
    <3>1. sent' = <<>> BY <1>1, <1>3, <1>4, <2>1 DEF Sound
    <3> QED BY <1>1, <2>1, <3>1 DEF ByManager, Awaited, Done
  <2>2. CASE mode # "mgmt"
    <3>1. Len(sent) <= 2 BY <1>1, <1>3, <1>4, <2>2 DEF Sound
    <3>2. NoAll(sent') BY <1>1, <1>3, <3>1, FewAreNotAll
    <3> QED BY <1>1, <2>2, <3>2 DEF Late, OnTime, Awaited, Done
  <2> QED BY <2>1, <2>2
<1> QED BY <1>2, <1>4 DEF Progress

\* The next command of a piece follows those that are left.
LEMMA SendKeeps ==
  ASSUME AdapterInv, Send
  PROVE  Going' /\ Progress' /\ Silent'
<1>1. /\ Busy /\ ~ waiting /\ ~ Sleeping /\ opened' = opened /\ waiting' = TRUE /\ opened
      /\ ongoing' = Steps[step].op /\ answer' = "none" /\ sent' = Append(sent, Sent(Steps[step]))
      /\ UNCHANGED <<ctl, mode, job, step, piece, complete, disturbed, behind>>
  BY DEF Send, aux
<1>2. Steps' = Steps /\ Busy' = Busy /\ Sleeping' = Sleeping
  BY <1>1 DEF Steps, Busy, Sleeping
<1>3. Going' /\ Silent' BY <1>1, <1>2 DEF AdapterInv, Going, Silent
<1>4. sent \in Seq(Commands) /\ piece \in Data BY DEF AdapterInv, TypeOK
<1>5. ASSUME job = "piece", Sound, step \in DOMAIN Steps
      PROVE  IF mode = "mgmt" THEN ByManager' ELSE Late' /\ OnTime'
  <2>1. IF mode = "mgmt" THEN ByManager ELSE Late /\ OnTime BY <1>5 DEF AdapterInv, Progress
  <2>2. Steps = AdvertiseSteps(mode) BY <1>5 DEF Steps
  <2>3. \A c : Append(<<>>, c) = <<c>> OBVIOUS
  <2>4. CASE mode = "mgmt"
    <3>1. step \in {1, 3} BY <1>1, <1>5, <2>4, SleepingIs
    <3>2. CASE step = 1
      <4>1. sent' = <<Command("add", piece)>>
        <5>1. sent = <<>> BY <1>1, <2>1, <2>4, <3>2 DEF ByManager
        <5>2. Sent(Steps[step]) = Command("add", piece)
          BY <2>2, <2>4, <3>2, ManagedStepsAre DEF Sent, Command
        <5> QED BY <1>1, <2>3, <5>1, <5>2
      <4>2. ~ Done' /\ waiting' = TRUE /\ step' = 1 /\ piece' = piece /\ mode' = mode
        BY <1>1, <3>2 DEF Done
      <4> QED BY <2>4, <4>1, <4>2 DEF ByManager
    <3>3. CASE step = 3
      <4>1. sent' = <<Command("remove", "none")>>
        <5>1. sent = <<>> BY <1>1, <2>1, <2>4, <3>3 DEF ByManager
        <5>2. Sent(Steps[step]) = Command("remove", "none")
          BY <2>2, <2>4, <3>3, ManagedStepsAre DEF Sent, Command
        <5> QED BY <1>1, <2>3, <5>1, <5>2
      <4>2. ~ Done' /\ waiting' = TRUE /\ step' = 3 /\ piece' = piece /\ mode' = mode
        BY <1>1, <3>3 DEF Done
      <4> QED BY <2>4, <4>1, <4>2 DEF ByManager
    <3> QED BY <2>4, <3>1, <3>2, <3>3
  <2>5. CASE mode # "mgmt"
    <3>0. Late /\ OnTime BY <2>1, <2>5
    <3>1. step \in {1, 2, 3, 4, 6, 7} BY <1>1, <1>5, <2>5, SleepingIs
    <3>2. CASE step = 1
      <4>1. Sent(Steps[step]) = Command("enable", "off")
        BY <2>2, <2>5, <3>2, AdvertiseStepsAre DEF Sent, Command
      <4>2. Command("enable", "off") \in Commands BY DEF Command, Commands, Ops
      <4>3. NoAll(sent) BY <1>1, <3>0, <3>2 DEF Late
      <4>4. NoAll(sent') BY <1>1, <1>4, <4>1, <4>2, <4>3, SentLast DEF Command
      <4> QED BY <1>1, <3>2, <4>4, <2>5 DEF Late, OnTime, Done
    <3>3. CASE step = 2
      <4>1. Sent(Steps[step]) = Command("parameters", "none")
        BY <2>2, <2>5, <3>3, AdvertiseStepsAre DEF Sent, Command
      <4>2. Command("parameters", "none") \in Commands BY DEF Command, Commands, Ops
      <4>3. NoTwo(sent) BY <1>1, <3>0, <3>3 DEF Late
      <4>4. NoTwo(sent') BY <1>1, <1>4, <4>1, <4>2, <4>3, SentLast DEF Command
      <4> QED BY <1>1, <3>3, <4>4, <2>5 DEF Late, OnTime, Done
    <3>4. CASE step = 3
      <4>1. Sent(Steps[step]) = Command("data", piece)
        BY <2>2, <2>5, <3>4, AdvertiseStepsAre DEF Sent, Command
      <4>2. Command("data", piece) \in Commands BY <1>4 DEF Command, Commands, Ops
      <4>3. NoData(sent) BY <1>1, <3>0, <3>4 DEF Late
      <4>4. \A i \in 1 .. Len(sent') - 1 : sent'[i].op # "data"
        BY <1>1, <1>4, <4>1, <4>2, <4>3, SentLast DEF Command
      <4>5. sent' # <<>> /\ sent'[Len(sent')] = Command("data", piece)
        BY <1>1, <1>4, <4>1, <4>2, AppendIs
      <4> QED BY <1>1, <3>4, <4>4, <4>5, <2>5 DEF Late, OnTime, Done
    <3>5. CASE step = 4
      <4>1. Sent(Steps[step]) = Command("enable", "on")
        BY <2>2, <2>5, <3>5, AdvertiseStepsAre DEF Sent, Command
      <4>2. sent = <<>> /\ ctl.data = piece BY <1>1, <3>0, <3>5 DEF OnTime
      <4>3. sent' = <<Command("enable", "on")>> BY <1>1, <2>3, <4>1, <4>2
      <4> QED BY <1>1, <3>5, <4>2, <4>3, <2>5 DEF Late, OnTime, Done
    <3>6. CASE step = 6
      <4>1. Sent(Steps[step]) = Command("enable", "off")
        BY <2>2, <2>5, <3>6, AdvertiseStepsAre DEF Sent, Command
      <4>2. sent = <<>> BY <1>1, <3>0, <3>6 DEF OnTime
      <4>3. sent' = <<Command("enable", "off")>> BY <1>1, <2>3, <4>1, <4>2
      <4>4. ~ Done' /\ waiting' = TRUE /\ step' = 6 BY <1>1, <3>6 DEF Done
      <4>5. Late' BY <4>4 DEF Late
      <4>6. OnTime' BY <4>3, <4>4 DEF OnTime
      <4> QED BY <2>5, <4>5, <4>6
    <3>7. CASE step = 7
      <4>1. Sent(Steps[step]) = Command("data", "fake")
        BY <2>2, <2>5, <3>7, AdvertiseStepsAre DEF Sent, Command
      <4>2. sent = <<>> /\ ~ ctl.on BY <1>1, <3>0, <3>7 DEF OnTime
      <4>3. sent' = <<Command("data", "fake")>> BY <1>1, <2>3, <4>1, <4>2
      <4> QED BY <1>1, <3>7, <4>2, <4>3, <2>5 DEF Late, OnTime, Done
    <3> QED BY <2>5, <3>1, <3>2, <3>3, <3>4, <3>5, <3>6, <3>7
  <2> QED BY <2>4, <2>5
<1>6. Busy => step \in DOMAIN Steps BY DEF AdapterInv, TypeOK
<1>7. Progress' BY <1>1, <1>5, <1>6 DEF Progress, Sound
<1> QED BY <1>3, <1>7

\* A command of a piece that is over leaves what the next one starts from.
LEMMA AnsweredKeeps ==
  ASSUME AdapterInv, Answered
  PROVE  Going' /\ Progress' /\ Silent'
<1>1. /\ Busy /\ waiting /\ answer # "none" /\ waiting' = FALSE
      /\ mode' = ModeAfter /\ GoOn(mode')
      /\ UNCHANGED <<ctl, sent, opened, piece, disturbed, behind>>
  BY DEF Answered, controller
<1>2. TypeOK /\ step \in Nat /\ step \in DOMAIN Steps /\ Going /\ Done
  BY <1>1 DEF AdapterInv, TypeOK, Done
<1>3. mode' \in {"hci", "ext", "mgmt"} /\ (job = "piece" => mode' = mode)
  BY <1>1, <1>2 DEF ModeAfter, TypeOK
<1>4. \/ job' = "none" /\ complete' = (job = "piece") /\ NextStep(mode') \notin DOMAIN Steps
      \/ /\ step' = NextStep(mode') /\ NextStep(mode') \in DOMAIN Steps
         /\ job' = job /\ complete' = complete
  BY <1>1 DEF GoOn
<1>5. ~ complete BY <1>1, <1>2 DEF Going
<1>6. Going' BY <1>1, <1>4, <1>5 DEF Going, Busy
<1>7. CASE job # "piece"
  <2>1. ~ complete'
    <3>1. CASE complete' = complete BY <1>5, <3>1
    <3>2. CASE complete' = (job = "piece") BY <1>7, <3>2
    <3> QED BY <1>4, <3>1, <3>2
  <2>2. job' # "piece" BY <1>4, <1>7
  <2> QED BY <1>6, <2>1, <2>2 DEF Progress, Silent
<1>8. CASE job = "piece" /\ ~ Sound
  <2>1. ~ Sound' BY <1>1, <1>3, <1>8 DEF Sound
  <2> QED BY <1>6, <2>1 DEF Progress, Silent
<1>9. CASE job = "piece" /\ Sound
  <2>1. IF mode = "mgmt" THEN ByManager ELSE Late /\ OnTime BY <1>9 DEF AdapterInv, Progress
  <2>2. Steps = AdvertiseSteps(mode) BY <1>9 DEF Steps
  <2>3. NextStep(mode') = step + 1 /\ mode' = mode BY <1>3, <1>9 DEF NextStep
  <2>4. ~ Sleeping BY <1>1, <1>2, <1>9 DEF Going
  <2>5. ~ Done' /\ \A op : ~ Awaited(op)' BY <1>1 DEF Done, Awaited
  <2>6. CASE mode = "mgmt"
    <3>1. DOMAIN Steps = 1 .. 3 BY <2>2, <2>6, ManagedStepsAre
    <3>2. step \in {1, 3} BY <1>2, <1>9, <2>4, <2>6, SleepingIs
    <3>3. CASE step = 1
      <4>1. sent = <<>> /\ ctl.data = piece /\ ctl.on
        BY <1>2, <2>1, <2>6, <3>3 DEF ByManager
      <4>2. step' = 2 /\ job' = job /\ complete' = complete BY <1>4, <2>3, <3>1, <3>3
      <4>3. ByManager' BY <1>1, <4>1, <4>2 DEF ByManager
      <4>4. Progress' BY <2>3, <2>6, <4>3 DEF Progress
      <4>5. Silent' BY <1>5, <4>2 DEF Silent
      <4> QED BY <1>6, <4>4, <4>5
    <3>4. CASE step = 3
      <4>1. sent = <<>> /\ ~ ctl.on /\ ctl.data = "none"
        BY <1>2, <2>1, <2>6, <3>4 DEF ByManager
      <4>2. job' = "none" BY <1>4, <2>3, <3>1, <3>4
      <4>3. Silent' BY <1>1, <4>1, AdapterAssumption DEF Silent
      <4>4. Progress' BY <4>2 DEF Progress
      <4> QED BY <1>6, <4>3, <4>4
    <3> QED BY <3>2, <3>3, <3>4
  <2>7. CASE mode # "mgmt"
    <3>0. Late /\ OnTime BY <2>1, <2>7
    <3>1. DOMAIN Steps = 1 .. 7 BY <2>2, <2>7, AdvertiseStepsAre
    <3>2. step \in {1, 2, 3, 4, 6, 7} BY <1>2, <1>9, <2>4, <2>7, SleepingIs
    <3>3. CASE step # 7
      <4>1. step' = step + 1 /\ job' = job /\ complete' = complete
        BY <1>4, <2>3, <3>1, <3>2, <3>3
      <4>2. Late'
        <5>1. step' = 2 => NoTwo(sent) BY <1>2, <3>0, <3>2, <4>1 DEF Late
        <5>2. step' = 3 => NoData(sent) BY <1>2, <3>0, <3>2, <4>1 DEF Late
        <5>3. step' # 1 BY <1>2, <3>2, <4>1
        <5> QED BY <1>1, <2>5, <5>1, <5>2, <5>3 DEF Late
      <4>3. OnTime'
        <5>1. step' \in {2, 3, 4, 5, 7} BY <3>2, <3>3, <4>1
        <5>2. step' = 4 => sent = <<>> /\ ctl.data = piece BY <1>2, <3>0, <3>2, <4>1 DEF Late
        <5>3. step' = 5 => sent = <<>> /\ ctl.data = piece /\ ctl.on
          BY <1>2, <3>0, <3>2, <4>1 DEF OnTime
        <5>4. step' = 7 => sent = <<>> /\ ~ ctl.on BY <1>2, <3>0, <3>2, <4>1 DEF OnTime
        <5> QED BY <1>1, <2>5, <5>1, <5>2, <5>3, <5>4 DEF OnTime
      <4>4. Progress' BY <2>3, <2>7, <4>2, <4>3 DEF Progress
      <4>5. Silent' BY <1>5, <4>1 DEF Silent
      <4> QED BY <1>6, <4>4, <4>5
    <3>4. CASE step = 7
      <4>1. sent = <<>> /\ ~ ctl.on /\ ctl.data = "fake"
        BY <1>2, <3>0, <3>4 DEF OnTime
      <4>2. job' = "none" BY <1>4, <2>3, <3>1, <3>4
      <4>3. Silent' BY <1>1, <4>1, AdapterAssumption DEF Silent
      <4>4. Progress' BY <4>2 DEF Progress
      <4> QED BY <1>6, <4>3, <4>4
    <3> QED BY <3>3, <3>4
  <2> QED BY <2>6, <2>7
<1> QED BY <1>7, <1>8, <1>9

LEMMA SleepEndsKeeps ==
  ASSUME AdapterInv, SleepEnds
  PROVE  Going' /\ Progress' /\ Silent'
<1>1. /\ Sleeping /\ job = "piece" /\ GoOn(mode) /\ Busy
      /\ UNCHANGED <<ctl, sent, opened, mode, ongoing, answer, waiting, piece, disturbed, behind>>
  BY DEF SleepEnds, controller, object, Sleeping, Busy
<1>2. step \in DOMAIN Steps /\ ~ waiting /\ ~ complete
  BY <1>1 DEF AdapterInv, TypeOK, Going
<1>3. Steps = AdvertiseSteps(mode) /\ NextStep(mode) = step + 1 BY <1>1 DEF Steps, NextStep
<1>4. step' = step + 1 /\ job' = job /\ complete' = complete
  <2>1. CASE mode = "mgmt"
    <3>1. step = 2 /\ DOMAIN Steps = 1 .. 3
      BY <1>1, <1>2, <1>3, <2>1, SleepingIs, ManagedStepsAre
    <3> QED BY <1>1, <1>3, <3>1 DEF GoOn
  <2>2. CASE mode # "mgmt"
    <3>1. step = 5 /\ DOMAIN Steps = 1 .. 7
      BY <1>1, <1>2, <1>3, <2>2, SleepingIs, AdvertiseStepsAre
    <3> QED BY <1>1, <1>3, <3>1 DEF GoOn
  <2> QED BY <2>1, <2>2
<1>5. ~ Done' /\ (\A op : ~ Awaited(op)') /\ ~ waiting' BY <1>1, <1>2 DEF Done, Awaited
<1>6. Going' /\ Silent' BY <1>2, <1>4, <1>5 DEF Going, Silent
<1>7. ASSUME Sound PROVE IF mode = "mgmt" THEN ByManager' ELSE Late' /\ OnTime'
  <2>1. IF mode = "mgmt" THEN ByManager ELSE Late /\ OnTime
    BY <1>1, <1>7 DEF AdapterInv, Progress
  <2>2. CASE mode = "mgmt"
    <3>1. step = 2 BY <1>1, <1>2, <2>2, SleepingIs
    <3>2. step' = 3 /\ sent = <<>> BY <1>4, <2>1, <2>2, <3>1 DEF ByManager
    <3> QED BY <1>1, <1>5, <2>2, <3>2 DEF ByManager
  <2>3. CASE mode # "mgmt"
    <3>1. step = 5 BY <1>1, <1>2, <2>3, SleepingIs
    <3>2. step' = 6 /\ sent = <<>> BY <1>4, <2>1, <2>3, <3>1 DEF OnTime
    <3> QED BY <1>1, <1>5, <2>3, <3>2 DEF Late, OnTime
  <2> QED BY <2>2, <2>3
<1>8. Progress' BY <1>1, <1>7 DEF Progress, Sound
<1> QED BY <1>6, <1>8

\* A piece that ends with an exception says nothing of the controller.
LEMMA RaiseKeeps ==
  ASSUME AdapterInv, Raise
  PROVE  Going' /\ Progress' /\ Silent'
<1>1. job' = "none" /\ complete' = complete /\ ~ complete /\ waiting' = FALSE
  BY DEF Raise, aux, AdapterInv, Going
<1> QED BY <1>1 DEF Going, Progress, Silent, Busy

\* No answer is taken any more.
LEMMA CloseKeeps ==
  ASSUME AdapterInv, Close
  PROVE  Going' /\ Progress' /\ Silent'
<1>1. /\ opened' = FALSE
      /\ UNCHANGED <<ctl, sent, mode, ongoing, answer, job, step, waiting, piece,
                     complete, disturbed, behind>>
  BY DEF Close, controller, aux
<1>2. /\ Steps' = Steps /\ Busy' = Busy /\ Sleeping' = Sleeping /\ Sound' = Sound
      /\ Done' = Done /\ \A op : ~ Awaited(op)'
  BY <1>1 DEF Steps, Busy, Sleeping, Sound, Done, Awaited
<1>3. Going' /\ Silent' BY <1>1, <1>2 DEF AdapterInv, Going, Silent
<1>4. ByManager => ByManager' BY <1>1, <1>2 DEF ByManager
<1>5. Late => Late' BY <1>1, <1>2 DEF Late
<1>6. OnTime => OnTime' BY <1>1, <1>2 DEF OnTime
<1>7. Progress' BY <1>1, <1>2, <1>4, <1>5, <1>6 DEF AdapterInv, Progress
<1> QED BY <1>3, <1>7

LEMMA ResetKeeps ==
  ASSUME AdapterInv, Reset
  PROVE  Going' /\ Progress' /\ Silent'
<1>1. disturbed' = TRUE /\ UNCHANGED <<opened, mode, ongoing, answer, job, step, waiting, complete>>
  BY DEF Reset, object
<1>2. Steps' = Steps /\ Busy' = Busy /\ Sleeping' = Sleeping /\ ~ Sound'
  BY <1>1 DEF Steps, Busy, Sleeping, Sound
<1> QED BY <1>1, <1>2 DEF AdapterInv, Going, Progress, Silent

\* The controller executes a command. Of the commands of a sequence that are left, the first
\* one that may be taken for the awaited one is followed by fewer of the others.
LEMMA ExecuteLate ==
  ASSUME Late, sent \in Seq(Commands), sent # <<>>, sent' = Tail(sent),
         step \in 1 .. 7, waiting \in BOOLEAN, answer' \in {answer, "ok"},
         answer' = (IF opened /\ Head(sent).op = ongoing THEN "ok" ELSE answer),
         waiting => ongoing = (IF step = 1 THEN "enable" ELSE IF step = 2 THEN "parameters"
                               ELSE IF step = 3 THEN "data" ELSE ongoing),
         Head(sent).op = "data" => ctl'.data = Head(sent).arg,
         UNCHANGED <<opened, ongoing, step, waiting, piece>>
  PROVE  Late'
<1> DEFINE n == Len(sent)
<1>1. /\ Head(sent) = sent[1] /\ n \in Nat \ {0} /\ DOMAIN sent = 1 .. n
      /\ Len(sent') = n - 1 /\ DOMAIN sent' = 1 .. n - 1 /\ sent' \in Seq(Commands)
      /\ \A i \in 1 .. n - 1 : sent'[i] = sent[i + 1]
  BY TailIs
<1>2. /\ NoAll(sent) => NoAll(sent')
      /\ NoTwo(sent) => NoTwo(sent')
      /\ NoData(sent) => NoData(sent')
      /\ NoAll(sent) /\ sent[1].op = "enable" => NoTwo(sent')
      /\ NoTwo(sent) /\ sent[1].op = "parameters" => NoData(sent')
  BY ExecutedLeaves
<1> HIDE DEF n
<1>3. \A op : Awaited(op)' => Awaited(op) /\ Head(sent).op # op
  BY DEF Awaited
<1>4. \A op : Done' /\ ongoing = op => Done \/ (Awaited(op) /\ sent[1].op = op)
  BY <1>1 DEF Awaited, Done
<1>5. step = 1 /\ ~ waiting => NoAll(sent') BY <1>2 DEF Late
<1>6. step = 1 /\ Awaited("enable")' => NoAll(sent') BY <1>2, <1>3 DEF Late
<1>7. step = 1 /\ Done' => NoTwo(sent')
  <2>1. step = 1 /\ Done' => ongoing = "enable" BY DEF Done
  <2> QED BY <1>2, <1>4, <2>1 DEF Late
<1>8. step = 2 /\ ~ waiting => NoTwo(sent') BY <1>2 DEF Late
<1>9. step = 2 /\ Awaited("parameters")' => NoTwo(sent') BY <1>2, <1>3 DEF Late
<1>10. step = 2 /\ Done' => NoData(sent')
  <2>1. step = 2 /\ Done' => ongoing = "parameters" BY DEF Done
  <2> QED BY <1>2, <1>4, <2>1 DEF Late
<1>11. step = 3 /\ ~ waiting => NoData(sent') BY <1>2 DEF Late
<1>12. ASSUME step = 3, Awaited("data")'
       PROVE  /\ sent' # <<>> /\ sent'[Len(sent')] = Command("data", piece)
              /\ \A i \in 1 .. Len(sent') - 1 : sent'[i].op # "data"
  <2>1. /\ Awaited("data") /\ sent[1].op # "data" /\ sent[n] = Command("data", piece)
        /\ \A i \in 1 .. n - 1 : sent[i].op # "data"
    BY <1>1, <1>3, <1>12 DEF Late, n
  <2>2. n > 1 BY <1>1, <2>1 DEF Command
  <2>3. sent' # <<>>
    <3>1. Len(sent') = n - 1 /\ n \in Nat /\ n > 1 BY <1>1, <2>2
    <3>2. Len(<<>>) = 0 OBVIOUS
    <3>3. sent' = <<>> => Len(sent') = 0 BY <3>2, Zenon
    <3> QED BY <3>1, <3>3
  <2>4. sent'[n - 1] = sent[n] BY <1>1, <2>2
  <2>5. \A i \in 1 .. n - 2 : sent'[i] = sent[i + 1] /\ sent[i + 1].op # "data"
    BY <1>1, <2>1, <2>2
  <2>6. Len(sent') - 1 = n - 2 BY <1>1
  <2> QED BY <1>1, <2>1, <2>3, <2>4, <2>5, <2>6
<1>13. ASSUME step = 3, Done' PROVE sent' = <<>> /\ ctl'.data = piece
  <2>1. ongoing = "data" BY <1>13 DEF Done
  <2>2. ~ Done BY <1>13 DEF Late
  <2>3. /\ sent[1].op = "data" /\ sent[n] = Command("data", piece)
        /\ \A i \in 1 .. n - 1 : sent[i].op # "data"
    BY <1>1, <1>4, <1>13, <2>1, <2>2 DEF Late, n
  <2>4. n = 1 BY <1>1, <2>3
  <2>5. sent' = <<>> BY <1>1, <2>4
  <2> QED BY <1>1, <2>3, <2>4, <2>5 DEF Command
<1>14. piece' = piece /\ step' = step /\ waiting' = waiting OBVIOUS
<1> QED BY <1>5, <1>6, <1>7, <1>8, <1>9, <1>10, <1>11, <1>12, <1>13, <1>14 DEF Late, Command

\* Then one command is left, the one that is awaited.
LEMMA OneLeft ==
  ASSUME NEW c, sent = <<c>>
  PROVE  sent # <<>> /\ Head(sent) = c /\ Tail(sent) = <<>>
OBVIOUS

LEMMA ExecuteOnTime ==
  ASSUME OnTime, sent # <<>>, sent' = Tail(sent),
         step \in 1 .. 7, waiting \in BOOLEAN, step = 5 => ~ waiting,
         answer' = (IF opened /\ Head(sent).op = ongoing THEN "ok" ELSE answer),
         waiting => ongoing = (IF step \in {4, 6} THEN "enable"
                               ELSE IF step = 7 THEN "data" ELSE ongoing),
         ctl \in [on : BOOLEAN, data : Data], ctl' = Effect(Head(sent)),
         UNCHANGED <<opened, ongoing, step, waiting, piece>>
  PROVE  OnTime'
<1>1. \A op : Awaited(op)' => Awaited(op) /\ Head(sent).op # op
  BY DEF Awaited
<1>2. \A op : Done' /\ ongoing = op => Done \/ (Awaited(op) /\ Head(sent).op = op)
  BY DEF Awaited, Done
<1>3. /\ ~ (step = 4 /\ ~ waiting) /\ ~ (step = 4 /\ Done) /\ step # 5
      /\ ~ (step = 6 /\ ~ waiting) /\ ~ (step = 6 /\ Done)
      /\ ~ (step = 7 /\ ~ waiting) /\ ~ (step = 7 /\ Done)
  BY DEF OnTime
<1>4. ~ (step = 4 /\ Awaited("enable")')
  <2>1. ASSUME step = 4, Awaited("enable")' PROVE FALSE
    <3>1. sent = <<Command("enable", "on")>> BY <1>1, <2>1 DEF OnTime
    <3>2. Head(sent).op = "enable" BY <3>1, OneLeft DEF Command
    <3> QED BY <1>1, <2>1, <3>2
  <2> QED BY <2>1
<1>5. ~ (step = 6 /\ Awaited("enable")')
  <2>1. ASSUME step = 6, Awaited("enable")' PROVE FALSE
    <3>1. sent = <<Command("enable", "off")>> BY <1>1, <2>1 DEF OnTime
    <3>2. Head(sent).op = "enable" BY <3>1, OneLeft DEF Command
    <3> QED BY <1>1, <2>1, <3>2
  <2> QED BY <2>1
<1>6. ~ (step = 7 /\ Awaited("data")')
  <2>1. ASSUME step = 7, Awaited("data")' PROVE FALSE
    <3>1. sent = <<Command("data", "fake")>> BY <1>1, <2>1 DEF OnTime
    <3>2. Head(sent).op = "data" BY <3>1, OneLeft DEF Command
    <3> QED BY <1>1, <2>1, <3>2
  <2> QED BY <2>1
<1>7. ASSUME step = 4, Done' PROVE sent' = <<>> /\ ctl'.data = piece /\ ctl'.on
  <2>1. Awaited("enable") BY <1>2, <1>3, <1>7 DEF Done
  <2>2. sent = <<Command("enable", "on")>> /\ ctl.data = piece BY <1>7, <2>1 DEF OnTime
  <2>3. Head(sent) = Command("enable", "on") /\ sent' = <<>> BY <2>2, OneLeft
  <2>4. Head(sent).op = "enable" /\ (Head(sent).arg = "on" <=> TRUE) BY <2>3 DEF Command
  <2>5. ctl' = [ctl EXCEPT !.on = (Head(sent).arg = "on")] BY <2>4 DEF Effect
  <2>6. ctl'.data = ctl.data /\ (ctl'.on <=> Head(sent).arg = "on") BY <2>5
  <2> QED BY <2>2, <2>3, <2>4, <2>6
<1>8. ASSUME step = 6, Done' PROVE sent' = <<>> /\ ~ ctl'.on
  <2>1. Awaited("enable") BY <1>2, <1>3, <1>8 DEF Done
  <2>2. sent = <<Command("enable", "off")>> BY <1>8, <2>1 DEF OnTime
  <2>3. Head(sent) = Command("enable", "off") /\ sent' = <<>> BY <2>2, OneLeft
  <2>4. Head(sent).op = "enable" /\ (Head(sent).arg = "on" <=> FALSE) BY <2>3 DEF Command
  <2>5. ctl' = [ctl EXCEPT !.on = (Head(sent).arg = "on")] BY <2>4 DEF Effect
  <2>6. ctl'.data = ctl.data /\ (ctl'.on <=> Head(sent).arg = "on") BY <2>5
  <2> QED BY <2>3, <2>4, <2>6
<1>9. ASSUME step = 7, Done' PROVE sent' = <<>> /\ ~ ctl'.on /\ ctl'.data = "fake"
  <2>1. Awaited("data") BY <1>2, <1>3, <1>9 DEF Done
  <2>2. sent = <<Command("data", "fake")>> /\ ~ ctl.on BY <1>9, <2>1 DEF OnTime
  <2>3. Head(sent) = Command("data", "fake") /\ sent' = <<>> BY <2>2, OneLeft
  <2>4. ctl' = [ctl EXCEPT !.data = "fake"] BY <2>3 DEF Effect, Command
  <2> QED BY <2>2, <2>3, <2>4
<1>10. piece' = piece /\ step' = step /\ waiting' = waiting OBVIOUS
<1> QED BY <1>3, <1>4, <1>5, <1>6, <1>7, <1>8, <1>9, <1>10 DEF OnTime

LEMMA ExecuteByManager ==
  ASSUME ByManager, sent # <<>>, sent' = Tail(sent),
         step \in 1 .. 3, waiting \in BOOLEAN, step = 2 => ~ waiting,
         answer' = (IF opened /\ Head(sent).op = ongoing THEN "ok" ELSE answer),
         waiting => ongoing = (IF step = 1 THEN "add" ELSE IF step = 3 THEN "remove" ELSE ongoing),
         ctl' = Effect(Head(sent)),
         UNCHANGED <<opened, ongoing, step, waiting, piece>>
  PROVE  ByManager'
<1>1. \A op : Awaited(op)' => Awaited(op) /\ Head(sent).op # op
  BY DEF Awaited
<1>2. \A op : Done' /\ ongoing = op => Done \/ (Awaited(op) /\ Head(sent).op = op)
  BY DEF Awaited, Done
<1>3. /\ ~ (step = 1 /\ ~ waiting) /\ ~ (step = 1 /\ Done) /\ step # 2
      /\ ~ (step = 3 /\ ~ waiting) /\ ~ (step = 3 /\ Done)
  BY DEF ByManager
<1>4. ~ (step = 1 /\ Awaited("add")')
  <2>1. ASSUME step = 1, Awaited("add")' PROVE FALSE
    <3>1. sent = <<Command("add", piece)>> BY <1>1, <2>1 DEF ByManager
    <3>2. Head(sent).op = "add" BY <3>1, OneLeft DEF Command
    <3> QED BY <1>1, <2>1, <3>2
  <2> QED BY <2>1
<1>5. ~ (step = 3 /\ Awaited("remove")')
  <2>1. ASSUME step = 3, Awaited("remove")' PROVE FALSE
    <3>1. sent = <<Command("remove", "none")>> BY <1>1, <2>1 DEF ByManager
    <3>2. Head(sent).op = "remove" BY <3>1, OneLeft DEF Command
    <3> QED BY <1>1, <2>1, <3>2
  <2> QED BY <2>1
<1>6. ASSUME step = 1, Done' PROVE sent' = <<>> /\ ctl'.data = piece /\ ctl'.on
  <2>1. Awaited("add") BY <1>2, <1>3, <1>6 DEF Done
  <2>2. sent = <<Command("add", piece)>> BY <1>6, <2>1 DEF ByManager
  <2>3. Head(sent) = Command("add", piece) /\ sent' = <<>> BY <2>2, OneLeft
  <2>4. Head(sent).op = "add" /\ Head(sent).arg = piece BY <2>3 DEF Command
  <2>5. ctl' = [on |-> TRUE, data |-> piece] BY <2>4 DEF Effect
  <2> QED BY <2>3, <2>5
<1>7. ASSUME step = 3, Done' PROVE sent' = <<>> /\ ~ ctl'.on /\ ctl'.data = "none"
  <2>1. Awaited("remove") BY <1>2, <1>3, <1>7 DEF Done
  <2>2. sent = <<Command("remove", "none")>> BY <1>7, <2>1 DEF ByManager
  <2>3. Head(sent) = Command("remove", "none") /\ sent' = <<>> BY <2>2, OneLeft
  <2>4. ctl' = [on |-> FALSE, data |-> "none"] BY <2>3 DEF Effect, Command
  <2> QED BY <2>3, <2>4
<1>8. piece' = piece /\ step' = step /\ waiting' = waiting OBVIOUS
<1> QED BY <1>3, <1>4, <1>5, <1>6, <1>7, <1>8 DEF ByManager

\* Only a command that is not refused leaves the job sound.
LEMMA ExecuteKeeps ==
  ASSUME AdapterInv, Execute
  PROVE  Going' /\ Progress' /\ Silent'
<1>1. /\ sent # <<>> /\ sent' = Tail(sent)
      /\ UNCHANGED <<opened, mode, ongoing, job, step, waiting, piece, complete, behind>>
      /\ \/ /\ disturbed' = disturbed /\ ctl' = Effect(Head(sent))
            /\ answer' = (IF opened /\ Head(sent).op = ongoing THEN "ok" ELSE answer)
         \/ disturbed' = (disturbed \/ job # "open" \/ ~ Managed(Head(sent)))
  BY DEF Execute, Recv
<1>2. /\ sent \in Seq(Commands) /\ ctl \in [on : BOOLEAN, data : Data] /\ waiting \in BOOLEAN
      /\ (Busy => step \in DOMAIN Steps)
  BY DEF AdapterInv, TypeOK
<1>3. Steps' = Steps /\ Busy' = Busy /\ Sleeping' = Sleeping
  BY <1>1 DEF Steps, Busy, Sleeping
<1>4. Going' BY <1>1, <1>3 DEF AdapterInv, Going
<1>5. ASSUME Sound', job # "open"
      PROVE  /\ Sound /\ ctl' = Effect(Head(sent))
             /\ answer' = (IF opened /\ Head(sent).op = ongoing THEN "ok" ELSE answer)
  <2>1. ~ disturbed' BY <1>5 DEF Sound
  <2>2. disturbed' = disturbed /\ ctl' = Effect(Head(sent))
        /\ answer' = (IF opened /\ Head(sent).op = ongoing THEN "ok" ELSE answer)
    BY <1>1, <1>5, <2>1
  <2> QED BY <1>1, <1>5, <2>2 DEF Sound
<1>6. Silent'
  <2>1. ASSUME complete', ~ Busy', Sound' PROVE FALSE
    <3>1. complete /\ ~ Busy /\ Sound BY <1>1, <1>3, <1>5, <2>1 DEF Busy
    <3> QED BY <1>1, <3>1 DEF AdapterInv, Silent
  <2> QED BY <2>1 DEF Silent
<1>7. Progress'
  <2> SUFFICES ASSUME job = "piece", Sound'
               PROVE  IF mode = "mgmt" THEN ByManager' ELSE Late' /\ OnTime'
    BY <1>1 DEF Progress
  <2>1. /\ Sound /\ ctl' = Effect(Head(sent))
        /\ answer' = (IF opened /\ Head(sent).op = ongoing THEN "ok" ELSE answer)
    BY <1>5
  <2>2. IF mode = "mgmt" THEN ByManager ELSE Late /\ OnTime BY <2>1 DEF AdapterInv, Progress
  <2>3. Steps = AdvertiseSteps(mode) /\ step \in DOMAIN Steps BY <1>2 DEF Steps, Busy
  <2>4. waiting => ongoing = Steps[step].op /\ ~ Sleeping BY DEF AdapterInv, Going
  <2>5. CASE mode = "mgmt"
    <3>1. step \in 1 .. 3 /\ (step = 2 => ~ waiting) BY <2>3, <2>4, <2>5, SleepingIs
    <3>2. /\ Steps[1].op = "add" /\ Steps[3].op = "remove"
      BY <2>3, <2>5, ManagedStepsAre DEF Command
    <3>3. waiting => ongoing = (IF step = 1 THEN "add" ELSE IF step = 3 THEN "remove" ELSE ongoing)
      BY <2>4, <3>2
    <3> QED BY <1>1, <1>2, <2>1, <2>2, <2>5, <3>1, <3>3, ExecuteByManager
  <2>6. CASE mode # "mgmt"
    <3>1. step \in 1 .. 7 /\ (step = 5 => ~ waiting) BY <2>3, <2>4, <2>6, SleepingIs
    <3>2. /\ Steps[1].op = "enable" /\ Steps[2].op = "parameters" /\ Steps[3].op = "data"
          /\ Steps[4].op = "enable" /\ Steps[6].op = "enable" /\ Steps[7].op = "data"
      BY <2>3, <2>6, AdvertiseStepsAre DEF Command
    <3>3. waiting => ongoing = (IF step = 1 THEN "enable" ELSE IF step = 2 THEN "parameters"
                                ELSE IF step = 3 THEN "data" ELSE ongoing)
      BY <2>4, <3>2
    <3>4. waiting => ongoing = (IF step \in {4, 6} THEN "enable"
                                ELSE IF step = 7 THEN "data" ELSE ongoing)
      BY <2>4, <3>2
    <3>5. Head(sent).op = "data" => ctl'.data = Head(sent).arg BY <1>2, <2>1 DEF Effect
    <3>6. Late /\ OnTime BY <2>2, <2>6
    <3>7. answer' \in {answer, "ok"} BY <2>1
    <3>8. Late' BY <1>1, <1>2, <2>1, <3>1, <3>3, <3>5, <3>6, <3>7, ExecuteLate
    <3>9. OnTime' BY <1>1, <1>2, <2>1, <3>1, <3>4, <3>6, ExecuteOnTime
    <3> QED BY <2>6, <3>8, <3>9
  <2> QED BY <2>5, <2>6
<1> QED BY <1>4, <1>6, <1>7

-----------------------------------------------------------------------------
LEMMA InvInit == Init => AdapterInv
<1> SUFFICES ASSUME Init PROVE AdapterInv OBVIOUS
<1>1. /\ kind \in {"legacy", "extended", "managed"} /\ ctl = [on |-> FALSE, data |-> "none"]
      /\ sent = <<>> /\ opened = FALSE /\ mode = "hci" /\ job = "none" /\ step = 1
      /\ waiting = FALSE /\ ongoing = "none" /\ answer = "none" /\ refused = 0
      /\ piece = "none" /\ complete = FALSE /\ disturbed = FALSE /\ behind = 0
  BY DEF Init
<1>2. "none" \in Data BY DEF Data
<1>3. <<>> \in Seq(Commands) /\ Len(<<>>) = 0 OBVIOUS
<1>4. ~ Busy BY <1>1 DEF Busy
<1>5. MaxSent \in Nat BY AdapterAssumption
<1>6. TypeOK
  <2>1. /\ ctl \in [on : BOOLEAN, data : Data] /\ sent \in Seq(Commands) /\ Len(sent) <= MaxSent
        /\ piece \in Data /\ behind \in 0 .. MaxSent /\ refused \in 0 .. 2
    BY <1>1, <1>2, <1>3, <1>5
  <2>2. {complete, disturbed} \subseteq BOOLEAN /\ waiting \in BOOLEAN /\ opened \in BOOLEAN
    BY <1>1
  <2> QED BY <1>1, <1>4, <2>1, <2>2 DEF TypeOK
<1>7. Trial /\ Going /\ Progress /\ Silent BY <1>1, <1>4 DEF Trial, Going, Progress, Silent
<1> QED BY <1>6, <1>7 DEF AdapterInv

LEMMA InvStep == AdapterInv /\ [Next]_vars => AdapterInv'
<1> SUFFICES ASSUME AdapterInv, [Next]_vars PROVE AdapterInv' OBVIOUS
<1>1. TypeOK' /\ Trial' BY TypeStep, TrialStep DEF AdapterInv
<1>2. Going' /\ Progress' /\ Silent'
  <2>1. CASE Open BY <2>1, OpenKeeps
  <2>2. ASSUME NEW p \in Pieces, Advertise(p) PROVE Going' /\ Progress' /\ Silent'
    BY <2>2, AdvertiseKeeps DEF AdapterInv
  <2>3. CASE Send BY <2>3, SendKeeps
  <2>4. CASE Answered BY <2>4, AnsweredKeeps
  <2>5. CASE SleepEnds BY <2>5, SleepEndsKeeps
  <2>6. CASE Raise BY <2>6, RaiseKeeps
  <2>7. CASE Close BY <2>7, CloseKeeps
  <2>8. CASE Execute BY <2>8, ExecuteKeeps
  <2>9. CASE Reset BY <2>9, ResetKeeps
  <2>10. CASE UNCHANGED vars
    <3>1. /\ UNCHANGED <<ctl, sent, opened, mode, ongoing, answer, job, step, waiting, piece,
                         complete, disturbed, behind>>
      BY <2>10 DEF vars, controller, object, aux
    <3>2. /\ Steps' = Steps /\ Busy' = Busy /\ Sleeping' = Sleeping /\ Sound' = Sound
          /\ Done' = Done /\ \A op : Awaited(op)' <=> Awaited(op)
      BY <3>1 DEF Steps, Busy, Sleeping, Sound, Done, Awaited
    <3>3. Going' /\ Silent' BY <3>1, <3>2 DEF AdapterInv, Going, Silent
    <3>4. ByManager' <=> ByManager BY <3>1, <3>2 DEF ByManager
    <3>5. Late' <=> Late BY <3>1, <3>2 DEF Late
    <3>6. OnTime' <=> OnTime BY <3>1, <3>2 DEF OnTime
    <3> QED BY <3>1, <3>2, <3>3, <3>4, <3>5, <3>6 DEF AdapterInv, Progress
  <2> QED BY <2>1, <2>2, <2>3, <2>4, <2>5, <2>6, <2>7, <2>8, <2>9, <2>10 DEF Next
<1> QED BY <1>1, <1>2 DEF AdapterInv

LEMMA InvShows == AdapterInv => TypeOK /\ OnAir /\ Silent
<1> SUFFICES ASSUME AdapterInv PROVE TypeOK /\ OnAir /\ Silent OBVIOUS
<1>1. ASSUME Sleeping, Sound PROVE ctl = [on |-> TRUE, data |-> piece] /\ sent = <<>>
  <2>1. job = "piece" /\ step \in DOMAIN Steps /\ ctl \in [on : BOOLEAN, data : Data]
    BY <1>1 DEF Sleeping, AdapterInv, TypeOK, Busy
  <2>2. IF mode = "mgmt" THEN ByManager ELSE Late /\ OnTime
    BY <1>1, <2>1 DEF AdapterInv, Progress
  <2>3. sent = <<>> /\ ctl.data = piece /\ ctl.on
    <3>1. CASE mode = "mgmt"
      <4>1. step = 2 BY <1>1, <2>1, <3>1, SleepingIs
      <4> QED BY <2>2, <3>1, <4>1 DEF ByManager
    <3>2. CASE mode # "mgmt"
      <4>1. step = 5 BY <1>1, <2>1, <3>2, SleepingIs
      <4> QED BY <2>2, <3>2, <4>1 DEF OnTime
    <3> QED BY <3>1, <3>2
  <2> QED BY <2>1, <2>3
<1> QED BY <1>1 DEF AdapterInv, OnAir

\* During the interval of a piece the controller advertises it, and nothing else is left to
\* execute, although answers may be late, lost or taken for another one (_hci_advertise, _recv).
THEOREM PieceIsOnAir == Spec => []OnAir
<1>1. AdapterInv => OnAir BY InvShows
<1> QED BY <1>1, InvInit, InvStep, PTL DEF Spec

\* A piece that is over leaves nothing on the air, to execute, or to be sent again.
THEOREM PieceLeavesSilence == Spec => []Silent
<1>1. AdapterInv => Silent BY InvShows
<1> QED BY <1>1, InvInit, InvStep, PTL DEF Spec

\* Type correctness of the adapter and its controller.
THEOREM AdapterTypeCorrect == Spec => []TypeOK
<1>1. AdapterInv => TypeOK BY InvShows
<1> QED BY <1>1, InvInit, InvStep, PTL DEF Spec

-----------------------------------------------------------------------------
(***************************************************************************)
(* The socket of the adapter: which answer a call may return, and when the *)
(* end of the reception is reported.                                       *)
(***************************************************************************)

\* The calls that are over without their own answer.
Lost(c) == pc[c] \in GivenUp \/ (pc[c] = "answered" /\ got[c] # c)

\* One call holds the lock; the calls are made, and take it, in their order.
OrderOK ==
  /\ \A b, c \in Call : Holds(b) /\ Holds(c) => b = c
  /\ \A b, c \in Call : b < c /\ pc[b] = "new" => pc[c] = "new"
  /\ \A b \in answers : Holds(b) \/ Lost(b)
  /\ \A b \in answers, c \in Call : pc[c] \in {"new", "waiting"} => b < c
  /\ \A b \in answers, c \in Call : Holds(c) => b <= c

\* What the slot holds while a call has the lock.
SlotOK ==
  /\ event => res \in Call /\ res \notin answers
  /\ \A c \in Call : Holds(c) /\ event => res = c \/ (res < c /\ Lost(res))

\* A call that began with no answer due only meets its own.
CleanOK ==
  \A c \in Call : clean[c] /\ Holds(c) => answers \subseteq {c} /\ (event => res = c)

CallInv == SocketTypeOK /\ OrderOK /\ SlotOK /\ CleanOK /\ AnswersOwned

\* The reception that reports its end is that of a socket that is started.
RecepInv ==
  /\ SocketTypeOK
  /\ functional => (phase = "started" /\ errors = 0) \/ (phase = "closed" /\ reception = "ended")
  /\ phase \in {"starting", "interrupted"} => reception # "none"
  /\ socket = "tunnel" /\ phase \in {"opening", "opened"} => reception # "none"
  /\ IsClosed => reception \in {"none", "ended"}
  /\ socket = "plain" /\ phase \in {"new", "opened"} => reception = "none"
  /\ phase = "new" => reception = "none"
  /\ phase = "opening" => socket = "tunnel"
  /\ phase \notin {"started", "closed", "interrupted"} =>
       errors = 0 /\ (reception = "ended" => early)
  /\ reception # "ended" => errors = 0 /\ ~early
  /\ phase = "started" => functional \/ reception = "ended"
  /\ EndReported

-----------------------------------------------------------------------------
(* Types. *)

LEMMA InitTypeOK ==
  SocketInit => SocketTypeOK
<1> SUFFICES ASSUME SocketInit PROVE SocketTypeOK OBVIOUS
<1>1. pc \in [Call -> {"new", "waiting", "writing", "sent"} \cup Ended] BY DEF SocketInit
<1>2. got \in [Call -> Call \cup {None}] BY DEF SocketInit
<1>3. clean \in [Call -> BOOLEAN] BY DEF SocketInit
<1> QED BY <1>1, <1>2, <1>3 DEF SocketInit, SocketTypeOK

LEMMA StepTypeOK ==
  ASSUME SocketTypeOK, [SocketNext]_socketVars
  PROVE  SocketTypeOK'
<1> USE DEF SocketTypeOK
<1>1. ASSUME NEW c \in Call, Ask(c) PROVE SocketTypeOK'
  BY <1>1 DEF Ask, life, recep, slot
<1>2. ASSUME NEW c \in Call, Begin(c) PROVE SocketTypeOK'
  <2>1. PICK next \in AfterCall : pc' = [pc EXCEPT ![c] = next] BY <1>2 DEF Begin
  <2>2. next \in {"raised", "sent", "writing"} BY DEF AfterCall
  <2>3. pc' \in [Call -> {"new", "waiting", "writing", "sent"} \cup Ended] BY <2>1, <2>2 DEF Ended
  <2> QED BY <1>2, <2>3 DEF Begin, life, recep, None
<1>3. ASSUME NEW c \in Call, Answer(c) PROVE SocketTypeOK'
  BY <1>3 DEF Answer, life, recep
<1>4. ASSUME NEW c \in Call, Return(c) PROVE SocketTypeOK'
  BY <1>4 DEF Return, life, recep, slot, Ended
<1>5. ASSUME NEW c \in Call, Written(c) \/ Timeout(c) \/ Cancel(c) PROVE SocketTypeOK'
  BY <1>5 DEF Written, Timeout, Cancel, life, recep, slot,
              Ended, GivenUp
<1>6. CASE OpenSocket \/ ReceptionBegins
  BY <1>6 DEF OpenSocket, ReceptionBegins, calls, slot
<1>7. CASE StartRecv
  <2>1. CASE socket = "plain" /\ reception' = "created" /\ UNCHANGED <<starter, pc>>
    BY <1>7, <2>1 DEF StartRecv, slot
  <2>2. ASSUME NEW c \in Call, starter' = c, pc' = [pc EXCEPT ![c] = "waiting"], UNCHANGED reception
        PROVE  SocketTypeOK'
    BY <1>7, <2>2 DEF StartRecv, slot
  <2> QED BY <1>7, <2>1, <2>2 DEF StartRecv
<1>8. CASE Started \/ StartFails \/ CloseSocket
  BY <1>8 DEF Started, StartFails, CloseSocket, recep, calls,
              slot
<1>9. ASSUME NEW r \in Read, EndReception(r) PROVE SocketTypeOK'
  <2>1. errors' \in Nat /\ early' \in BOOLEAN BY <1>9 DEF EndReception
  <2> QED BY <1>9, <2>1 DEF EndReception, life, calls, slot
<1>10. CASE UNCHANGED socketVars
  BY <1>10 DEF socketVars, life, recep, calls, slot
<1> QED BY <1>1, <1>2, <1>3, <1>4, <1>5, <1>6, <1>7, <1>8, <1>9, <1>10 DEF SocketNext

-----------------------------------------------------------------------------
(* The calls. *)

LEMMA InitCalls ==
  SocketInit => CallInv
<1> SUFFICES ASSUME SocketInit PROVE CallInv OBVIOUS
<1>1. SocketTypeOK BY InitTypeOK
<1>2. OrderOK BY DEF SocketInit, OrderOK, Holds
<1>3. SlotOK /\ CleanOK /\ AnswersOwned
  BY DEF SocketInit, SlotOK, CleanOK, AnswersOwned, WrongAnswerOnlyAfterGivenUp,
         CleanCallOwnAnswer, Holds
<1> QED BY <1>1, <1>2, <1>3 DEF CallInv

\* A step that moves no call keeps what is known of them.
LEMMA CallsAside ==
  ASSUME CallInv, SocketTypeOK', UNCHANGED <<calls, slot>>
  PROVE  CallInv'
  BY DEF CallInv, OrderOK, SlotOK, CleanOK, AnswersOwned,
         WrongAnswerOnlyAfterGivenUp,
         CleanCallOwnAnswer, Lost, Holds, calls, slot

\* A step by which no call is answered keeps what is known of the answers returned.
LEMMA OwnedAside ==
  ASSUME SocketTypeOK, SocketTypeOK', AnswersOwned, got' = got,
         \A b \in Call : Lost(b) => Lost(b)',
         \A b \in Call : pc'[b] = "answered" => pc[b] = "answered" /\ clean'[b] = clean[b]
  PROVE  AnswersOwned'
<1>1. ASSUME NEW d \in Call, pc'[d] = "answered", got'[d] # d
      PROVE  /\ got'[d] \in 1 .. (d - 1)
             /\ pc'[got'[d]] \in GivenUp \/ (pc'[got'[d]] = "answered" /\ got'[got'[d]] # got'[d])
  <2>1. PICK r \in 1 .. (d - 1) : got[d] = r /\ Lost(r)
    BY <1>1 DEF AnswersOwned, WrongAnswerOnlyAfterGivenUp, Lost
  <2>2. r \in Call BY SocketAssumption DEF Call
  <2> QED BY <2>1, <2>2 DEF Lost
<1>2. CleanCallOwnAnswer' BY DEF AnswersOwned, CleanCallOwnAnswer
<1> QED BY <1>1, <1>2 DEF AnswersOwned, WrongAnswerOnlyAfterGivenUp

\* A call is made: it is the first that was not (Ask, StartRecv).
LEMMA AskedCalls ==
  ASSUME CallInv, SocketTypeOK', NEW c \in Call, Asked(c),
         pc' = [pc EXCEPT ![c] = "waiting"], UNCHANGED <<got, clean, answers, slot>>
  PROVE  CallInv'
<1> USE DEF CallInv, SocketTypeOK, Call
<1>1. \A b \in Call : b # c => pc'[b] = pc[b] OBVIOUS
<1>2. \A b \in Call : Lost(b) => Lost(b)' BY DEF Lost, Asked, GivenUp
<1>3. OrderOK'
  <2>1. \A a, b \in Call : Holds(a)' /\ Holds(b)' => a = b BY <1>1 DEF OrderOK, Holds
  <2>2. \A a, b \in Call : a < b /\ pc'[a] = "new" => pc'[b] = "new"
    BY <1>1 DEF OrderOK, Asked
  <2>3. \A b \in answers : Holds(b)' \/ Lost(b)'
    BY <1>1, <1>2 DEF OrderOK, Asked, Lost, GivenUp, Holds
  <2>4. \A b \in answers, d \in Call : pc'[d] \in {"new", "waiting"} => b < d
    BY <1>1 DEF OrderOK, Asked
  <2>5. \A b \in answers, d \in Call : Holds(d)' => b <= d
    BY <1>1 DEF OrderOK, Holds
  <2> QED BY <2>1, <2>2, <2>3, <2>4, <2>5 DEF OrderOK
<1>4. SlotOK' BY <1>1, <1>2 DEF SlotOK, slot, Holds
<1>5. CleanOK' BY <1>1 DEF CleanOK, slot, Holds
<1>6. AnswersOwned'
  BY <1>1 DEF AnswersOwned, WrongAnswerOnlyAfterGivenUp,
              CleanCallOwnAnswer, Asked, GivenUp
<1> QED BY <1>3, <1>4, <1>5, <1>6 DEF CallInv

\* The lock is taken: no call before this one waits, nothing is in the slot.
LEMMA BeginCalls ==
  ASSUME CallInv, SocketTypeOK', NEW c \in Call, Begin(c)
  PROVE  CallInv'
<1> USE DEF CallInv, SocketTypeOK, Call
<1>1. \A b \in Call : b # c => pc'[b] = pc[b] BY DEF Begin
<1>2. pc[c] = "waiting" /\ pc'[c] \in {"sent", "writing", "raised"} BY DEF Begin, AfterCall
<1>3. ~event' /\ got' = got /\ \A b \in Call : b # c => clean'[b] = clean[b]
  BY DEF Begin
<1>4. \A b \in Call : ~ Holds(b) BY DEF Begin, LockFree
<1>5. c \notin answers BY <1>2 DEF OrderOK
<1>6. answers' \subseteq answers \cup {c} /\ (c \in answers' => Holds(c)')
  BY <1>5 DEF Begin, AfterCall, Holds
<1>7. \A b \in Call : Lost(b) => Lost(b)' BY <1>1, <1>2, <1>3 DEF Lost, GivenUp
<1>8. \A b \in Call : b < c => pc[b] \notin {"new", "waiting"}
  BY <1>2 DEF Begin, OrderOK
<1>9. OrderOK'
  <2>1. \A a, b \in Call : Holds(a)' /\ Holds(b)' => a = b BY <1>1, <1>4 DEF Holds
  <2>2. \A a, b \in Call : a < b /\ pc'[a] = "new" => pc'[b] = "new"
    BY <1>1, <1>2, <1>8 DEF OrderOK
  <2>3. \A b \in answers' : Holds(b)' \/ Lost(b)' BY <1>4, <1>6, <1>7 DEF OrderOK
  <2>4. \A b \in answers', d \in Call : pc'[d] \in {"new", "waiting"} => b < d
    BY <1>1, <1>2, <1>6, <1>8 DEF OrderOK
  <2>5. \A b \in answers', d \in Call : Holds(d)' => b <= d
    BY <1>1, <1>2, <1>4, <1>6 DEF OrderOK, Holds
  <2> QED BY <2>1, <2>2, <2>3, <2>4, <2>5 DEF OrderOK
<1>10. SlotOK' BY <1>3 DEF SlotOK
<1>11. CleanOK'
  <2>1. clean'[c] => answers = {} BY DEF Begin
  <2> QED BY <1>1, <1>3, <1>4, <1>6, <2>1 DEF CleanOK, Holds
<1>12. AnswersOwned'
  BY <1>1, <1>2, <1>3, <1>7, OwnedAside
<1> QED BY <1>9, <1>10, <1>11, <1>12 DEF CallInv

\* An answer comes: it is for the call that holds the lock, or for one that is lost.
LEMMA AnswerCalls ==
  ASSUME CallInv, SocketTypeOK', NEW c \in Call, Answer(c)
  PROVE  CallInv'
<1> USE DEF CallInv, SocketTypeOK, Call
<1>1. pc' = pc /\ got' = got /\ clean' = clean /\ answers' = answers \ {c} /\ res' = c
  BY DEF Answer
<1>2. c \in answers BY DEF Answer
<1>3. \A b \in Call : Lost(b)' <=> Lost(b) BY <1>1 DEF Lost
<1>4. OrderOK' BY <1>1, <1>3 DEF OrderOK, Holds
<1>5. SlotOK'
  <2>1. \A d \in Call : Holds(d) => c = d \/ (c < d /\ Lost(c)) BY <1>2 DEF OrderOK
  <2> QED BY <1>1, <1>3, <2>1 DEF SlotOK, Holds
<1>6. CleanOK' BY <1>1, <1>2 DEF CleanOK, Holds
<1>7. AnswersOwned'
  BY <1>1 DEF AnswersOwned, WrongAnswerOnlyAfterGivenUp, CleanCallOwnAnswer
<1> QED BY <1>4, <1>5, <1>6, <1>7 DEF CallInv

\* A call of the tunnel is written: it holds the lock before, and until it breaks.
LEMMA WrittenCalls ==
  ASSUME CallInv, SocketTypeOK', NEW c \in Call, Written(c)
  PROVE  CallInv'
<1> USE DEF CallInv, SocketTypeOK, Call
<1>1. /\ \A b \in Call : b # c => pc'[b] = pc[b]
      /\ Holds(c) /\ pc[c] = "writing" /\ pc'[c] \in {"sent", "broken"}
      /\ UNCHANGED <<got, clean, answers, slot>>
  BY DEF Written, Holds
<1>2. \A b \in Call : Lost(b) => Lost(b)' BY <1>1 DEF Lost, GivenUp
<1>3. /\ \A b \in Call : Holds(b)' => Holds(b)
      /\ \A b \in Call : Holds(b) => Holds(b)' \/ Lost(b)'
  BY <1>1 DEF Holds, Lost, GivenUp
<1>4. \A b \in Call : pc'[b] \in {"new", "waiting"} <=> pc[b] \in {"new", "waiting"}
  BY <1>1
<1>5. OrderOK'
  <2>1. \A a, b \in Call : Holds(a)' /\ Holds(b)' => a = b BY <1>3 DEF OrderOK
  <2>2. \A a, b \in Call : a < b /\ pc'[a] = "new" => pc'[b] = "new"
    BY <1>1 DEF OrderOK
  <2>3. \A b \in answers' : Holds(b)' \/ Lost(b)' BY <1>1, <1>2, <1>3 DEF OrderOK
  <2>4. \A b \in answers', d \in Call : pc'[d] \in {"new", "waiting"} => b < d
    BY <1>1, <1>4 DEF OrderOK
  <2>5. \A b \in answers', d \in Call : Holds(d)' => b <= d BY <1>1, <1>3 DEF OrderOK
  <2> QED BY <2>1, <2>2, <2>3, <2>4, <2>5 DEF OrderOK
<1>6. SlotOK' BY <1>1, <1>2, <1>3 DEF SlotOK, slot
<1>7. CleanOK' BY <1>1, <1>3 DEF CleanOK, slot
<1>8. AnswersOwned' BY <1>1, <1>2, OwnedAside
<1> QED BY <1>5, <1>6, <1>7, <1>8 DEF CallInv

\* The call that holds the lock ends, with what the slot holds or without.
LEMMA EndCalls ==
  ASSUME CallInv, SocketTypeOK', NEW c \in Call,
         Return(c) \/ Timeout(c) \/ Cancel(c)
  PROVE  CallInv'
<1> USE DEF CallInv, SocketTypeOK, Call
<1>1. /\ \A b \in Call : b # c => pc'[b] = pc[b] /\ got'[b] = got[b]
      /\ clean' = clean /\ answers' = answers /\ UNCHANGED slot
  BY DEF Return, Timeout, Cancel
<1>2. /\ pc[c] \in {"waiting", "writing", "sent"} /\ pc'[c] \in {"answered"} \cup GivenUp
      /\ ~ Holds(c)'
  BY DEF Return, Timeout, Cancel, GivenUp, Holds
<1>3. pc'[c] = "answered" => Holds(c) /\ event /\ got'[c] = res
  BY DEF Return, Timeout, Cancel, Holds
<1>4. \A b \in Call : Lost(b) => Lost(b)' BY <1>1, <1>2 DEF Lost, GivenUp
<1>5. c \in answers => Lost(c)' BY <1>1, <1>2, <1>3 DEF SlotOK, Lost
<1>6. OrderOK'
  <2>1. \A a, b \in Call : Holds(a)' /\ Holds(b)' => a = b
    BY <1>1, <1>2 DEF OrderOK, Holds
  <2>2. \A a, b \in Call : a < b /\ pc'[a] = "new" => pc'[b] = "new"
    BY <1>1, <1>2 DEF OrderOK, GivenUp
  <2>3. \A b \in answers' : Holds(b)' \/ Lost(b)' BY <1>1, <1>4, <1>5 DEF OrderOK, Holds
  <2>4. \A b \in answers', d \in Call : pc'[d] \in {"new", "waiting"} => b < d
    BY <1>1, <1>2 DEF OrderOK, GivenUp
  <2>5. \A b \in answers', d \in Call : Holds(d)' => b <= d
    BY <1>1, <1>2 DEF OrderOK, Holds
  <2> QED BY <2>1, <2>2, <2>3, <2>4, <2>5 DEF OrderOK
<1>7. SlotOK' BY <1>1, <1>2, <1>4 DEF SlotOK, slot, Holds
<1>8. CleanOK' BY <1>1, <1>2 DEF CleanOK, slot, Holds
<1>9. WrongAnswerOnlyAfterGivenUp'
  <2>1. ASSUME NEW d \in Call, pc'[d] = "answered", got'[d] # d
        PROVE  /\ got'[d] \in 1 .. (d - 1)
               /\ pc'[got'[d]] \in GivenUp \/ (pc'[got'[d]] = "answered" /\ got'[got'[d]] # got'[d])
    <3>1. PICK r \in 1 .. (d - 1) : got'[d] = r /\ Lost(r)
      <4>1. CASE d = c BY <1>3, <2>1, <4>1 DEF SlotOK
      <4>2. CASE d # c
        BY <1>1, <2>1, <4>2 DEF AnswersOwned, WrongAnswerOnlyAfterGivenUp, Lost
      <4> QED BY <4>1, <4>2
    <3>2. r \in Call BY SocketAssumption DEF Call
    <3>3. Lost(r)' BY <1>4, <3>1, <3>2
    <3> QED BY <3>1, <3>3 DEF Lost
  <2> QED BY <2>1 DEF WrongAnswerOnlyAfterGivenUp
<1>10. CleanCallOwnAnswer'
  BY <1>1, <1>2, <1>3 DEF CleanCallOwnAnswer, AnswersOwned, CleanOK
<1> QED BY <1>6, <1>7, <1>8, <1>9, <1>10 DEF CallInv, AnswersOwned

LEMMA StepCalls ==
  ASSUME CallInv, [SocketNext]_socketVars
  PROVE  CallInv'
<1>1. SocketTypeOK' BY StepTypeOK DEF CallInv
<1>2. ASSUME NEW c \in Call, Ask(c) PROVE CallInv'
  BY <1>1, <1>2, AskedCalls DEF Ask
<1>3. ASSUME NEW c \in Call,
             \/ Begin(c) \/ Written(c) \/ Answer(c)
             \/ Return(c) \/ Timeout(c) \/ Cancel(c)
      PROVE  CallInv'
  BY <1>1, <1>3, BeginCalls, WrittenCalls, AnswerCalls, EndCalls
<1>4. CASE StartRecv
  <2>1. CASE socket = "plain" /\ UNCHANGED <<starter, pc>>
    BY <1>1, <1>4, <2>1, CallsAside DEF StartRecv, calls
  <2>2. CASE \E c \in Call : Asked(c) /\ pc' = [pc EXCEPT ![c] = "waiting"]
    BY <1>1, <1>4, <2>2, AskedCalls DEF StartRecv
  <2> QED BY <1>4, <2>1, <2>2 DEF StartRecv
<1>5. CASE OpenSocket \/ ReceptionBegins \/ Started \/ StartFails \/ CloseSocket
  BY <1>1, <1>5, CallsAside DEF OpenSocket, ReceptionBegins, Started,
                                StartFails, CloseSocket
<1>6. ASSUME NEW r \in Read, EndReception(r) PROVE CallInv'
  BY <1>1, <1>6, CallsAside DEF EndReception
<1>7. CASE UNCHANGED socketVars
  BY <1>1, <1>7, CallsAside DEF socketVars
<1> QED BY <1>2, <1>3, <1>4, <1>5, <1>6, <1>7 DEF SocketNext

\* A call returns its own answer, unless a call before it gave up while its answer was
\* due; and always when none was due as it took the lock (_async_call_base).
THEOREM AnswersAreOwned ==
  SocketSpec => []AnswersOwned
<1>1. CallInv /\ [SocketNext]_socketVars => CallInv' BY StepCalls
<1>2. CallInv => AnswersOwned BY DEF CallInv
<1> QED BY <1>1, <1>2, InitCalls, PTL DEF SocketSpec

\* Type correctness of the socket.
THEOREM SocketTypeCorrect ==
  SocketSpec => []SocketTypeOK
<1>1. SocketTypeOK /\ [SocketNext]_socketVars => SocketTypeOK' BY StepTypeOK
<1> QED BY <1>1, InitTypeOK, PTL DEF SocketSpec

-----------------------------------------------------------------------------
(* The reception. *)

LEMMA InitRecep ==
  SocketInit => RecepInv
<1>1. SocketInit => SocketTypeOK BY InitTypeOK
<1>2. SocketInit => RecepInv BY <1>1 DEF SocketInit, RecepInv, EndReported, IsClosed
<1> QED BY <1>2

LEMMA StepRecep ==
  ASSUME RecepInv, [SocketNext]_socketVars
  PROVE  RecepInv'
<1>1. SocketTypeOK' BY StepTypeOK DEF RecepInv
<1> USE DEF RecepInv, SocketTypeOK, EndReported, IsClosed
<1>2. ASSUME NEW c \in Call,
             \/ Ask(c) \/ Begin(c) \/ Written(c) \/ Answer(c) \/ Return(c)
             \/ Timeout(c) \/ Cancel(c)
      PROVE  RecepInv'
  <2>1. UNCHANGED <<life, recep>>
    BY <1>2 DEF Ask, Begin, Written, Answer, Return, Timeout,
                Cancel
  <2> QED BY <1>1, <2>1 DEF life, recep
<1>3. CASE OpenSocket \/ ReceptionBegins
  <2>1. CASE OpenSocket BY <1>1, <2>1 DEF OpenSocket
  <2>2. CASE ReceptionBegins BY <1>1, <2>2 DEF ReceptionBegins
  <2> QED BY <1>3, <2>1, <2>2
<1>4. CASE StartRecv BY <1>1, <1>4 DEF StartRecv
<1>5. CASE Started \/ StartFails
  <2>1. CASE Started BY <1>1, <2>1 DEF Started
  <2>2. CASE StartFails BY <1>1, <2>2 DEF StartFails, recep
  <2> QED BY <1>5, <2>1, <2>2
<1>6. CASE CloseSocket
  <2>1. functional' = FALSE /\ reception' \in {"none", "ended"} /\ UNCHANGED <<socket, errors, early>>
    BY <1>6 DEF CloseSocket
  <2>2. CASE phase' = "closed" BY <1>1, <1>6, <2>1, <2>2 DEF CloseSocket
  <2>3. CASE phase' = "interrupted" /\ phase \in {"starting", "interrupted"}
    BY <1>1, <1>6, <2>1, <2>3 DEF CloseSocket
  <2> QED BY <1>6, <2>2, <2>3 DEF CloseSocket, Starting
<1>7. ASSUME NEW r \in Read, EndReception(r) PROVE RecepInv'
  <2>1. functional' = FALSE /\ reception' = "ended" /\ UNCHANGED <<socket, phase>>
    BY <1>7 DEF EndReception, life
  <2>2. CASE functional
    <3>1. phase = "started" /\ errors' = 1 BY <1>7, <2>2 DEF EndReception
    <3> QED BY <1>1, <2>1, <3>1
  <2>3. CASE ~functional
    <3>1. reception = "reading" /\ errors' = 0 BY <1>7, <2>3 DEF EndReception
    <3>2. early' = TRUE BY <1>7, <2>3, Zenon DEF EndReception
    <3> QED BY <1>1, <2>1, <2>3, <3>1, <3>2
  <2> QED BY <2>2, <2>3
<1>8. CASE UNCHANGED socketVars BY <1>1, <1>8 DEF socketVars, life, recep
<1> QED BY <1>2, <1>3, <1>4, <1>5, <1>6, <1>7, <1>8 DEF SocketNext

\* The end of a reception in use is reported, and once (_async_base_receive).
THEOREM EndsAreReported ==
  SocketSpec => []EndReported
<1>1. RecepInv /\ [SocketNext]_socketVars => RecepInv' BY StepRecep
<1>2. RecepInv => EndReported BY DEF RecepInv
<1> QED BY <1>1, <1>2, InitRecep, PTL DEF SocketSpec

\* Nothing is reported by a socket that is not started, or is closed (close).
THEOREM ClosingIsSilent ==
  SocketSpec => CloseIsSilent
<1>1. RecepInv /\ [SocketNext]_socketVars => RecepInv' BY StepRecep
<1>2. RecepInv /\ [SocketNext]_socketVars => [errors' # errors => phase = "started"]_(socketVars)
  <2> SUFFICES ASSUME RecepInv, [SocketNext]_socketVars, errors' # errors PROVE phase = "started"
    OBVIOUS
  <2>1. PICK r \in Read : EndReception(r)
    BY DEF SocketNext, Ask, Begin, Written, Answer, Return, Timeout,
           Cancel, OpenSocket, ReceptionBegins, StartRecv,
           Started, StartFails, CloseSocket, socketVars, recep
  <2> QED BY <2>1 DEF EndReception, RecepInv
<1> QED BY <1>1, <1>2, InitRecep, PTL DEF SocketSpec, CloseIsSilent
=============================================================================
