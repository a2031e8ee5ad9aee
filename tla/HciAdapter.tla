----------------------------- MODULE HciAdapter -----------------------------
(***************************************************************************)
(* A local Bluetooth controller driven by BluetoothHCIAdapter of           *)
(* adapters/__init__.py: the channel of commands, the opening, and the     *)
(* three ways of advertising a piece (legacy commands, extended commands,  *)
(* commands of the manager).                                               *)
(*                                                                         *)
(* The opening and the pieces exclude each other (the task of the adapter  *)
(* starts after open()), so that one command is awaited at a time. The     *)
(* controller executes the commands in their order, each answer following  *)
(* its execution. It may do so after the adapter has given up waiting, and *)
(* an answer goes to whoever waits for its opcode then.                    *)
(*                                                                         *)
(* When the adapter is opened again by a refresh of the manager, it is a   *)
(* new object over the same controller, and the previous one is at rest    *)
(* (see ListRead in HciManager).                                           *)
(***************************************************************************)
EXTENDS Naturals, Sequences

CONSTANTS
  Pieces,     \* the data of the pieces
  Disturbed,  \* whether the controller may be reset, or refuse a command
  MaxSent     \* bound: the commands sent that the controller has not executed yet

ASSUME AdapterAssumption ==
  /\ {"fake", "none"} \cap Pieces = {}
  /\ Disturbed \in BOOLEAN
  /\ MaxSent \in Nat \ {0}

VARIABLES
  kind,       \* the controller: "legacy", "extended", or "managed" when the
              \* kernel refuses the advertising commands
  ctl,        \* what it advertises, and whether it does
  sent,       \* the commands it has not executed yet
  opened,     \* _opened
  mode,       \* _use_ext_adv and _use_mgmt_adv: "hci", "ext" or "mgmt"
  job,        \* what is in progress: "none", "open" or "piece"
  step,       \* the command of the job to be sent, or awaited
  waiting,    \* the command is sent
  ongoing,    \* _on_going_cmd
  answer,     \* _cmd_event and _ret_code: "none", "ok", "disallowed" or "failed"
  refused,    \* what the trial of the advertising commands has answered
  piece,      \* the data of the last piece
  complete,   \* auxiliary: the last piece was advertised without an exception
  disturbed,  \* auxiliary: the controller was reset or refused a command
              \* in this job, or in a previous one that had commands left
  behind      \* auxiliary: how many were left when the last job started

controller == <<kind, ctl, sent>>
object == <<opened, mode, ongoing, answer, refused>>
aux  == <<complete, disturbed, behind>>
vars == <<controller, object, job, step, waiting, piece, aux>>

-----------------------------------------------------------------------------
(* The commands, each named for its opcode, and the jobs made of them.     *)

Command(op, arg) == [op |-> op, arg |-> arg]
Sleep == Command("sleep", "none")

\* open, then _start_scan.
OpenSteps ==
  <<Command("features", "none"),
    Command("enable", "on"), Command("enable", "off"),
    Command("scan_enable", "off"), Command("scan_parameters", "none"),
    Command("scan_enable", "on")>>

ManagedSteps == <<Command("add", "piece"), Sleep, Command("remove", "none")>>

\* Mutated form: the controller keeps the data of the piece.
AdvertiseStepsKeepData(m) ==
  IF m = "mgmt" THEN ManagedSteps
  ELSE <<Command("enable", "off"), Command("parameters", "none"), Command("data", "piece"),
         Command("enable", "on"), Sleep, Command("enable", "off")>>

\* _hci_advertise, _hci_ext_advertise and _mgmt_advertise.
AdvertiseSteps(m) ==
  IF m = "mgmt" THEN ManagedSteps
  ELSE <<Command("enable", "off"), Command("parameters", "none"), Command("data", "piece"),
         Command("enable", "on"), Sleep, Command("enable", "off"), Command("data", "fake")>>

Steps == IF job = "open" THEN OpenSteps ELSE AdvertiseSteps(mode)

\* The step after this one: the trial is skipped with extended advertising.
NextStep(m) == IF job = "open" /\ step = 1 /\ m = "ext" THEN 4 ELSE step + 1

Busy == job # "none"
Sleeping == job = "piece" /\ Steps[step] = Sleep

Ops == {"features", "enable", "scan_enable", "scan_parameters", "parameters", "data",
        "add", "remove"}
Data == Pieces \cup {"fake", "none"}
Commands ==
  [op : Ops \ {"data", "add"}, arg : {"none", "on", "off"}] \cup [op : {"data", "add"}, arg : Data]

TypeOK ==
  /\ kind \in {"legacy", "extended", "managed"}
  /\ ctl \in [on : BOOLEAN, data : Data]
  /\ sent \in Seq(Commands)
  /\ Len(sent) <= MaxSent
  /\ opened \in BOOLEAN
  /\ mode \in {"hci", "ext", "mgmt"}
  /\ job \in {"none", "open", "piece"}
  /\ step \in Nat
  /\ Busy => step \in DOMAIN Steps
  /\ waiting \in BOOLEAN
  /\ ongoing \in Ops \cup {"none"}
  /\ answer \in {"none", "ok", "disallowed", "failed"}
  /\ refused \in 0 .. 2
  /\ piece \in Data
  /\ {complete, disturbed} \subseteq BOOLEAN /\ behind \in 0 .. MaxSent

Init ==
  /\ kind \in {"legacy", "extended", "managed"}
  /\ ctl = [on |-> FALSE, data |-> "none"]
  /\ sent = <<>>
  /\ opened = FALSE
  /\ mode = "hci"
  /\ job = "none" /\ step = 1 /\ waiting = FALSE
  /\ ongoing = "none" /\ answer = "none" /\ refused = 0
  /\ piece = "none"
  /\ complete = FALSE /\ disturbed = FALSE /\ behind = 0

-----------------------------------------------------------------------------
(* The adapter.                                                            *)

Start(what) ==
  /\ job' = what
  /\ step' = 1
  /\ waiting' = FALSE
  /\ complete' = FALSE
  /\ behind' = Len(sent)
  /\ disturbed' = (disturbed /\ sent # <<>>)

\* open, of a new adapter: the socket is there.
Open ==
  /\ ~opened /\ ~Busy
  /\ opened' = TRUE
  /\ mode' = "hci"
  /\ ongoing' = "none" /\ answer' = "none" /\ refused' = 0
  /\ Start("open")
  /\ UNCHANGED <<controller, piece>>

\* _advertise.
Advertise(p) ==
  /\ opened /\ ~Busy
  /\ piece' = p
  /\ Start("piece")
  /\ UNCHANGED <<controller, object>>

\* What is sent, the data of the piece being in it.
Sent(c) == IF c.arg = "piece" THEN [c EXCEPT !.arg = piece] ELSE c

\* _send_hci_cmd and send_mgmt_cmd, up to the wait for the answer.
Send ==
  /\ Busy /\ ~waiting /\ ~Sleeping
  /\ opened
  /\ Len(sent) < MaxSent
  /\ waiting' = TRUE
  /\ ongoing' = Steps[step].op
  /\ answer' = "none"
  /\ sent' = Append(sent, Sent(Steps[step]))
  /\ UNCHANGED <<kind, ctl, opened, mode, refused, job, step, piece, aux>>

\* The job goes on with the next step, or is over.
GoOn(m) ==
  IF NextStep(m) \in DOMAIN Steps
  THEN step' = NextStep(m) /\ UNCHANGED <<job, complete>>
  ELSE step' = 1 /\ job' = "none" /\ complete' = (job = "piece")

\* The opening counts the refusals of the two commands of its trial.
RefusedAfter ==
  IF job = "open" /\ step \in {2, 3} /\ answer = "disallowed" THEN refused + 1 ELSE refused

\* What the opening concludes from the features, then from its trial.
ModeAfter ==
  IF job = "open" /\ step = 1 /\ answer = "ok" /\ kind = "extended" THEN "ext"
  ELSE IF job = "open" /\ step = 3 /\ RefusedAfter = 2 THEN "mgmt"
  ELSE mode

\* The answer is there: the codes only matter to the opening.
Answered ==
  /\ Busy /\ waiting
  /\ answer # "none"
  /\ waiting' = FALSE
  /\ mode' = ModeAfter
  /\ refused' = RefusedAfter
  /\ GoOn(ModeAfter)
  /\ UNCHANGED <<controller, opened, ongoing, answer, piece, disturbed, behind>>

\* The interval of the piece is over.
SleepEnds ==
  /\ Sleeping
  /\ GoOn(mode)
  /\ UNCHANGED <<controller, object, waiting, piece, disturbed, behind>>

\* An exception: the answer does not come in time (CMD_RTO), the command cannot be
\* sent, the adapter was closed, or the piece lasts too long (MAX_ADV_WAIT). An
\* adapter whose opening fails is finalised.
Raise ==
  /\ Busy
  /\ job = "open" => answer = "none" \/ ~waiting
  /\ job' = "none" /\ step' = 1 /\ waiting' = FALSE
  /\ opened' = (opened /\ job # "open")
  /\ UNCHANGED <<controller, mode, ongoing, answer, refused, piece, aux>>

\* close, when the manager ends the adapter: it is registered, and so is open.
Close ==
  /\ opened /\ job # "open"
  /\ opened' = FALSE
  /\ UNCHANGED <<controller, mode, ongoing, answer, refused, job, step, waiting, piece, aux>>

-----------------------------------------------------------------------------
(* The controller.                                                         *)

\* What a command that is not refused does.
Effect(c) ==
  CASE c.op = "enable" -> [ctl EXCEPT !.on = (c.arg = "on")]
    [] c.op = "data"   -> [ctl EXCEPT !.data = c.arg]
    [] c.op = "add"    -> [on |-> TRUE, data |-> c.arg]
    [] c.op = "remove" -> [on |-> FALSE, data |-> "none"]
    [] OTHER -> ctl

\* The kernel keeps the advertising for itself.
Managed(c) == kind = "managed" /\ c.op = "enable"

\* Mutated form: any answer is taken.
RecvAny(c, code) == answer' = IF opened THEN code ELSE answer

\* _recv, and _mgmt_recv: an answer is taken if it is for the opcode that is awaited.
Recv(c, code) == answer' = IF opened /\ c.op = ongoing THEN code ELSE answer

\* The controller executes, or refuses, the next command, and answers.
Execute ==
  /\ sent # <<>>
  /\ sent' = Tail(sent)
  /\ \/ /\ ~Managed(Head(sent))
        /\ ctl' = Effect(Head(sent))
        /\ Recv(Head(sent), "ok")
        /\ UNCHANGED disturbed
     \/ /\ Disturbed \/ Managed(Head(sent))
        /\ UNCHANGED ctl
        /\ \/ Recv(Head(sent), "disallowed")
           \/ Disturbed /\ ~Managed(Head(sent)) /\ Recv(Head(sent), "failed")
        /\ disturbed' = (disturbed \/ job # "open" \/ ~Managed(Head(sent)))
  /\ UNCHANGED <<kind, opened, mode, ongoing, refused, job, step, waiting, piece, complete, behind>>

\* Another program resets the controller.
Reset ==
  /\ Disturbed
  /\ ctl' = [on |-> FALSE, data |-> "none"]
  /\ sent' = <<>>
  /\ disturbed' = TRUE
  /\ UNCHANGED <<kind, object, job, step, waiting, piece, complete, behind>>

Next ==
  \/ Open
  \/ \E p \in Pieces : Advertise(p)
  \/ Send \/ Answered \/ SleepEnds \/ Raise \/ Close
  \/ Execute \/ Reset

Spec == Init /\ [][Next]_vars

-----------------------------------------------------------------------------
(* Properties.                                                             *)

\* The controller did what it was asked to, and not too much was late when the piece
\* started. Two commands may be: with three, those of a previous piece that enable,
\* set the parameters and set the data, their answers are taken in turn for those of
\* this piece, whose data is then not set when its advertising is enabled. The pieces
\* that are commands of the manager all start with the same opcode, and one late
\* command is enough.
Sound == ~disturbed /\ behind <= (IF mode = "mgmt" THEN 0 ELSE 2)

\* During the interval of a piece the controller advertises this piece, and not the
\* data of another one, whatever was lost and with up to two commands late; it has
\* executed all that comes before, even when an answer was taken for another one
\* (_hci_advertise, _recv).
OnAir == Sleeping /\ Sound => ctl = [on |-> TRUE, data |-> piece] /\ sent = <<>>

\* Once a piece is over, nothing is on the air or still to be executed, and the
\* controller would not send it again if it were enabled by another program (the
\* fake data).
Silent ==
  complete /\ ~Busy /\ Sound => ~ctl.on /\ ctl.data \notin Pieces /\ sent = <<>>

\* What the documentation of _advertise says: the data is advertised for the given
\* interval. An adapter that was opened again does not advertise the piece during
\* which the previous one was closed. The code does not promise it: with extended
\* advertising it does not hold (see the README).
NotLonger ==
  [][job = "open" /\ ~Busy' /\ opened' /\ ~disturbed' /\ mode' # "mgmt" =>
       ~ctl'.on \/ ctl'.data \notin Pieces]_vars
=============================================================================
