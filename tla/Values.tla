-------------------------------- MODULE Values --------------------------------
(***************************************************************************)
(* The computations on numbers that go over several steps: an input is     *)
(* chosen, then the steps of the code are taken one by one. A behaviour is *)
(* about one task: the split of a command in pieces, the counts of the     *)
(* commands sent, the presses of a remote heard or lost, a level received, *)
(* shown and sent again, a command written in a buffer and read back.      *)
(***************************************************************************)
EXTENDS QueueItem, CodecModel, Levels, Frames

CONSTANTS
  MaxInputRepeat,  \* bound: the repeat count of a command
  MaxInputData,    \* bound: its number of advertisements
  Intervals,       \* the intervals of a command, in ms
  Bunches,         \* the bunch times of the adapters, in ms
  Buttons,         \* the buttons of a remote that counts while one is held
  Ramps,           \* those that move a level while they are held
  MaxPresses,      \* bound: the presses of the remote
  MaxHeld,         \* bound: the count reached by a button held
  WhiteFactors,    \* what the cold and warm levels of a command are counted up to
  Warms,           \* the warm levels, with every cold level
  Factors,         \* what the other levels are counted up to
  SpeedCounts,     \* the numbers of speeds of a fan
  Tried            \* for each codec, the commands it is given

MaxAdvWait == 3000  \* MAX_ADV_WAIT, in ms

\* A repetition, and the bunch of an adapter, are short beside MAX_ADV_WAIT: the user
\* gives intervals up to 150 ms, and the bunch times are 60 and 100 ms.
ASSUME SplitAssumption ==
  /\ MaxInputRepeat \in Nat /\ MaxInputData \in Nat
  /\ \A t \in Intervals \cup Bunches : t \in Nat \ {0} /\ 9 * t < 5 * MaxAdvWait

\* The names of NoneHeard and Discarded are no buttons.
ASSUME PressAssumption ==
  /\ {"none", "discarded"} \cap Buttons = {} /\ Ramps \subseteq Buttons
  /\ MaxPresses \in Nat /\ MaxHeld \in Nat

\* A level is a byte, or a part of a known whole; a percentage tells the speeds apart.
ASSUME LevelAssumption ==
  /\ WhiteFactors \subseteq 128 .. 255 /\ Warms \subseteq 0 .. 255
  /\ Factors \subseteq Nat \ {0} /\ SpeedCounts \subseteq 1 .. 100

\* A codec is given what its format has room for.
ASSUME FrameAssumption == \A codec \in Codecs : Tried[codec] \subseteq Commands(codec)

VARIABLES
  task,   \* what the behaviour is about
  input,  \* what was chosen
  work,   \* what remains, or the state of the computation
  out     \* what came out

vars == <<task, input, work, out>>

-----------------------------------------------------------------------------
(***************************************************************************)
(* split: the pieces of a command, taken as _dequeue takes them.           *)
(***************************************************************************)

SplitInputs ==
  [cmd : [key : {0}, repeat : 1 .. MaxInputRepeat, interval : Intervals,
          data : 1 .. MaxInputData, delay_after : {0}],
   bunch : Bunches]

InitSplit ==
  /\ task = "split"
  /\ input \in SplitInputs
  /\ work = NewItem(input.cmd, input.bunch)
  /\ out = <<>>

TakeNext ==
  /\ task = "split" /\ HasNext(work)
  /\ work' = AfterNext(work)
  /\ out' = Append(out, Head(work.advs))
  /\ UNCHANGED <<task, input>>

\* The pieces taken and the ones that remain are the repetitions asked for, or one of
\* each advertisement when there are several; each piece fits in the bunch time of the
\* adapter, unless it is a single repetition; and advertising it (0.9 ms per repetition
\* and ms of interval) takes less than half of MAX_ADV_WAIT, so that the timeout of
\* _dequeue never cuts it (split_repeat, get_next).
SplitSound ==
  task = "split" =>
    LET cmd == input.cmd IN
    /\ Total(out) + Total(work.advs) = (IF cmd.data = 1 THEN cmd.repeat ELSE cmd.data)
    /\ \A i \in DOMAIN work.advs :
         /\ work.advs[i] = 1 \/ work.advs[i] * cmd.interval <= input.bunch
         /\ 9 * work.advs[i] * cmd.interval < 5 * MaxAdvWait

-----------------------------------------------------------------------------
(***************************************************************************)
(* count: the counts of the commands sent, one after the other.            *)
(***************************************************************************)

\* The counts of the codecs: _tx_step and _tx_max, and how many pairs of counts they go
\* through.
Counting == {[step |-> 1, max |-> 125, pairs |-> 125 * RestartMax],
             [step |-> 2, max |-> 125, pairs |-> 125 * RestartMax],
             [step |-> 2, max |-> 254, pairs |-> 127 * RestartMax]}

InitCount ==
  /\ task = "count"
  /\ input \in Counting
  /\ work = FirstCount
  /\ out = <<0>>

\* out counts the commands sent since the first pair of counts was used.
EncodeAdvs ==
  /\ task = "count" /\ out[1] < input.pairs
  /\ work' = NextCount(work, input.step, input.max)
  /\ out' = <<out[1] + 1>>
  /\ UNCHANGED <<task, input>>

\* The two counts of a command come back only once every pair of counts was used: no
\* receiver that remembers fewer commands takes a new one for an old one (encode_advs).
CountsFresh ==
  task = "count" => (work = FirstCount <=> out[1] \in {0, input.pairs})

-----------------------------------------------------------------------------
(***************************************************************************)
(* press: a remote that counts while a button is held, heard or lost.      *)
(***************************************************************************)

InitPress ==
  /\ task = "press"
  /\ input = 0                \* presses done
  /\ work = [prev |-> NoneHeard, button |-> "none", at |-> 0, last |-> NoneHeard]
  /\ out = <<0, 0, 0>>        \* of this press: applied, first and last count heard

\* A button goes down: a ramp counts from 1, another button from 0.
Press ==
  /\ task = "press" /\ work.button = "none" /\ input < MaxPresses
  /\ \E b \in Buttons :
       work' = [prev |-> work.prev, button |-> b, at |-> IF b \in Ramps THEN 1 ELSE 0,
                last |-> work.prev]
  /\ out' = <<0, -1, -1>>
  /\ UNCHANGED <<task, input>>

\* _publish_to_devices: what the remote says now is heard, consolidated and applied.
Hear ==
  /\ task = "press" /\ work.button # "none"
  /\ LET b    == work.button
         cmd  == Heard(b, b \in Ramps, work.at)
         cons == Consolidated(cmd, work.prev)
     IN  /\ out[3] < work.at
         /\ out' = <<out[1] + (IF cons = Discarded THEN 0
                               ELSE IF b \in Ramps THEN cons.count ELSE 1),
                     IF out[2] = -1 THEN work.at ELSE out[2], work.at>>
         /\ work' = [work EXCEPT !.prev = PrevCmd(cmd, work.prev)]
  /\ UNCHANGED <<task, input>>

\* The button is still held: the count goes on, whether the last one was heard or not.
Hold ==
  /\ task = "press" /\ work.button # "none" /\ work.at < MaxHeld
  /\ work' = [work EXCEPT !.at = @ + 1]
  /\ UNCHANGED <<task, input, out>>

Release ==
  /\ task = "press" /\ work.button # "none"
  /\ work' = [work EXCEPT !.button = "none"]
  /\ input' = input + 1
  /\ UNCHANGED <<task, out>>

\* Whatever is lost, a ramp moves the light by the count last heard of the press, and
\* another button counts once, provided the first count heard is not one that the press
\* before, of the same button, could have gone on to (for a ramp, or stopped at)
\* (consolidate).
RampInStep ==
  task = "press" /\ work.button # "none" /\ out[2] # -1 =>
    IF work.button \in Ramps
    THEN work.last.button # work.button \/ out[2] < work.last.count => out[1] = out[3]
    ELSE work.last.button # work.button \/ out[2] <= work.last.count => out[1] = 1

-----------------------------------------------------------------------------
(***************************************************************************)
(* level: a level received, shown, and sent again.                         *)
(***************************************************************************)

White == [kind : {"cww"}, factor : WhiteFactors, cold : 0 .. 255, warm : Warms, reversed : BOOLEAN]

InitLevel ==
  /\ task = "level"
  /\ \/ /\ input \in White
        /\ {input.cold, input.warm} # {0} /\ Most(input.cold, input.warm) <= input.factor
     \/ \E f \in Factors : \E v \in 0 .. f : input = [kind |-> "br", factor |-> f, level |-> v]
     \/ \E n \in SpeedCounts : \E v \in 1 .. n :
          input = [kind |-> "speed", speeds |-> n, level |-> v]
  /\ work = <<>>
  /\ out = <<>>

\* apply_attrs of the light and of the fan.
Show ==
  /\ task = "level" /\ work = <<>>
  /\ \/ /\ input.kind = "cww"
        /\ \E b \in Shown(Most(input.cold, input.warm), input.factor),
              k \in Kelvins(input.cold, input.warm, input.reversed) : work' = <<b, k>>
     \/ input.kind = "br" /\ \E b \in Shown(input.level, input.factor) : work' = <<b>>
     \/ input.kind = "speed" /\ work' = <<Percentage(input.level, input.speeds)>>
  /\ UNCHANGED <<task, input, out>>

\* get_attrs, and the translator of the command.
SendAgain ==
  /\ task = "level" /\ work # <<>> /\ out = <<>>
  /\ \/ /\ input.kind = "cww"
        /\ \E c \in SentPart(work[1], ColdPart(work[2], input.reversed), input.factor),
              w \in SentPart(work[1], WarmPart(work[2], input.reversed), input.factor) :
             out' = <<c, w>>
     \/ input.kind = "br" /\ \E v \in Sent(work[1], input.factor) : out' = <<v>>
     \/ input.kind = "speed" /\ out' = <<Speed(work[1], input.speeds)>>
  /\ UNCHANGED <<task, input, work>>

\* Within two steps.
Near(a, b) == a - b \in -2 .. 2

\* What is received and sent again is what was received: the speed of a fan exactly, a
\* level within the steps that the two truncations take, and, below the least brightness,
\* a light that is never sent as dark: a receiver divides by the strongest level
\* (apply_attrs, get_attrs).
LevelsKept ==
  task = "level" /\ out # <<>> =>
    CASE input.kind = "cww" ->
           /\ out # <<0, 0>>
           /\ 100 * Most(input.cold, input.warm) >= MinBrightness * input.factor
                => Near(out[1], input.cold) /\ Near(out[2], input.warm)
      [] input.kind = "br" ->
           100 * input.level >= MinBrightness * input.factor
             => /\ out[1] <= input.level
                /\ 255 * (input.level - out[1]) <= input.factor + 255
      [] OTHER -> out[1] = input.level

-----------------------------------------------------------------------------
(***************************************************************************)
(* frame: a command written in a buffer, and read back.                    *)
(***************************************************************************)

InitFrame ==
  /\ task = "frame"
  /\ \E codec \in Codecs : \E c \in Tried[codec] :
       /\ input = [codec |-> codec, c |-> c]
       /\ work = From(codec, c)
  /\ out = <<>>

ReadBack ==
  /\ task = "frame" /\ out = <<>>
  /\ out' = <<To(input.codec, work)>>
  /\ UNCHANGED <<task, input, work>>

\* A command that is encoded is decoded as itself, but for what its format has no room
\* for; and what was decoded is encoded to the same bytes: a remote and a device that
\* was copied from what was heard look the same to the lamp (convert_from_enc,
\* convert_to_enc).
HeardAsSent ==
  task = "frame" /\ out # <<>> =>
    /\ out[1] = Carried(input.codec, input.c)
    /\ From(input.codec, out[1]) = work

-----------------------------------------------------------------------------
Init == InitSplit \/ InitCount \/ InitPress \/ InitLevel \/ InitFrame

Next ==
  \/ TakeNext
  \/ EncodeAdvs
  \/ Press \/ Hear \/ Hold \/ Release
  \/ Show \/ SendAgain
  \/ ReadBack

Spec == Init /\ [][Next]_vars
=============================================================================
