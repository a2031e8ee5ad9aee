\* Repeat 1..20 and interval 10..150 ms in the user interface; codecs repeat up to
\* 60 times (agarce.py:48).
CONSTANTS
  MaxInputRepeat = 60
  MaxInputData = 3
  Intervals = {10, 20, 30, 40, 60, 70, 100, 150}
  Bunches = {60, 100}
  Bytes = {0, 1, 90, 165, 254, 255}
  Buttons = {"toggle", "up", "down"}
  Ramps = {"up", "down"}
  MaxPresses = 3
  MaxHeld = 5
  WhiteFactors = {250, 255}
  Factors = {7, 100, 250, 255, 1000}
  SpeedCounts = {3, 4, 6, 8, 100}
  Warms = {0, 1, 2, 3, 5, 17, 33, 64, 100, 127, 128, 129, 200, 249, 250, 254, 255}
  MinBrightness = 1
  Tried <- MCTried
SPECIFICATION Spec
CHECK_DEADLOCK FALSE
INVARIANTS
  SplitSound
  HeardAsSent
  CountsFresh
  RampInStep
  LevelsKept
