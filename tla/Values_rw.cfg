\* An identifier of rw.py whose highest byte is not 0.
CONSTANTS
  MaxInputRepeat = 1
  MaxInputData = 1
  Intervals = {30}
  Bunches = {100}
  Bytes = {0, 1, 90, 254}
  Buttons = {"toggle"}
  Ramps = {}
  MaxPresses = 1
  MaxHeld = 1
  WhiteFactors = {255}
  Factors = {255}
  SpeedCounts = {3}
  Warms = {255}
  MinBrightness = 1
  Tried <- MCTried
SPECIFICATION RwSpec
CHECK_DEADLOCK FALSE
INVARIANT HeardAsSent
