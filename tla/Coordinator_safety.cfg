SPECIFICATION Spec
CONSTANTS
  Device = {"d1", "d2"}
  Adapter = {"a1", "a2"}
  Codec = {"lamp", "fan"}
  Adv = {"v", "w", "x"}
  Raw = {"v1", "v2", "w1", "x1"}
  Inner <- MCInner
  MatchId <- MCMatchId
  Conf <- MCConf
  Listens <- MCListens
  AdaptersOf <- MCAdaptersOf
  Counting = {"fan"}
  IgnRaw = 2
  IgnDur <- MCIgnDur
  Broken = {"d1"}
  Dupes = FALSE
INVARIANTS
  CachesSound
  PublishedOnce
  NothingLost
  NoEcho
