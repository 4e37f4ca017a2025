CONSTANTS
  s1 = s1
  s2 = s2
  s3 = s3
  a1 = a1
  a2 = a2
  a3 = a3
  None = None
  Sources = {s1, s2}
  Heartbeating = {s1, s2}
  Assets = {a1}
  Prices = {1}
  Timestamps = {1, 2}
  Quorums = {1}
  Threshold = 0
  FreshnessSecs = 1
  Cooldown = 1
  InlineRecompute = 2
  EntryPoints = {"submit_price", "remove_source"}
  MaxLedger = 2
  MaxVersion = 2
SPECIFICATION Spec
PROPERTY TimestampNeverDecreases
CHECK_DEADLOCK FALSE
