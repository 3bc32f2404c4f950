SPECIFICATION LiquidationSpec
CONSTANTS
  Latency = 4
  Margin = 1
  Interval = 7
  MinGap = 4
  MaxGap = 9
  Held = 2
INVARIANT NeverReverses
PROPERTY ReplayGoesFlat
