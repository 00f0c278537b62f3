SPECIFICATION Spec
CONSTANTS
  MinTick = 0
  MaxTick = 7
  TickLower = 2
  TickUpper = 4
  InitTick = 5
  Refund = 1
  Opening = 2
  BaseGrowth = 3
  Wrap = 4
  NoGrowth <- NotPriced
  MaxBlocks = 3
  Growths = {1}
  Ticks = {1, 3}
  LateTicks = {6}
  Changes <- MCChanges
  Unreadable <- MCUnreadable
  Pairs = {"anchor0"}
  Me = Me
  Other = Other
  Nobody = Nobody
  HeldOn = HeldOn
INVARIANTS
    DepositsExact
    PayoutsExact
    PaidIsReported
    ReportSound
    NoFalseAlarm
    FlatMarketNoGain
