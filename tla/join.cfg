SPECIFICATION FairSpec
CONSTANTS
  Tiers = {"gold"}
  Slots = {"g1", "g2"}
  TierOf <- MCTierOf
  Links <- MCLinks
  Codes = {"ten"}
  Points <- MCPoints
  MaxMints = 2
  MaxPosts = 1
  MaxReads = 2
  MaxMoves = 1
  None = None
INVARIANTS
  PriceShownIsCharged
  StashIsOfThisCheckout
  ReleasedSlotReread
PROPERTIES
  CheckoutEnds
CHECK_DEADLOCK FALSE
