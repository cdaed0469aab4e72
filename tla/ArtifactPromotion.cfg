SPECIFICATION PromotionSpec
INVARIANT PromotionIsSafe
CHECK_DEADLOCK FALSE
