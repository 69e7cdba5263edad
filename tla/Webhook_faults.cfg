CONSTANTS
  Calls = {c1, c2, c3}
  MAX_DELIVERY_ATTEMPTS = 4
  MaxPosts = 40
  MaxMishaps = 1
SPECIFICATION FairSpec
INVARIANTS NoGivingUpEarly RequestsBounded OutcomeIsTrue
PROPERTIES OutcomeIsFinal EveryDeliverySettles
CHECK_DEADLOCK FALSE
