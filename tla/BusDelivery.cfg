SPECIFICATION FairSpec
CONSTANTS
  Subscribers = {s1, s2}
  Slots = 2
  MaxPublish = 5
CHECK_DEADLOCK FALSE
INVARIANTS
  IInv
  InOrderSinceSubscribed
  OnlyOverrunsAreLost
PROPERTIES
  EveryoneCatchesUp
