SPECIFICATION FairSpec
CONSTANTS
  a1 = a1  a2 = a2  w1 = w1  w2 = w2  h1 = h1  h2 = h2
  Entries = {1, 2}
  Appointments = {a1, a2}
  SlotOf <- OneSlot
  Workers = {w1, w2}
  Requests = {h1, h2}
INVARIANT OneLiveOffer
INVARIANT BookedOnce
PROPERTY EveryOfferEnds
PROPERTY ImplementsOffers
CHECK_DEADLOCK FALSE
