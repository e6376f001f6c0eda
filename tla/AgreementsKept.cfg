CONSTANTS
  shop = shop
  eur = eur
  x1 = x1
  x2 = x2
  h1 = h1
  h2 = h2
  Hello = Hello
  Null = Null
  TheDeal = d
  Garbled = Garbled
  Mandates <- MCMandates
  Terms <- MCTerms
  Times = {1, 2, Garbled}
  Lanes <- MCLanes
SPECIFICATION Spec
CHECK_DEADLOCK FALSE
INVARIANTS DisputeIsTrue NotesAreTrue HonestIsNotAccused AgreedIsCountersigned
