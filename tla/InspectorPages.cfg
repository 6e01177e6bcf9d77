SPECIFICATION FairSpec
CONSTANTS
  Requests = {r1}
  Root = Root
  key = key
  other = other
  state = state
  body = body
  meta = meta
  Dirs = {key, other}
  Files = {state, body, meta}
  Parent <- MCParent
  Rank <- MCRank
  NoPage = NoPage
INVARIANT IInv
INVARIANT NotFoundMeansAbsent
INVARIANT ListingOrder
PROPERTY StopEnds
CHECK_DEADLOCK FALSE
