\* The upgrade to this release and its hook, with a registration in between.
CONSTANTS
  alice = alice
  bob = bob
  registry = registry
  EventTypes = {"inv_reg"}
  Actors = {alice}
  Admins = {alice}
  Callers = {}
  PageSizes = {1}
  MaxEvents = 0
  MaxTime = 0
  Owners = {alice, bob}
  Ids = {1, 2}
  ListingSizes = {1}
  MaxListing = 2
  Nobody = Nobody
  NoIndex = NoIndex
SPECIFICATION ListingsSpec
CONSTRAINT EitherListing
INVARIANT HistoricalStayListed
CHECK_DEADLOCK FALSE
