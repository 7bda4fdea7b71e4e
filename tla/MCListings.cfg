\* A client pages: events of two types and two actors, or lists of three invoices.
CONSTANTS
  alice = alice
  bob = bob
  registry = registry
  EventTypes = {"inv_reg", "off_acc"}
  Actors = {alice, bob}
  Admins = {alice}
  Callers = {registry}
  PageSizes = {1, 2}
  MaxEvents = 3
  MaxTime = 2
  Owners = {alice, bob}
  Ids = {1, 2, 3}
  ListingSizes = {1, 2}
  MaxListing = 3
  Nobody = Nobody
  NoIndex = NoIndex
SPECIFICATION ListingsSpec
CONSTRAINT EitherListing
INVARIANTS
  IndexesAgree
  PagingIsComplete
  PagesMissNothing
  ListedUnlessOvertaken
CHECK_DEADLOCK FALSE
