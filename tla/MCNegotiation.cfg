\* An offer negotiated over up to three rounds while the invoice may be sold.
CONSTANTS
  alice = alice
  bob = bob
  inv1 = inv1
  off1 = off1
  Nobody = Nobody
  InvoiceIds = {inv1}
  Address <- Accounts2
  Admins = {bob}
  Contracts = {}
  Blacklistable = {alice}
  Delegates = {}
  FaceAmounts = {10}
  DueDates = {5}
  Fees = {}
  MinInvoiceAmount = 10
  MaxFeeBps = 500
  MaxHistory = 1
  MaxListed = 1
  MaxTime = 2
  OfferIds = {off1}
  Principals = {5, 8, 10}
  Rates = {5}
  Expiries = {0}
  MaxInterestBps = 10
  Windows = {0, 2, 3}
  DefaultWindow = 1
  MinWindow = 1
  MaxWindow = 2
  MaxRounds = 3
SPECIFICATION Spec
INVARIANTS
  RoundsWithinWindow
  OutcomeMatchesOffer
  BooksFollowTerms
PROPERTIES
  AgreementIsMutual
  EndedStaysEnded
CONSTRAINT NegotiationMatters
CHECK_DEADLOCK FALSE
