\* One invoice, two accounts, two offers: funding, installments, default.
CONSTANTS
  alice = alice
  bob = bob
  inv1 = inv1
  off1 = off1
  off2 = off2
  Nobody = Nobody
  InvoiceIds = {inv1}
  Address <- Accounts2
  Admins = {bob}
  Contracts = {}
  Blacklistable = {}
  Delegates = {}
  FaceAmounts = {10}
  DueDates = {1}
  Fees = {}
  MinInvoiceAmount = 10
  MaxFeeBps = 500
  MaxHistory = 1
  MaxListed = 1
  MaxTime = 3
  OfferIds = {off1, off2}
  Principals = {10}
  Rates = {5}
  Expiries = {0}
  MaxInterestBps = 10
  Wired = {"insurance", "reputation"}
  Payments = {5, 10}
  PenaltyConfigs <- SomePenalty
  PoolBalances = {7}
  Day = 1
  GracePeriod = 1
  BpsUnit = 10
  YearBps = 20
  MinPaymentBps = 1
  MaxPenaltyBps = 5
  MaxPayments = 2
  MaxRecorded = 3
SPECIFICATION Spec
INVARIANTS
  BooksMatchOffers
  HistoryMatchesOffers
  ActiveOfferStillOwes
  OnePayoutPerDefault
  ReputationMatchesOutcomes
SYMMETRY OfferSymmetry
CHECK_DEADLOCK FALSE
