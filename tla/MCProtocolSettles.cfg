\* A loan nobody moves by hand, five pause switches: do the contracts agree, does it end?
CONSTANTS
  alice = alice
  bob = bob
  inv1 = inv1
  off1 = off1
  off2 = off2
  Nobody = Nobody
  InvoiceIds = {inv1}
  Address <- Accounts2
  Admins = {bob}
  Contracts = {"registry", "financing", "repayment", "insurance", "reputation"}
  Blacklistable = {}
  Delegates = {}
  FaceAmounts = {10}
  DueDates = {1}
  Fees = {}
  MinInvoiceAmount = 10
  MaxFeeBps = 500
  MaxHistory = 6
  MaxListed = 1
  MaxTime = 3
  OfferIds = {off1, off2}
  Principals = {10}
  Rates = {5}
  Expiries = {3}
  MaxInterestBps = 10
  Wired = {"insurance", "reputation"}
  Payments = {5, 10}
  PenaltyConfigs <- SomePenalty
  PoolBalances = {0}
  Day = 1
  GracePeriod = 1
  BpsUnit = 10
  YearBps = 20
  MinPaymentBps = 1
  MaxPenaltyBps = 5
  MaxPayments = 2
  MaxRecorded = 2
SPECIFICATION FairSpec
INVARIANTS
  StatusAgreement
  RepaidIsWhole
PROPERTIES
  ImplementsRegistry
  ImplementsLoan
  FundedInvoiceSettles
CONSTRAINT OnePauseAtATime
CHECK_DEADLOCK FALSE
