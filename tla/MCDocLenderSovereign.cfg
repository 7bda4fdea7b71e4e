\* What ADR-0012 says of the lender's sovereignty.
CONSTANTS
  alice = alice
  bob = bob
  inv1 = inv1
  off1 = off1
  off2 = off2
  Nobody = Nobody
  InvoiceIds = {inv1}
  Address <- Accounts2
  Admins = {bob}
  Contracts = {}
  Blacklistable = {}
  Delegates = {}
  FaceAmounts = {10}
  DueDates = {1}
  Fees = {}
  MinInvoiceAmount = 9
  MaxFeeBps = 500
  MaxHistory = 1
  MaxListed = 1
  MaxTime = 2
  OfferIds = {off1, off2}
  Principals = {10}
  Rates = {5}
  Expiries = {0}
  MaxInterestBps = 10
  Wired = {}
  Payments = {5, 10}
  PenaltyConfigs <- NoPenalty
  PoolBalances = {0}
  Day = 1
  GracePeriod = 1
  BpsUnit = 10
  YearBps = 20
  MinPaymentBps = 1
  MaxPenaltyBps = 5
  MaxPayments = 2
  MaxRecorded = 1
  AmendAmounts = {9, 11}
  AmendDates = {2}
  MaxAmendments = 2
  Frequencies = {"Daily", "Weekly"}
  PeriodSecs <- Periods
  RateUnit = 10
  MaxCount = 3
  InstallmentCounts = {3, 4}
  FirstDues = {1}
  Scheduled = {off1, off2}
SPECIFICATION ServiceSpec
PROPERTIES
  LenderIsSovereign
CONSTRAINT AmendedOrScheduled
CHECK_DEADLOCK FALSE
