\* One invoice, three accounts: trades, approvals, the life cycle, blacklist,
\* fee and pause.
CONSTANTS
  alice = alice
  bob = bob
  carol = carol
  inv1 = inv1
  Nobody = Nobody
  InvoiceIds = {inv1}
  Address <- Accounts3
  Admins = {carol}
  Contracts = {"registry"}
  Blacklistable = {bob}
  Delegates = {bob}
  FaceAmounts = {9, 10}
  DueDates = {1}
  Fees = {500, 501}
  MinInvoiceAmount = 10
  MaxFeeBps = 500
  MaxHistory = 2
  MaxListed = 2
  MaxTime = 2
SPECIFICATION RegSpec
INVARIANTS
  ClaimIntegrity
  AuditTrail
PROPERTIES
  TradeDiscipline
  SettledForever
  ImplementsClaim
CHECK_DEADLOCK FALSE
