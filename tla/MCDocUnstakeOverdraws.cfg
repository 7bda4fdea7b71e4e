\* What the comment on pay_out says: can unstake overdraw the pool?
CONSTANTS
  NStakers = 3
  OfferIds = {1, 2}
  InvoiceIds = {1}
  MinStakeAmount = 2
  YieldUnit = 2
  Deposits = {2}
  Withdrawals = {1}
  Claims = {5}
  YieldRates = {1}
  MaxStake = 3
  MaxReserved = 2
  MaxFunds = 1
  MaxTime = 1
SPECIFICATION PoolSpec
INVARIANTS
  UnstakeNeverOverdraws
CHECK_DEADLOCK FALSE
