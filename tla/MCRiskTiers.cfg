\* Three stakers, two reserved offers, one default, two tiers and the flat pool.
CONSTANTS
  off1 = off1
  off2 = off2
  NStakers = 3
  OfferIds = {off1, off2}
  InvoiceIds = {1}
  MinStakeAmount = 2
  YieldUnit = 2
  Deposits = {2}
  Withdrawals = {1}
  Claims = {5}
  YieldRates = {1}
  MaxStake = 3
  MaxReserved = 2
  MaxFunds = 1
  MaxTime = 1
  Tiers = {"Conservative", "Aggressive"}
  Apy <- Yields
  PayoutCap <- Caps
  CapUnit = 3
SPECIFICATION TierSpec
INVARIANTS
  TotalIsSumOfStakes
  ReservationsAddUp
  TierBooksAgree
PROPERTIES
  LossIsProRata
  ReservationsStayCovered
  YieldIsProspective
  TierLossIsItsOwn
SYMMETRY OfferSymmetry
CONSTRAINT FlatOrTiers
CHECK_DEADLOCK FALSE
