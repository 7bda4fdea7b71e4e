\* Three verifiers rotating through two places, two facts, a full list.
CONSTANTS
  v1 = v1
  v2 = v2
  v3 = v3
  document = document
  tax = tax
  Verifiers = {v1, v2, v3}
  Types = {document, tax}
  MaxVerifiers = 2
  MaxAttestations = 4
  MinValidity = 1
  MaxValidity = 2
  Thresholds = {1, 2}
  Validities = {1}
  MaxTime = 2
SPECIFICATION VerSpec
INVARIANTS
  VerdictNeedsQuorum
PROPERTIES
  EvictionIsSilent
  PokeIsUnobservable
SYMMETRY VerifierTypeSymmetry
CHECK_DEADLOCK FALSE
