\* Three accounts, three executables, one of them broken; three outcomes.
CONSTANTS
  alice = alice
  bob = bob
  carol = carol
  Accounts = {alice, bob, carol}
  Deployer = alice
  MaxAdminSigners = 2
  Executables = {"w1", "w2", "w3"}
  FirstExecutable = "w1"
  Broken = {"w3"}
  MaxVersion = 3
  MaxProvided = 2
  NoUpgrade = NoUpgrade
  Originators = {carol}
  HalfLife = 2
  NoRecorder = NoRecorder
  Recorders = {"repayment"}
  MaxOutcomes = 3
  MaxTime = 6
SPECIFICATION Spec
INVARIANTS
  MetadataFollowsCode
  FreshCountInFull
PROPERTIES
  AdminByQuorum
CONSTRAINT AdminOrOutcomes
CHECK_DEADLOCK FALSE
