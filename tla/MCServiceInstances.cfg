CONSTANTS
  Handler = {h1, h2}
  Instance = {db}
  Plan = {small, large}
  MaxOps = 2
  MaxRequests = 3
  MaxFailures = 1
SPECIFICATION Spec
INVARIANTS
  TypeOK
  InstanceIsRecorded
  RowIsLastOperation
PROPERTIES
  NoResurrection
  Settles
