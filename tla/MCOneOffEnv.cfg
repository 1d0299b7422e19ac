CONSTANTS
  nightly = nightly
  shop = shop
  own = own
  common = common
  db = db
  queue = queue
  url = url
  key = key
  alias = alias
  a = a
  b = b
  Name = {nightly, shop}
  Set = {own, common}
  Service = {db, queue}
  VarName = {url, key, alias}
  Value = {a, b}
  OwnSet <- MCOwnSet
  BuiltIn <- MCBuiltIn
  Offered <- MCOffered
  AnyVar = AnyVar
  NewNames = {url, alias}
  Prefixed <- MCPrefixed
  Handler = {h1, h2}
  Env <- MCEnv
  JobName = {nightly}
  Start <- MCStart
  Rules <- MCRules
  VarSpecs <- MCVarSpecs
  Edited = {own}
  Parallelism = {0, 1}
  MaxRequests = 3
  MaxFailures = 1
SYMMETRY Handlers
SPECIFICATION Spec
INVARIANT OneOffEnvOverrides
