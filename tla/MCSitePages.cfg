CONSTANTS
  www = www
  api = api
  star = star
  wild = wild
  own = own
  root = root
  cart = cart
  shop = shop
  Handler = {h1, h2}
  Domain = {www}
  Cert = {star, own, wild}
  StarCert = star
  Installable = {}
  OwnCert <- MCOwnCert
  WildCert <- MCWildCert
  MaxTries = 2
  MaxVersion = 6
  Path = {root, cart}
  App = {shop, blog}
  InternalApp = {}
  Kind = {"external"}
  MaxAdding = 1
  Down = down
  VsRetryCount = 2
  InitialRows <- MCInitialRows
  MaxRequests = 3
  MaxChanges = 1
SYMMETRY Handlers
SPECIFICATION Spec
INVARIANT PublishedIsTable
PROPERTY MaintenanceKeepsPaths
