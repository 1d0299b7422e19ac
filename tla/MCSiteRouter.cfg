CONSTANTS
  www = www
  api = api
  star = star
  wild = wild
  own = own
  root = root
  cart = cart
  shop = shop
  Handler = {h1, h2}
  Domain = {www, api}
  Cert = {star, own, wild}
  StarCert = star
  Installable = {own}
  OwnCert <- MCOwnCert
  WildCert <- MCWildCert
  MaxTries = 2
  MaxVersion = 6
  Path = {root}
  App = {shop}
  InternalApp = {}
  Kind = {"external"}
  MaxAdding = 1
  Down = down
  VsRetryCount = 1
  InitialRows <- MCInitialRows
  MaxRequests = 3
  MaxChanges = 0
SYMMETRY Handlers
SPECIFICATION Spec
INVARIANTS
  TypeOK
  GatewayTypeOK
  RedirectHasTls
  CopyIsFresh
  ServedThroughGateway
  DeletedIsOffline
PROPERTY ImplementsHosts
