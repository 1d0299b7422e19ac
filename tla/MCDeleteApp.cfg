CONSTANTS
  web = web
  api = api
  root = root
  path = path
  plain = plain
  guardedrelease = guardedrelease
  portless = portless
  worker = worker
  p1 = p1
  Handler = {h1, h2}
  Name = {web, api}
  AppID = {shop}
  AppOf <- MCAppOf
  Site = site
  Path = {root, path}
  NoPath = NoPath
  RouteOf <- MCRouteOf
  Begins <- MCBegins
  Published <- MCPublished
  Instances = {0, 1}
  Release = {plain, guardedrelease, portless, worker}
  NoRelease = NoRelease
  FirstRelease = plain
  Port = {p1}
  NoPort = NoPort
  Unset = Unset
  PortOf <- MCPortOf
  FiltersOf <- MCFiltersOf
  NoService = NoService
  Unknown = Unknown
  MaxRequests = 3
  MaxDeploys = 2
  MaxTroubles = 1
  MaxWork = 5
SYMMETRY Handlers
SPECIFICATION Spec
PROPERTY AllDeploymentsDeleted
CHECK_DEADLOCK FALSE
