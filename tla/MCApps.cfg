CONSTANTS
  web = web
  webtoo = webtoo
  worker = worker
  p1 = p1
  p2 = p2
  Handler = {h1, h2}
  Space = {lab}
  App = {shop}
  Instances = {0, 1}
  Release = {web, webtoo, worker}
  NoRelease = NoRelease
  Port = {p1, p2}
  NoPort = NoPort
  PortOf <- MCPortOf
  WithInner = {web}
  MaxRequests = 4
  MaxFailures = 2
SYMMETRY Handlers
SPECIFICATION Spec
INVARIANTS
  TypeOK
  SpaceIsBacked
  RunsAsAnswered
  DeployedKeepsHome
