CONSTANTS
  www = www
  api = api
  A = A
  old = old
  new = new
  Handler = {h1, h2}
  Zone = {public, private}
  Name = {www}
  Type = {A}
  Value = {old, new}
  Wanted <- MCWanted
  Present <- MCPresent
  MaxRequests = 2
  MaxFailures = 1
SPECIFICATION Spec
INVARIANTS
  TypeOK
  CachedIsThere
  RefreshedIsComplete
PROPERTY EverythingEnds
