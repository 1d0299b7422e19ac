CONSTANTS
  www = www
  api = api
  A = A
  old = old
  new = new
  Handler = {h1, h2}
  Zone = {public, private}
  Name = {www, api}
  Type = {A}
  Value = {old, new}
  Wanted <- MCOthers
  Present = {}
  MaxRequests = 2
  MaxFailures = 1
SPECIFICATION Spec
PROPERTY OnlyTheOldGoes
