CONSTANTS
  Domain = {www}
  Path = {root}
  App = {shop, ledger}
  InternalApp = {ledger}
  Kind = {"external", "internal"}
  MaxAdding = 1
SPECIFICATION PathsSpec
INVARIANT NoMixedSite
CHECK_DEADLOCK FALSE
