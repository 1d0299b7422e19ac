-------------------------------- MODULE MCJobs --------------------------------
(***************************************************************************)
(* Jobs on a small instance: one job, its own config set and one that is   *)
(* shared, a database that hands out one variable and a queue that hands   *)
(* out two.  The app shop lends its set, and with it its rules.            *)
(***************************************************************************)
EXTENDS Jobs, TLC

CONSTANTS nightly, shop, own, common, db, queue, url, key, alias, a, b

MCOwnSet == [n \in Name |-> IF n = nightly THEN own ELSE common]
MCBuiltIn == [n \in Name |-> alias :> a]
MCOffered == [s \in Service |-> IF s = db THEN url :> a ELSE url :> b @@ key :> b]
MCPrefixed == [p \in NewNames \X VarName |-> IF p[2] = url THEN alias ELSE p[2]]
MCEnv == {url :> b @@ alias :> b}
MCVarSpecs == {url :> b}

RuleOf(n, s, action, var, new) ==
  [app |-> n, service |-> s, action |-> action, var |-> var, newname |-> new]
MCRules == {RuleOf(nightly, db, "copy", key, alias), RuleOf(shop, queue, "rename", AnyVar, alias)}

MCVars == [s \in Set |-> IF s = own THEN key :> a ELSE url :> b @@ key :> b]
Held(incl, configs, services, rules) ==
  [configvars |-> MCVars, includes |-> incl, configbound |-> {nightly} \X configs,
   servicebound |-> {nightly} \X services, configvarsmap |-> rules]
MCStart ==
  {Held({<<own, common>>}, {own}, {db},
        {RuleOf(nightly, db, "copy", url, alias), RuleOf(nightly, db, "delete", url, url)}),
   Held({}, {own, common}, {db, queue}, {RuleOf(shop, queue, "rename", AnyVar, alias)})}
Handlers == Permutations(Handler)
=============================================================================
