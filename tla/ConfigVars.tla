------------------------------ MODULE ConfigVars ------------------------------
(***************************************************************************)
(* Config sets, binds of apps and the environment put together from them   *)
(* (config/, app/createbind.go, app/unbindapp.go, service/configvars.go).  *)
(* A name stands for an app or a job of one space: binds are looked up by  *)
(* name, whichever of the two it is.                                       *)
(*                                                                         *)
(* A rule is a row of configvarsmap.  It belongs to the app it was made    *)
(* for, but it is applied to every app bound to the config set with the    *)
(* name of that app and its space (OwnSet).                                *)
(***************************************************************************)
EXTENDS Naturals

CONSTANTS Name, Set, Service, VarName, Value,
          OwnSet,        \* OwnSet[n]: the set called like the app and its space
          BuiltIn,       \* BuiltIn[n]: the variables of Akkeris itself
          Offered,       \* Offered[s]: the variables the service s hands out (external)
          AnyVar,        \* the variable name "*" of a rule
          NewNames,      \* bound: the new names in rules
          Prefixed       \* Prefixed[p, v]: the name v with p before it

Environment == UNION {[vs -> Value] : vs \in SUBSET VarName}

ASSUME NamesAssumption ==
  /\ Name # {} /\ OwnSet \in [Name -> Set] /\ BuiltIn \in [Name -> Environment]
  /\ AnyVar \notin VarName /\ NewNames \subseteq VarName
ASSUME ServicesAssumption ==
  /\ Offered \in [Service -> Environment]
  /\ Prefixed \in [NewNames \X VarName -> VarName]

VARIABLES
  sets,          \* the rows of the table sets
  configvars,    \* those of configvars: configvars[s] are the variables of the set s
  includes,      \* includes: pairs of a set and one it includes
  configbound,   \* appbindings of type config: an app and a set ...
  servicebound,  \* ... and of other types: an app and a service
  configvarsmap, \* the rules
  unbinding,     \* the apps and services Unbindapp is halfway through with ...
  deleting       \* ... and the sets Deleteset is

bound == <<configbound, servicebound, configvarsmap, unbinding>>
tables == <<sets, configvars, includes, deleting, bound>>

Action == {"copy", "delete", "rename"}
Rule == [app : Name, service : Service, action : Action,
         var : VarName \union {AnyVar}, newname : NewNames]

TablesOK ==
  /\ sets \subseteq Set /\ configvars \in [Set -> Environment]
  /\ includes \subseteq Set \X Set
  /\ configbound \subseteq Name \X Set /\ servicebound \subseteq Name \X Service
  /\ configvarsmap \subseteq Rule
  /\ unbinding \subseteq Name \X Service /\ deleting \subseteq Set

Override(f, g) ==
  [x \in DOMAIN f \union DOMAIN g |-> IF x \in DOMAIN g THEN g[x] ELSE f[x]]
Without(f, xs) == [x \in DOMAIN f \ xs |-> f[x]]

-----------------------------------------------------------------------------
(* The handlers that change the tables, most in one statement. *)

\* A set of the name, be it of the same type, is left as it is.
Createset(s) ==
  /\ sets' = sets \union {s}
  /\ UNCHANGED <<configvars, includes, deleting, bound>>

\* Addvar and Addvars: the latter for several variables in a transaction.
Addvars(s, new) ==
  /\ configvars' = [configvars EXCEPT ![s] = Override(@, new)]
  /\ UNCHANGED <<sets, includes, deleting, bound>>

Updatevar(s, x, v) ==
  /\ x \in DOMAIN configvars[s]
  /\ configvars' = [configvars EXCEPT ![s][x] = v]
  /\ UNCHANGED <<sets, includes, deleting, bound>>

Deletevar(s, x) ==
  /\ configvars' = [configvars EXCEPT ![s] = Without(@, {x})]
  /\ UNCHANGED <<sets, includes, deleting, bound>>

\* The primary key refuses a second row; no set needs to be there.
Includeset(parent, child) ==
  /\ <<parent, child>> \notin includes
  /\ includes' = includes \union {<<parent, child>>}
  /\ UNCHANGED <<sets, configvars, deleting, bound>>

Deleteinclude(parent, child) ==
  /\ includes' = includes \ {<<parent, child>>}
  /\ UNCHANGED <<sets, configvars, deleting, bound>>

\* Deleteset has two statements, and leaves includes and binds alone.
Deleteset(s) ==
  /\ configvars' = [configvars EXCEPT ![s] = Without(@, VarName)]
  /\ deleting' = deleting \union {s}
  /\ UNCHANGED <<sets, includes, bound>>
DeleteSetRow(s) ==
  /\ s \in deleting
  /\ sets' = sets \ {s} /\ deleting' = deleting \ {s}
  /\ UNCHANGED <<configvars, includes, bound>>

\* Createbind: neither the app nor what it is bound to needs to be there.
BindConfig(n, s) ==
  /\ <<n, s>> \notin configbound
  /\ configbound' = configbound \union {<<n, s>>}
  /\ UNCHANGED <<sets, configvars, includes, deleting, servicebound, configvarsmap, unbinding>>
BindService(n, s) ==
  /\ <<n, s>> \notin servicebound
  /\ servicebound' = servicebound \union {<<n, s>>}
  /\ UNCHANGED <<sets, configvars, includes, deleting, configbound, configvarsmap, unbinding>>

\* Any of the actions, on any variable or "*", whatever the service hands out.
Createbindmap(r) ==
  /\ configvarsmap' = configvarsmap \union {r}
  /\ UNCHANGED <<sets, configvars, includes, deleting, configbound, servicebound, unbinding>>
Deletebindmap(r) ==
  /\ configvarsmap' = configvarsmap \ {r}
  /\ UNCHANGED <<sets, configvars, includes, deleting, configbound, servicebound, unbinding>>

\* Unbindapp has two statements; there are no rules about config sets.
UnbindConfig(n, s) ==
  /\ configbound' = configbound \ {<<n, s>>}
  /\ UNCHANGED <<sets, configvars, includes, deleting, servicebound, configvarsmap, unbinding>>
Unbindapp(n, s) ==
  /\ servicebound' = servicebound \ {<<n, s>>}
  /\ unbinding' = unbinding \union {<<n, s>>}
  /\ UNCHANGED <<sets, configvars, includes, deleting, configbound, configvarsmap>>
DeleteRules(n, s) ==
  /\ <<n, s>> \in unbinding
  /\ configvarsmap' = {r \in configvarsmap : ~(r.app = n /\ r.service = s)}
  /\ unbinding' = unbinding \ {<<n, s>>}
  /\ UNCHANGED <<sets, configvars, includes, deleting, configbound, servicebound>>

\* The second statement of the two fails.
HalfDone ==
  /\ \/ \E s \in deleting : deleting' = deleting \ {s} /\ UNCHANGED unbinding
     \/ \E p \in unbinding : unbinding' = unbinding \ {p} /\ UNCHANGED deleting
  /\ UNCHANGED <<sets, configvars, includes, configbound, servicebound, configvarsmap>>

-----------------------------------------------------------------------------
(* Reading, one query after the other. *)

\* GetBindings: of several config sets the last row counts, in no order; without
\* one there are no variables of sets.
ConfigSets(n) ==
  LET candidates == {s \in Set : <<n, s>> \in configbound} IN
  IF candidates = {} THEN {{}} ELSE {{s} : s \in candidates}
Services(n) == {s \in Service : <<n, s>> \in servicebound}

\* The functions that pick a value for every name there are values for.
Choices(pairs) ==
  LET names == {p[1] : p \in pairs} IN
  {f \in [names -> {p[2] : p \in pairs}] : \A x \in names : <<x, f[x]>> \in pairs}

\* GetConfigVars: the variables of a set and of those it includes, not of those they
\* include; of rows for one name the last counts, in no order.
SetVars(s) == {<<x, configvars[s][x]>> : x \in DOMAIN configvars[s]}
GetConfigVars(configset) ==
  Choices(UNION {SetVars(s) : s \in configset
                   \union {c \in Set : \E p \in configset : <<p, c>> \in includes}})

\* GetServiceConfigVars, for one service.  A rule that fits a variable copies,
\* deletes or renames it; one that does not ends the request with an error.
RulesFor(n, s) ==
  {r \in configvarsmap : r.service = s /\ <<n, OwnSet[r.app]>> \in configbound}
Fits(r, v) == r.var = v \/ (r.var = AnyVar /\ r.action = "rename")
Unfit(n, s) == \E v \in DOMAIN Offered[s], r \in RulesFor(n, s) : ~Fits(r, v)

NewName(r, v) == IF r.var = AnyVar THEN Prefixed[r.newname, v] ELSE r.newname
NewVars(n, s) ==
  {<<NewName(r, v), Offered[s][v]>> :
     v \in DOMAIN Offered[s], r \in {q \in RulesFor(n, s) : q.action # "delete"}}
\* Mutant: what was renamed stays under its old name as well.
RemoveDeleted(n, s) ==
  {v \in DOMAIN Offered[s] : \E r \in RulesFor(n, s) : Fits(r, v) /\ r.action = "delete"}

RemoveVars(n, s) ==
  {v \in DOMAIN Offered[s] : \E r \in RulesFor(n, s) : Fits(r, v) /\ r.action # "copy"}

\* New variables come last; of several of one name the last counts, in no order.
ServiceVars(n, s) ==
  {Override(Without(Offered[s], RemoveVars(n, s)), new) : new \in Choices(NewVars(n, s))}

-----------------------------------------------------------------------------
(* What an environment should be, name by name. *)

\* The value of x comes from a service if one gives x after the rules, else from the
\* config set or one that it includes, else from Akkeris.
GivenBy(n, s, x) ==
  LET renamed == {v \in DOMAIN Offered[s] : \E r \in RulesFor(n, s) :
                    /\ r.var \in {v, AnyVar} /\ r.action \in {"copy", "rename"}
                    /\ NewName(r, v) = x}
      kept == {v \in DOMAIN Offered[s] : /\ v = x
                 /\ \A r \in RulesFor(n, s) : r.var \in {v, AnyVar} => r.action = "copy"}
  IN  {Offered[s][v] : v \in IF renamed # {} THEN renamed ELSE kept}
SetBy(configset, x) ==
  {configvars[s][x] : s \in {t \in Set : /\ x \in DOMAIN configvars[t]
                                         /\ \/ t \in configset
                                            \/ \E p \in configset : <<p, t>> \in includes}}

BoundValues(n, configset, x) ==
  LET ofservices == UNION {GivenBy(n, s, x) : s \in Services(n)}
      ofsets == SetBy(configset, x)
  IN  CASE ofservices # {} -> ofservices
        [] ofservices = {} /\ ofsets # {} -> ofsets
        [] OTHER -> {BuiltIn[n][y] : y \in DOMAIN BuiltIn[n] \intersect {x}}

\* Of the variables that came with the request this only says that they are there, and
\* with their value if nothing else gives one: whether they override what is bound is
\* the property OneOffEnvOverrides of Jobs.
IsEnvironmentOf(env, n, extra) ==
  \E configset \in ConfigSets(n) : \A x \in VarName :
    LET values == BoundValues(n, configset, x) IN
    CASE x \in DOMAIN extra -> x \in DOMAIN env /\ (values = {} => env[x] = extra[x])
      [] x \notin DOMAIN extra /\ values = {} -> x \notin DOMAIN env
      [] OTHER -> x \in DOMAIN env /\ env[x] \in values
=============================================================================
