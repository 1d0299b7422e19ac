------------------------------ MODULE SitePaths ------------------------------
(***************************************************************************)
(* The tables behind the sites of the region (router/http.go): "routers",  *)
(* one row per site with its internal flag, and "routerpaths", one row per *)
(* (domain, path, app).  An app here stands for the pair (app, space); the *)
(* apps of internal spaces are InternalApp.                                *)
(*                                                                         *)
(* Each SQL statement is one atomic step.  No foreign key ties the tables. *)
(***************************************************************************)
EXTENDS Sites

CONSTANTS Path,         \* the paths of a site
          App,          \* the apps paths may lead to
          InternalApp,  \* those whose space is internal
          Kind,         \* the kinds of site created: "external", "internal" or both
          MaxAdding     \* bound: the add-path requests in flight at once

ASSUME PathAssumption == Path # {}
ASSUME AppAssumption == App # {} /\ InternalApp \subseteq App
ASSUME KindAssumption == Kind \subseteq {"external", "internal"}
ASSUME MaxAddingAssumption == MaxAdding \in Nat

VARIABLES routers,  \* routers[d]: the kind of the site d, or "absent"
          rows,     \* the rows of routerpaths
          adding    \* the rows whose add-path request has passed its checks

tables == <<routers, rows, adding>>

Row == [domain : Domain, path : Path, app : App, maintenance : BOOLEAN]

PathsTypeOK ==
  /\ routers \in [Domain -> {"external", "internal", "absent"}]
  /\ rows \subseteq Row
  /\ adding \subseteq Row

\* GetPaths and GetPathsByApp.
RowsOf(d) == {r \in rows : r.domain = d}
RowsOfApp(a) == {r \in rows : r.app = a}

-----------------------------------------------------------------------------
\* POST /v1/router.  The unique index on the domain refuses a second row.
CreateRouter(d, kind) ==
  /\ routers[d] = "absent"
  /\ routers' = [routers EXCEPT ![d] = kind]
  /\ UNCHANGED <<rows, adding>>

\* POST /v1/router/{router}/path, up to the checks: the site exists, and an
\* internal site only gets apps of internal spaces, an external one only others.
CheckPath(d, p, a) ==
  /\ Cardinality(adding) < MaxAdding
  /\ routers[d] # "absent"
  /\ routers[d] = "internal" <=> a \in InternalApp
  /\ adding' = adding \union {[domain |-> d, path |-> p, app |-> a, maintenance |-> FALSE]}
  /\ UNCHANGED <<routers, rows>>

\* ... and the insert, which the primary key refuses for a row that is there.
\* A new row is not in maintenance, whatever the state of its app.
SameKey(r, s) == r.domain = s.domain /\ r.path = s.path /\ r.app = s.app

InsertPath(r) ==
  /\ r \in adding
  /\ adding' = adding \ {r}
  /\ rows' = IF \E s \in rows : SameKey(r, s) THEN rows ELSE rows \union {r}
  /\ UNCHANGED routers

\* DELETE /v1/router/{router}/path: every row of the path, whatever its app.
DeletePath(d, p) ==
  /\ \E r \in RowsOf(d) : r.path = p
  /\ rows' = {r \in rows : ~(r.domain = d /\ r.path = p)}
  /\ UNCHANGED <<routers, adding>>

\* PUT /v1/router/{router}/path: the path leads to another app from now on; the
\* maintenance flag of the row stays.  The statement updates every row of the
\* path, and fails as a whole if that made two rows equal.
UpdatePath(d, p, a) ==
  LET old == {r \in RowsOf(d) : r.path = p}
  IN  /\ \E r \in old : old = {r}
      /\ rows' = (rows \ old) \union {[r EXCEPT !.app = a] : r \in old}
      /\ UNCHANGED <<routers, adding>>

\* The two statements of DELETE /v1/router/{router}.
DeleteRows(d) == rows' = rows \ RowsOf(d)
DeleteRouterRow(d) == routers' = [routers EXCEPT ![d] = "absent"]

\* The statement of the maintenance handlers.
FlagRows(a, value) ==
  rows' = {IF r.app = a THEN [r EXCEPT !.maintenance = value] ELSE r : r \in rows}

-----------------------------------------------------------------------------
PathsInit ==
  /\ routers = [d \in Domain |-> "absent"]
  /\ rows = {}
  /\ adding = {}

\* The handlers that only touch the tables.
PathsNext ==
  \/ \E d \in Domain, kind \in Kind : CreateRouter(d, kind)
  \/ \E d \in Domain, p \in Path, a \in App : CheckPath(d, p, a)
  \/ \E r \in adding : InsertPath(r)
  \/ \E d \in Domain, p \in Path : DeletePath(d, p)
  \/ \E d \in Domain, p \in Path, a \in App : UpdatePath(d, p, a)

PathsSpec == PathsInit /\ [][PathsNext]_tables

\* "Cannot Mix internal and external" (HttpAddPath): a path of an internal site
\* leads to an app of an internal space, and one of an external site does not.
NoMixedSite ==
  \A r \in rows : routers[r.domain] # "absent" =>
    (routers[r.domain] = "internal" <=> r.app \in InternalApp)
=============================================================================
