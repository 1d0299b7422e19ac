----------------------------- MODULE SiteRouter -----------------------------
(***************************************************************************)
(* The life of a site: the tables (SitePaths), the shared gateway          *)
(* (SitesGateway), the virtual service of each site in Kubernetes, and the *)
(* requests that work on all three without any common transaction:         *)
(* pushing a site, deleting it, and turning the maintenance page of an app *)
(* on and off (router/http.go, router/ingress-istio.go, maintenance/).     *)
(*                                                                         *)
(* Requests run concurrently and every access to the database or to        *)
(* Kubernetes is a step of its own.  The sites are those of the public     *)
(* gateway; the private one is a second object handled alike.              *)
(***************************************************************************)
EXTENDS SitesGateway, SitePaths

CONSTANTS OwnCert,      \* OwnCert[d]: the name of the certificate for d itself
          WildCert,     \* WildCert[d]: that of the wildcard certificate covering d
          StarCert,     \* "star-certificate", the default
          Installable,  \* the certificates that may get installed
          Down,         \* the host of the maintenance page
          VsRetryCount, \* VS_RETRY_COUNT, the attempts to set a maintenance page
          InitialRows,  \* the paths the sites have at first
          MaxRequests,  \* bound: the push, delete and maintenance requests made
          MaxChanges    \* bound: the changes made to the tables alone

\* The names of the certificates of a domain end in "-tls", the default does not.
ASSUME CertNameAssumption ==
  StarCert \in Cert /\ OwnCert \in [Domain -> Cert \ {StarCert}]
                    /\ WildCert \in [Domain -> Cert \ {StarCert}]
ASSUME InitialRowsAssumption ==
  InitialRows \subseteq {r \in Row : r.app \notin InternalApp /\ ~r.maintenance}
ASSUME VsRetryCountAssumption == VsRetryCount \in Nat \ {0}
ASSUME BoundsAssumption == MaxRequests \in Nat /\ MaxChanges \in Nat

VARIABLES secrets,   \* the certificates installed in the certificate namespace
          vs,        \* vs[d]: the virtual service of the site d
          appDown,   \* the apps whose own virtual service shows the page
          req,       \* req[h]: the request the handler h is working on
          requests,  \* the number of those requests made so far
          changes,   \* the number of those changes made so far
          met,       \* ghost: the sites with overlapping requests
          suspect,   \* ghost: the sites with overlapping or failed requests
          unpushed   \* ghost: the sites whose rows changed since their push read them

k8s == <<secrets, vs, appDown>>
ghosts == <<requests, changes, met, suspect, unpushed>>
vars == <<tables, gwvars, k8s, req, ghosts>>

Route == [path : Path, host : App \union {Down}]
VirtualService == [exists : BOOLEAN, version : Nat, routes : SUBSET Route]

Todo == [domain : Domain, path : Path]
NoRequest == [pc |-> "idle", op |-> "push", domain |-> CHOOSE d \in Domain : TRUE,
              app |-> CHOOSE a \in App : TRUE,
              rows |-> {}, path |-> CHOOSE p \in Path : TRUE,
              todo |-> {}, version |-> 0,
              routes |-> {}, tries |-> 0, alone |-> TRUE]

Request == [pc : {"idle", "router", "unpublish", "certificate", "gateway", "exists", "write",
                  "rows", "row", "app", "list", "next", "read", "put"},
            op : {"push", "delete", "enable", "disable"}, domain : Domain, app : App,
            rows : SUBSET Row, path : Path, todo : SUBSET Todo, version : Nat,
            routes : SUBSET Route, tries : 0..(VsRetryCount - 1), alone : BOOLEAN]

TypeOK ==
  /\ GatewayTypeOK /\ PathsTypeOK
  /\ secrets \subseteq Installable
  /\ vs \in [Domain -> VirtualService]
  /\ appDown \subseteq App
  /\ req \in [Handler -> Request]
  /\ requests \in 0..MaxRequests /\ changes \in 0..MaxChanges
  /\ met \subseteq Domain /\ suspect \subseteq Domain /\ unpushed \subseteq Domain

-----------------------------------------------------------------------------
\* GetCertificateFromDomain: the best certificate there is at the time.
CertOf(d) ==
  IF OwnCert[d] \in secrets THEN OwnCert[d]
  ELSE IF WildCert[d] \in secrets THEN WildCert[d] ELSE StarCert

\* PrepareVirtualServiceForCreateorUpdate: the routes that publish the rows.
RoutesOf(rs) == {[path |-> r.path, host |-> IF r.maintenance THEN Down ELSE r.app] : r \in rs}

\* setMaintenancePage's edit of the routes: every route of the path, whichever
\* app it leads to, now leads to the page or to the given app.
WithPage(rts, p, a, value) ==
  {IF r.path = p THEN [r EXCEPT !.host = IF value THEN Down ELSE a] ELSE r : r \in rts}

Moved(h, pc) == [req EXCEPT ![h].pc = pc]
Active == {h \in Handler : req[h].pc # "idle"}
SiteOp(h) == req[h].op \in {"push", "delete"}

\* The sites a request works on.  A maintenance request works on those its app
\* has paths on; any site, since that is only known when it gets there.
Touches(r) == IF r.op \in {"push", "delete"} THEN {r.domain} ELSE Domain

\* A new request starts: the sites it shares with requests in flight are suspect
\* from now on, and none of these requests is alone any more.
Arrive(h, r) ==
  LET others == {o \in Active : Touches(req[o]) \intersect Touches(r) # {}}
      shared == UNION {Touches(req[o]) \intersect Touches(r) : o \in others}
  IN  /\ req[h].pc = "idle"
      /\ requests < MaxRequests
      /\ requests' = requests + 1
      /\ req' = [o \in Handler |->
                   IF o = h THEN [r EXCEPT !.alone = others = {}]
                   ELSE IF o \in others THEN [req[o] EXCEPT !.alone = FALSE] ELSE req[o]]
      /\ met' = met \union shared /\ suspect' = suspect \union shared

\* The request ends with an error answer.
Fail(h) ==
  /\ req' = [req EXCEPT ![h] = NoRequest]
  /\ suspect' = suspect \union Touches(req[h])
  /\ UNCHANGED <<requests, changes, met, unpushed>>

\* The request ends well.  A push with paths that had its site for itself leaves
\* nothing to suspect.
Publishing(h) == req[h].op = "push" /\ req[h].rows # {}

Succeed(h) ==
  /\ req' = [req EXCEPT ![h] = NoRequest]
  /\ IF Publishing(h) /\ req[h].alone
     THEN met' = met \ {req[h].domain} /\ suspect' = suspect \ {req[h].domain}
     ELSE UNCHANGED <<met, suspect>>
  /\ UNCHANGED <<requests, changes, unpushed>>

Continue(h, pc) == req' = Moved(h, pc) /\ UNCHANGED ghosts

-----------------------------------------------------------------------------
(* PUT and DELETE /v1/router/{router}. *)

\* The paths are read first ...
StartSiteRequest(h, op, d) ==
  /\ Arrive(h, [NoRequest EXCEPT !.pc = "router", !.op = op, !.domain = d, !.rows = RowsOf(d)])
  /\ unpushed' = IF op = "push" THEN unpushed \ {d} ELSE unpushed
  /\ UNCHANGED <<tables, gwvars, k8s, changes>>

\* ... then the router row, without which the request fails.  A push of a site
\* without paths takes it off line.
ReadRouter(h) ==
  /\ req[h].pc = "router"
  /\ UNCHANGED <<tables, gwvars, k8s>>
  /\ \/ routers[req[h].domain] = "absent" /\ Fail(h)
     \/ /\ routers[req[h].domain] # "absent"
        /\ Continue(h, IF Publishing(h) THEN "certificate" ELSE "unpublish")

\* Mutant: the gateway is forgotten.
DeleteOnlyVirtualService(h) ==
  LET d == req[h].domain IN
  /\ req[h].pc = "unpublish"
  /\ UNCHANGED <<tables, gwvars, secrets, appDown>>
  /\ vs' = [vs EXCEPT ![d].exists = FALSE, ![d].routes = {}, ![d].version = @ + 1]
  /\ IF req[h].op = "delete" THEN Continue(h, "rows") ELSE Succeed(h)

\* DeleteRouter starts with the virtual service.  If there is none it returns
\* without a look at the gateway.
DeleteVirtualService(h) ==
  LET d == req[h].domain IN
  /\ req[h].pc = "unpublish"
  /\ UNCHANGED <<tables, gwvars, secrets, appDown>>
  /\ \/ /\ vs[d].exists
        /\ vs' = [vs EXCEPT ![d].exists = FALSE, ![d].routes = {}, ![d].version = @ + 1]
        /\ Continue(h, "certificate")
     \/ /\ ~vs[d].exists /\ req[h].op = "delete"
        /\ Continue(h, "rows")
        /\ UNCHANGED vs
     \/ /\ ~vs[d].exists /\ req[h].op = "push"
        /\ Succeed(h)
        /\ UNCHANGED vs

\* The certificate is looked up, then the gateway is edited (SitesGateway): the
\* site joins it when it is pushed with paths and leaves it otherwise.
LookupCertificate(h) ==
  /\ req[h].pc = "certificate"
  /\ Begin(h, IF Publishing(h) THEN "install" ELSE "remove", req[h].domain, CertOf(req[h].domain))
  /\ Continue(h, "gateway")
  /\ UNCHANGED <<tables, k8s>>

GatewayStep(h) ==
  /\ Step(h)
  /\ UNCHANGED <<tables, k8s, req, ghosts>>

\* Mutant: a push goes on when the gateway could not be set.
GatewayErrorIgnored(h) ==
  /\ Return(h)
  /\ \/ call[h].pc = "failed" /\ ~Publishing(h) /\ Fail(h)
     \/ call[h].pc \in {"ok", "failed"} /\ Publishing(h) /\ Continue(h, "exists")
     \/ call[h].pc = "ok" /\ req[h].op = "delete" /\ Continue(h, "rows")
     \/ call[h].pc = "ok" /\ req[h].op = "push" /\ ~Publishing(h) /\ Succeed(h)
  /\ UNCHANGED <<tables, k8s>>

GatewayDone(h) ==
  /\ Return(h)
  /\ \/ call[h].pc = "failed" /\ Fail(h)
     \/ call[h].pc = "ok" /\ Publishing(h) /\ Continue(h, "exists")
     \/ call[h].pc = "ok" /\ req[h].op = "delete" /\ Continue(h, "rows")
     \/ call[h].pc = "ok" /\ req[h].op = "push" /\ ~Publishing(h) /\ Succeed(h)
  /\ UNCHANGED <<tables, k8s>>

\* The version of the virtual service is read only now; 0 if there is none.
VirtualServiceExists(h) ==
  LET d == req[h].domain IN
  /\ req[h].pc = "exists"
  /\ req' = [req EXCEPT ![h].pc = "write",
                        ![h].version = IF vs[d].exists THEN vs[d].version ELSE 0]
  /\ UNCHANGED <<tables, gwvars, k8s, ghosts>>

\* The virtual service is replaced by the routes of the rows read at the start:
\* a post if there was none, else a put under the version read; either can be
\* refused, and that is not retried.
WriteVirtualService(h) ==
  LET d == req[h].domain
      current == IF vs[d].exists THEN vs[d].version ELSE 0
  IN  /\ req[h].pc = "write"
      /\ UNCHANGED <<tables, gwvars, secrets, appDown>>
      /\ \/ /\ req[h].version = current
            /\ vs' = [vs EXCEPT ![d] = [exists |-> TRUE, version |-> vs[d].version + 1,
                                        routes |-> RoutesOf(req[h].rows)]]
            /\ Succeed(h)
         \/ /\ req[h].version # current
            /\ Fail(h)
            /\ UNCHANGED vs

\* The rest of a deletion: the paths, then the site (the DNS records between the
\* two are only reported when they cannot be removed).
DeleteRowsStep(h) ==
  /\ req[h].pc = "rows"
  /\ DeleteRows(req[h].domain)
  /\ req' = Moved(h, "row")
  /\ unpushed' = unpushed \union {req[h].domain}
  /\ UNCHANGED <<routers, adding, gwvars, k8s, requests, changes, met, suspect>>

DeleteRouterStep(h) ==
  /\ req[h].pc = "row"
  /\ DeleteRouterRow(req[h].domain)
  /\ Succeed(h)
  /\ UNCHANGED <<rows, adding, gwvars, k8s>>

-----------------------------------------------------------------------------
(* PUT and DELETE /v1/space/{space}/app/{app}/maintenance. *)

Value(h) == req[h].op = "enable"

\* Mutant: the rows are not flagged.
StartWithoutFlag(h, op, a) ==
  /\ Arrive(h, [NoRequest EXCEPT !.pc = "app", !.op = op, !.app = a])
  /\ UNCHANGED <<tables, gwvars, k8s, changes, unpushed>>

\* The rows are flagged first ...
StartMaintenance(h, op, a) ==
  /\ Arrive(h, [NoRequest EXCEPT !.pc = "app", !.op = op, !.app = a])
  /\ FlagRows(a, op = "enable")
  /\ UNCHANGED <<routers, adding, gwvars, k8s, changes, unpushed>>

\* ... then the virtual service of the app itself is set ...
SetAppPage(h) ==
  /\ req[h].pc = "app"
  /\ appDown' = IF Value(h) THEN appDown \union {req[h].app} ELSE appDown \ {req[h].app}
  /\ Continue(h, "list")
  /\ UNCHANGED <<tables, gwvars, secrets, vs>>

\* ... and then, one after the other, those of the sites it has paths on.
ListPaths(h) ==
  /\ req[h].pc = "list"
  /\ req' = [req EXCEPT ![h].pc = "next",
                        ![h].todo = {[domain |-> r.domain, path |-> r.path] : r \in RowsOfApp(req[h].app)}]
  /\ UNCHANGED <<tables, gwvars, k8s, ghosts>>

NextPath(h) ==
  /\ req[h].pc = "next"
  /\ UNCHANGED <<tables, gwvars, k8s>>
  /\ \/ /\ req[h].todo = {}
        /\ Succeed(h)
     \/ \E t \in req[h].todo :
          /\ req' = [req EXCEPT ![h].pc = "read", ![h].todo = @ \ {t}, ![h].tries = 0,
                                ![h].domain = t.domain, ![h].path = t.path]
          /\ UNCHANGED ghosts

\* The virtual service of the site is read and edited.  There may be none (the
\* site was never pushed), or none of its routes may match; nothing is written then.
ReadVirtualService(h) ==
  LET d == req[h].domain
      matches == \E r \in vs[d].routes : r.path = req[h].path
  IN  /\ req[h].pc = "read"
      /\ req' = IF vs[d].exists /\ matches
                THEN [req EXCEPT ![h].pc = "put", ![h].version = vs[d].version,
                                 ![h].routes = WithPage(vs[d].routes, req[h].path, req[h].app, Value(h))]
                ELSE Moved(h, "next")
      /\ UNCHANGED <<tables, gwvars, k8s, ghosts>>

\* Mutant: the update is sent without the version that was read.
UpdateUnversioned(h) ==
  LET d == req[h].domain IN
  /\ req[h].pc = "put"
  /\ UNCHANGED <<tables, gwvars, secrets, appDown>>
  /\ \/ /\ vs[d].exists
        /\ vs' = [vs EXCEPT ![d].version = @ + 1, ![d].routes = req[h].routes]
        /\ Continue(h, "next")
     \/ /\ ~vs[d].exists
        /\ Fail(h)
        /\ UNCHANGED vs

\* Mutant: the retries have no limit.
UpdateForever(h) ==
  LET d == req[h].domain IN
  /\ req[h].pc = "put"
  /\ UNCHANGED <<tables, gwvars, secrets, appDown>>
  /\ \/ /\ vs[d].exists /\ vs[d].version = req[h].version
        /\ vs' = [vs EXCEPT ![d].version = @ + 1, ![d].routes = req[h].routes]
        /\ Continue(h, "next")
     \/ /\ vs[d].exists /\ vs[d].version # req[h].version
        /\ req' = [req EXCEPT ![h].pc = "read", ![h].tries = @ + 1]
        /\ UNCHANGED <<vs, ghosts>>
     \/ /\ ~vs[d].exists
        /\ Fail(h)
        /\ UNCHANGED vs

\* It is put back under the version read.  A conflict is retried from the read,
\* VsRetryCount times at most; a virtual service that is gone is an error.
UpdateVirtualService(h) ==
  LET d == req[h].domain IN
  /\ req[h].pc = "put"
  /\ UNCHANGED <<tables, gwvars, secrets, appDown>>
  /\ \/ /\ vs[d].exists /\ vs[d].version = req[h].version
        /\ vs' = [vs EXCEPT ![d].version = @ + 1, ![d].routes = req[h].routes]
        /\ Continue(h, "next")
     \/ /\ vs[d].exists /\ vs[d].version # req[h].version /\ req[h].tries + 1 < VsRetryCount
        /\ req' = [req EXCEPT ![h].pc = "read", ![h].tries = @ + 1]
        /\ UNCHANGED <<vs, ghosts>>
     \/ /\ ~vs[d].exists \/ (vs[d].version # req[h].version /\ req[h].tries + 1 = VsRetryCount)
        /\ Fail(h)
        /\ UNCHANGED vs

-----------------------------------------------------------------------------
\* Any access to the database or to Kubernetes can fail; what was done stays.
RequestFailure(h) ==
  /\ req[h].pc \notin {"idle", "gateway"}
  /\ Fail(h)
  /\ UNCHANGED <<tables, gwvars, k8s>>

\* InstallCertificate, and the certificates the issuer delivers.
InstallCertificate(c) ==
  /\ secrets' = secrets \union {c}
  /\ UNCHANGED <<tables, gwvars, vs, appDown, req, ghosts>>

\* The handlers that only touch the tables.  They are no requests to Kubernetes,
\* and leave what is published behind the tables until the next push.
ChangeTables ==
  /\ changes < MaxChanges
  /\ PathsNext
  /\ changes' = IF rows' # rows \/ routers' # routers THEN changes + 1 ELSE changes
  /\ unpushed' = unpushed \union
       {d \in Domain : RowsOf(d) # {r \in rows' : r.domain = d}}
  /\ UNCHANGED <<gwvars, k8s, req, requests, met, suspect>>

\* Sites were created and given paths, and nothing is pushed yet.
Init ==
  /\ GatewayInit
  /\ routers = [d \in Domain |-> "external"]
  /\ rows = InitialRows
  /\ adding = {}
  /\ secrets = {}
  /\ vs = [d \in Domain |-> [exists |-> FALSE, version |-> 0, routes |-> {}]]
  /\ appDown = {}
  /\ req = [h \in Handler |-> NoRequest]
  /\ requests = 0 /\ changes = 0 /\ met = {} /\ suspect = {} /\ unpushed = {}

SiteRequest(h) ==
  \/ \E op \in {"push", "delete"}, d \in Domain : StartSiteRequest(h, op, d)
  \/ ReadRouter(h) \/ DeleteVirtualService(h) \/ LookupCertificate(h)
  \/ GatewayStep(h) \/ GatewayDone(h)
  \/ VirtualServiceExists(h) \/ WriteVirtualService(h)
  \/ DeleteRowsStep(h) \/ DeleteRouterStep(h)

MaintenanceRequest(h) ==
  \/ \E op \in {"enable", "disable"}, a \in App : StartMaintenance(h, op, a)
  \/ SetAppPage(h) \/ ListPaths(h) \/ NextPath(h)
  \/ ReadVirtualService(h) \/ UpdateVirtualService(h)

\* All the requests of the bounded instance are made and answered.
AllAnswered ==
  /\ requests = MaxRequests /\ Active = {}
  /\ UNCHANGED vars

Next ==
  \/ \E h \in Handler : SiteRequest(h) \/ MaintenanceRequest(h) \/ RequestFailure(h)
  \/ \E c \in Installable \ secrets : InstallCertificate(c)
  \/ ChangeTables
  \/ AllAnswered

Spec == Init /\ [][Next]_vars

-----------------------------------------------------------------------------
\* Ordering of the steps: a site joins the gateway before it gets its virtual
\* service, and loses the virtual service first.  So a virtual service always has
\* the TLS server and the redirect its site needs: whatever fails midway, whatever
\* certificate arrives, and whatever goes on for other sites on the shared gateway,
\* as long as no two requests for the site overlapped since its last push that was
\* alone and succeeded.
ServedThroughGateway ==
  \A d \in Domain \ met : vs[d].exists => d \in gateway.http /\ CertsOf(d, gateway) # {}

\* The sites no request works on.
AtRest(d) == \A h \in Active : d \notin Touches(req[h])

\* A site that was deleted, with no request for it failing or overlapping, has
\* neither virtual service nor redirect, nor an entry under its certificate.
DeletedIsOffline ==
  \A d \in Domain \ suspect :
    routers[d] = "absent" /\ AtRest(d) =>
      ~vs[d].exists /\ d \notin gateway.http /\ d \notin gateway.tls[CertOf(d)]

\* The virtual service of a site publishes exactly its rows, maintenance pages
\* included, once it was pushed since they changed: pushes, and maintenance
\* requests that edit it route by route, agree with the flags in the table.  (Of
\* sites whose paths lead to one app each: a second row for a path is accepted,
\* and the maintenance page is then set on both.)
OneAppPerPath(d) == \A r, s \in RowsOf(d) : r.path = s.path => r = s
PublishedIsTable ==
  \A d \in Domain \ (suspect \union unpushed) :
    vs[d].exists /\ AtRest(d) /\ OneAppPerPath(d) => vs[d].routes = RoutesOf(RowsOf(d))

\* A maintenance request only ever changes where the routes of a site lead: with
\* its read-modify-write retried on conflicts it never brings back, or loses, a
\* path that a push published in the meantime.
Paths(rts) == {r.path : r \in rts}
MaintenanceKeepsPaths ==
  [][\A h \in Handler, d \in Domain :
       req[h].pc = "put" /\ req'[h].pc = "next" => Paths(vs'[d].routes) = Paths(vs[d].routes)]_vars
=============================================================================
