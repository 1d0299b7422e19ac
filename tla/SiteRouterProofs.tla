--------------------------- MODULE SiteRouterProofs ---------------------------
(***************************************************************************)
(* Proofs about the sites, for any number of concurrent requests, domains, *)
(* paths, apps and certificates, and any number of changes to the tables.  *)
(***************************************************************************)
EXTENDS SiteRouter, SitesGatewayProofs

USE DomainAssumption, CertAssumption, PathAssumption, AppAssumption, VsRetryCountAssumption

-----------------------------------------------------------------------------
(* Types. *)

\* The request of an idle handler is well typed.
LEMMA NoRequestType == NoRequest \in Request
BY DEF NoRequest, Request

\* The certificate looked up for a domain (GetCertificateFromDomain) is one there is.
LEMMA CertOfType == ASSUME NEW d \in Domain PROVE CertOf(d) \in Cert
BY CertNameAssumption DEF CertOf

\* A request works on domains.
LEMMA TouchesType == ASSUME NEW r \in Request PROVE Touches(r) \subseteq Domain
BY DEF Touches, Request

\* Routes are made of rows, and edited into routes.
LEMMA RoutesType ==
  /\ \A rs \in SUBSET Row : RoutesOf(rs) \subseteq Route
  /\ \A rts \in SUBSET Route, p \in Path, a \in App, value \in BOOLEAN :
       WithPage(rts, p, a, value) \subseteq Route
BY DEF RoutesOf, WithPage, Route, Row

\* The types of everything but the gateway, which has its own protocol.
OwnTypeOK == /\ PathsTypeOK
             /\ secrets \subseteq Installable
             /\ vs \in [Domain -> VirtualService]
             /\ appDown \subseteq App
             /\ req \in [Handler -> Request]
             /\ requests \in 0..MaxRequests /\ changes \in 0..MaxChanges
             /\ met \subseteq Domain /\ suspect \subseteq Domain /\ unpushed \subseteq Domain

\* The ends of a request, and its simple steps, are well typed.
LEMMA EndType ==
  ASSUME OwnTypeOK, NEW h \in Handler, Fail(h) \/ Succeed(h)
  PROVE  /\ req' \in [Handler -> Request] /\ suspect' \subseteq Domain /\ met' \subseteq Domain
         /\ requests' \in 0..MaxRequests /\ changes' \in 0..MaxChanges /\ unpushed' \subseteq Domain
BY NoRequestType, TouchesType DEF OwnTypeOK, Fail, Succeed

\* A request that moves on is well typed, at whatever step.
LEMMA MovedType ==
  ASSUME OwnTypeOK, NEW h \in Handler,
         NEW pc \in {"idle", "router", "unpublish", "certificate", "gateway", "exists", "write",
                     "rows", "row", "app", "list", "next", "read", "put"}
  PROVE  Moved(h, pc) \in [Handler -> Request]
BY DEF OwnTypeOK, Moved, Request

\* A request that continues leaves the types right.
LEMMA ContinueType ==
  ASSUME OwnTypeOK, NEW h \in Handler,
         NEW pc \in {"idle", "router", "unpublish", "certificate", "gateway", "exists", "write",
                     "rows", "row", "app", "list", "next", "read", "put"},
         Continue(h, pc)
  PROVE  /\ req' \in [Handler -> Request] /\ suspect' \subseteq Domain /\ met' \subseteq Domain
         /\ requests' \in 0..MaxRequests /\ changes' \in 0..MaxChanges /\ unpushed' \subseteq Domain
BY MovedType DEF OwnTypeOK, Continue, ghosts

\* A request that arrives leaves the types right: it was within the bound.
LEMMA ArriveType ==
  ASSUME OwnTypeOK, NEW h \in Handler, NEW r \in Request, Arrive(h, r)
  PROVE  /\ req' \in [Handler -> Request] /\ suspect' \subseteq Domain /\ met' \subseteq Domain
         /\ requests' \in 0..MaxRequests
<1> DEFINE others == {o \in Active : Touches(req[o]) \intersect Touches(r) # {}}
<1>1. requests \in Nat /\ requests < MaxRequests /\ requests' = requests + 1
  BY BoundsAssumption DEF OwnTypeOK, Arrive
<1>2. requests' \in 0..MaxRequests
  BY <1>1, BoundsAssumption
<1>3. [r EXCEPT !.alone = others = {}] \in Request
  BY DEF Request
<1>4. \A o \in Handler : req[o] \in Request /\ [req[o] EXCEPT !.alone = FALSE] \in Request
  BY DEF OwnTypeOK, Request
<1>5. req' \in [Handler -> Request]
  BY <1>3, <1>4 DEF Arrive
<1>6. \A o \in Active : Touches(req[o]) \subseteq Domain
  BY <1>4, TouchesType DEF Active
<1>7. suspect' \subseteq Domain /\ met' \subseteq Domain
  BY <1>6 DEF OwnTypeOK, Arrive
<1> QED BY <1>2, <1>5, <1>7

\* The steps of pushes and deletions preserve the types.
LEMMA SiteRequestType ==
  ASSUME OwnTypeOK, NEW h \in Handler, SiteRequest(h)
  PROVE  OwnTypeOK'
<1>0. req[h] \in Request /\ req[h].domain \in Domain /\ req[h].rows \subseteq Row
  BY DEF OwnTypeOK, Request
<1>1. ASSUME NEW op \in {"push", "delete"}, NEW d \in Domain, StartSiteRequest(h, op, d)
      PROVE  OwnTypeOK'
  <2>1. [NoRequest EXCEPT !.pc = "router", !.op = op, !.domain = d, !.rows = RowsOf(d)] \in Request
    <3>1. RowsOf(d) \subseteq Row
      BY DEF OwnTypeOK, PathsTypeOK, RowsOf
    <3> QED BY <3>1, NoRequestType DEF Request
  <2>2. /\ req' \in [Handler -> Request] /\ suspect' \subseteq Domain /\ met' \subseteq Domain
        /\ requests' \in 0..MaxRequests
    BY <1>1, <2>1, ArriveType DEF StartSiteRequest
  <2> QED BY <1>1, <2>2 DEF StartSiteRequest, OwnTypeOK, PathsTypeOK, tables, k8s
<1>2. CASE ReadRouter(h)
  <2>1. /\ req' \in [Handler -> Request] /\ suspect' \subseteq Domain /\ met' \subseteq Domain
        /\ requests' \in 0..MaxRequests /\ changes' \in 0..MaxChanges /\ unpushed' \subseteq Domain
    BY <1>2, EndType, ContinueType DEF ReadRouter
  <2> QED BY <1>2, <2>1 DEF ReadRouter, OwnTypeOK, PathsTypeOK, tables, k8s
<1>3. CASE DeleteVirtualService(h)
  <2>1. /\ req' \in [Handler -> Request] /\ suspect' \subseteq Domain /\ met' \subseteq Domain
        /\ requests' \in 0..MaxRequests /\ changes' \in 0..MaxChanges /\ unpushed' \subseteq Domain
    BY <1>3, EndType, ContinueType DEF DeleteVirtualService
  <2>2. vs' \in [Domain -> VirtualService]
    BY <1>0, <1>3 DEF DeleteVirtualService, OwnTypeOK, VirtualService
  <2> QED BY <1>3, <2>1, <2>2 DEF DeleteVirtualService, OwnTypeOK, PathsTypeOK, tables
<1>4. CASE LookupCertificate(h)
  <2>1. /\ req' \in [Handler -> Request] /\ suspect' \subseteq Domain /\ met' \subseteq Domain
        /\ requests' \in 0..MaxRequests /\ changes' \in 0..MaxChanges /\ unpushed' \subseteq Domain
    BY <1>4, ContinueType DEF LookupCertificate
  <2> QED BY <1>4, <2>1 DEF LookupCertificate, OwnTypeOK, PathsTypeOK, tables, k8s
<1>5. CASE GatewayStep(h)
  BY <1>5 DEF GatewayStep, OwnTypeOK, PathsTypeOK, tables, k8s, ghosts
<1>6. CASE GatewayDone(h)
  <2>1. /\ req' \in [Handler -> Request] /\ suspect' \subseteq Domain /\ met' \subseteq Domain
        /\ requests' \in 0..MaxRequests /\ changes' \in 0..MaxChanges /\ unpushed' \subseteq Domain
    BY <1>6, EndType, ContinueType DEF GatewayDone
  <2> QED BY <1>6, <2>1 DEF GatewayDone, OwnTypeOK, PathsTypeOK, tables, k8s
<1>7. CASE VirtualServiceExists(h)
  <2>1. vs[req[h].domain].version \in Nat
    BY <1>0 DEF OwnTypeOK, VirtualService
  <2> DEFINE version == IF vs[req[h].domain].exists THEN vs[req[h].domain].version ELSE 0
             r == [req[h] EXCEPT !.pc = "write", !.version = version]
  <2>r. r \in Request
    BY <1>0, <2>1 DEF Request
  <2>2. req' \in [Handler -> Request]
    BY <1>7, <2>r DEF VirtualServiceExists, OwnTypeOK
  <2> QED BY <1>7, <2>2 DEF VirtualServiceExists, OwnTypeOK, PathsTypeOK, tables, k8s, ghosts
<1>8. CASE WriteVirtualService(h)
  <2>1. /\ req' \in [Handler -> Request] /\ suspect' \subseteq Domain /\ met' \subseteq Domain
        /\ requests' \in 0..MaxRequests /\ changes' \in 0..MaxChanges /\ unpushed' \subseteq Domain
    BY <1>8, EndType DEF WriteVirtualService
  <2>2. vs[req[h].domain].version \in Nat /\ RoutesOf(req[h].rows) \subseteq Route
    BY <1>0, RoutesType DEF OwnTypeOK, VirtualService
  <2>3. vs' \in [Domain -> VirtualService]
    <3>1. vs[req[h].domain].version + 1 \in Nat
      BY <2>2
    <3>2. [exists |-> TRUE, version |-> vs[req[h].domain].version + 1,
           routes |-> RoutesOf(req[h].rows)] \in VirtualService
      BY <2>2, <3>1 DEF VirtualService
    <3> QED BY <1>0, <1>8, <3>2 DEF WriteVirtualService, OwnTypeOK
  <2> QED BY <1>8, <2>1, <2>3 DEF WriteVirtualService, OwnTypeOK, PathsTypeOK, tables
<1>9. CASE DeleteRowsStep(h)
  <2>1. req' \in [Handler -> Request]
    BY <1>9, MovedType DEF DeleteRowsStep
  <2> QED BY <1>0, <1>9, <2>1 DEF DeleteRowsStep, DeleteRows, OwnTypeOK, PathsTypeOK, k8s
<1>10. CASE DeleteRouterStep(h)
  <2>1. /\ req' \in [Handler -> Request] /\ suspect' \subseteq Domain /\ met' \subseteq Domain
        /\ requests' \in 0..MaxRequests /\ changes' \in 0..MaxChanges /\ unpushed' \subseteq Domain
    BY <1>10, EndType DEF DeleteRouterStep
  <2> QED BY <1>0, <1>10, <2>1 DEF DeleteRouterStep, DeleteRouterRow, OwnTypeOK, PathsTypeOK, k8s
<1> QED BY <1>1, <1>2, <1>3, <1>4, <1>5, <1>6, <1>7, <1>8, <1>9, <1>10 DEF SiteRequest

\* The steps of the maintenance requests preserve the types; a retry stays
\* within VsRetryCount.
LEMMA MaintenanceRequestType ==
  ASSUME OwnTypeOK, NEW h \in Handler, MaintenanceRequest(h)
  PROVE  OwnTypeOK'
<1>0. /\ req[h] \in Request /\ req[h].domain \in Domain /\ req[h].path \in Path
      /\ req[h].app \in App /\ req[h].routes \subseteq Route /\ req[h].tries \in 0..(VsRetryCount - 1)
  BY DEF OwnTypeOK, Request
<1>00. /\ vs[req[h].domain] \in VirtualService /\ vs[req[h].domain].version \in Nat
       /\ vs[req[h].domain].routes \subseteq Route
  BY <1>0 DEF OwnTypeOK, VirtualService
<1>1. ASSUME NEW op \in {"enable", "disable"}, NEW a \in App, StartMaintenance(h, op, a)
      PROVE  OwnTypeOK'
  <2>1. [NoRequest EXCEPT !.pc = "app", !.op = op, !.app = a] \in Request
    BY NoRequestType DEF Request
  <2>2. /\ req' \in [Handler -> Request] /\ suspect' \subseteq Domain /\ met' \subseteq Domain
        /\ requests' \in 0..MaxRequests
    BY <1>1, <2>1, ArriveType DEF StartMaintenance
  <2>3. rows' \subseteq Row
    BY <1>1 DEF StartMaintenance, FlagRows, OwnTypeOK, PathsTypeOK, Row
  <2> QED BY <1>1, <2>2, <2>3 DEF StartMaintenance, OwnTypeOK, PathsTypeOK, k8s
<1>2. CASE SetAppPage(h)
  <2>1. /\ req' \in [Handler -> Request] /\ suspect' \subseteq Domain /\ met' \subseteq Domain
        /\ requests' \in 0..MaxRequests /\ changes' \in 0..MaxChanges /\ unpushed' \subseteq Domain
    BY <1>2, ContinueType DEF SetAppPage
  <2>2. appDown' \subseteq App
    BY <1>0, <1>2 DEF SetAppPage, OwnTypeOK
  <2> QED BY <1>2, <2>1, <2>2 DEF SetAppPage, OwnTypeOK, PathsTypeOK, tables
<1>3. CASE ListPaths(h)
  <2> DEFINE todo == {[domain |-> r.domain, path |-> r.path] : r \in RowsOfApp(req[h].app)}
             next == [req[h] EXCEPT !.pc = "next", !.todo = todo]
  <2>1. todo \subseteq Todo
    BY DEF OwnTypeOK, PathsTypeOK, RowsOfApp, Row, Todo
  <2>n. next \in Request
    <3> HIDE DEF todo
    <3> QED BY <1>0, <2>1 DEF Request
  <2>2. req' \in [Handler -> Request]
    BY <1>3, <2>n DEF ListPaths, OwnTypeOK
  <2> QED BY <1>3, <2>2 DEF ListPaths, OwnTypeOK, PathsTypeOK, tables, k8s, ghosts
<1>4. CASE NextPath(h)
  <2>1. CASE Succeed(h)
    <3>1. /\ req' \in [Handler -> Request] /\ suspect' \subseteq Domain /\ met' \subseteq Domain
          /\ requests' \in 0..MaxRequests /\ changes' \in 0..MaxChanges /\ unpushed' \subseteq Domain
      BY <2>1, EndType
    <3> QED BY <1>4, <3>1 DEF NextPath, OwnTypeOK, PathsTypeOK, tables, k8s
  <2>2. ASSUME NEW t \in req[h].todo, UNCHANGED ghosts,
               req' = [req EXCEPT ![h].pc = "read", ![h].todo = @ \ {t}, ![h].tries = 0,
                                  ![h].domain = t.domain, ![h].path = t.path]
        PROVE  OwnTypeOK'
    <3>1. t.domain \in Domain /\ t.path \in Path /\ req[h].todo \ {t} \subseteq Todo
          /\ 0 \in 0..(VsRetryCount - 1)
      BY <1>0, <2>2 DEF Request, Todo
    <3>2. req' \in [Handler -> Request]
      BY <2>2, <3>1 DEF OwnTypeOK, Request
    <3> QED BY <1>4, <2>2, <3>2 DEF NextPath, OwnTypeOK, PathsTypeOK, tables, k8s, ghosts
  <2> QED BY <1>4, <2>1, <2>2 DEF NextPath
<1>5. CASE ReadVirtualService(h)
  <2> DEFINE edited == WithPage(vs[req[h].domain].routes, req[h].path, req[h].app, Value(h))
  <2>1. edited \subseteq Route
    <3>1. Value(h) \in BOOLEAN
      BY DEF Value
    <3> QED BY <1>0, <1>00, <3>1, RoutesType
  <2>2. CASE req' = Moved(h, "next")
    BY <1>5, <2>2, MovedType DEF ReadVirtualService, OwnTypeOK, PathsTypeOK, tables, k8s, ghosts
  <2>3. CASE req' = [req EXCEPT ![h].pc = "put", ![h].version = vs[req[h].domain].version,
                                ![h].routes = edited]
    <3> DEFINE r == [req[h] EXCEPT !.pc = "put", !.version = vs[req[h].domain].version,
                                   !.routes = edited]
    <3> HIDE DEF edited
    <3>r. r \in Request
      BY <1>0, <1>00, <2>1 DEF Request
    <3>1. req' \in [Handler -> Request]
      BY <2>3, <3>r DEF OwnTypeOK
    <3> QED BY <1>5, <3>1 DEF ReadVirtualService, OwnTypeOK, PathsTypeOK, tables, k8s, ghosts
  <2> QED BY <1>5, <2>2, <2>3 DEF ReadVirtualService
<1>6. CASE UpdateVirtualService(h)
  <2>1. CASE Fail(h) \/ Continue(h, "next")
    <3>1. /\ req' \in [Handler -> Request] /\ suspect' \subseteq Domain /\ met' \subseteq Domain
          /\ requests' \in 0..MaxRequests /\ changes' \in 0..MaxChanges /\ unpushed' \subseteq Domain
      BY <2>1, EndType, ContinueType
    <3>2. vs' \in [Domain -> VirtualService]
      BY <1>0, <1>00, <1>6 DEF UpdateVirtualService, OwnTypeOK, VirtualService
    <3> QED BY <1>6, <3>1, <3>2 DEF UpdateVirtualService, OwnTypeOK, PathsTypeOK, tables
  <2>2. CASE /\ req[h].tries + 1 < VsRetryCount
             /\ req' = [req EXCEPT ![h].pc = "read", ![h].tries = @ + 1]
             /\ UNCHANGED <<vs, ghosts>>
    <3>1. req[h].tries + 1 \in 0..(VsRetryCount - 1)
      BY <1>0, <2>2
    <3>2. req' \in [Handler -> Request]
      BY <2>2, <3>1 DEF OwnTypeOK, Request
    <3> QED BY <1>6, <2>2, <3>2 DEF UpdateVirtualService, OwnTypeOK, PathsTypeOK, tables, ghosts
  <2> QED BY <1>6, <2>1, <2>2 DEF UpdateVirtualService
<1> QED BY <1>1, <1>2, <1>3, <1>4, <1>5, <1>6 DEF MaintenanceRequest

\* The handlers that only touch the tables preserve the types.
LEMMA ChangeTablesType ==
  ASSUME OwnTypeOK, ChangeTables
  PROVE  OwnTypeOK'
<1>1. PathsTypeOK'
  <2>1. ASSUME NEW d \in Domain, NEW kind \in Kind, CreateRouter(d, kind) PROVE PathsTypeOK'
    BY <2>1, KindAssumption DEF CreateRouter, OwnTypeOK, PathsTypeOK
  <2>2. ASSUME NEW d \in Domain, NEW p \in Path, NEW a \in App, CheckPath(d, p, a) PROVE PathsTypeOK'
    <3>1. [domain |-> d, path |-> p, app |-> a, maintenance |-> FALSE] \in Row
      BY DEF Row
    <3> QED BY <2>2, <3>1 DEF CheckPath, OwnTypeOK, PathsTypeOK
  <2>3. ASSUME NEW r \in adding, InsertPath(r) PROVE PathsTypeOK'
    BY <2>3 DEF InsertPath, OwnTypeOK, PathsTypeOK
  <2>4. ASSUME NEW d \in Domain, NEW p \in Path, DeletePath(d, p) PROVE PathsTypeOK'
    BY <2>4 DEF DeletePath, OwnTypeOK, PathsTypeOK
  <2>5. ASSUME NEW d \in Domain, NEW p \in Path, NEW a \in App, UpdatePath(d, p, a) PROVE PathsTypeOK'
    <3>1. \A r \in Row : [r EXCEPT !.app = a] \in Row
      BY DEF Row
    <3> QED BY <2>5, <3>1 DEF UpdatePath, RowsOf, OwnTypeOK, PathsTypeOK
  <2> QED BY <2>1, <2>2, <2>3, <2>4, <2>5 DEF ChangeTables, PathsNext
<1>2. changes \in Nat /\ changes < MaxChanges /\ (changes' = changes + 1 \/ changes' = changes)
  BY BoundsAssumption DEF ChangeTables, OwnTypeOK
<1>3. changes' \in 0..MaxChanges
  BY <1>2, BoundsAssumption
<1>4. unpushed' \subseteq Domain
  BY DEF ChangeTables, OwnTypeOK
<1> QED BY <1>1, <1>3, <1>4 DEF ChangeTables, OwnTypeOK, k8s

\* Every step is one of a request, or one that comes from outside.
RequestStep(h) == SiteRequest(h) \/ MaintenanceRequest(h) \/ RequestFailure(h)
OutsideStep == \/ \E c \in Installable \ secrets : InstallCertificate(c)
               \/ ChangeTables
               \/ UNCHANGED vars

\* A step is one of a request or comes from outside.
LEMMA NextCases ==
  ASSUME [Next]_vars PROVE (\E h \in Handler : RequestStep(h)) \/ OutsideStep
BY DEF Next, AllAnswered, RequestStep, OutsideStep

\* Every step preserves the types.
LEMMA OwnTypeStep ==
  ASSUME OwnTypeOK, [Next]_vars PROVE OwnTypeOK'
<1>1. ASSUME NEW h \in Handler, RequestStep(h) PROVE OwnTypeOK'
  <2>1. CASE RequestFailure(h)
    <3>1. /\ req' \in [Handler -> Request] /\ suspect' \subseteq Domain /\ met' \subseteq Domain
          /\ requests' \in 0..MaxRequests /\ changes' \in 0..MaxChanges /\ unpushed' \subseteq Domain
      BY <2>1, EndType DEF RequestFailure
    <3> QED BY <2>1, <3>1 DEF RequestFailure, OwnTypeOK, PathsTypeOK, tables, k8s
  <2> QED BY <1>1, <2>1, SiteRequestType, MaintenanceRequestType DEF RequestStep
<1>2. ASSUME NEW c \in Installable, InstallCertificate(c) PROVE OwnTypeOK'
  BY <1>2 DEF InstallCertificate, OwnTypeOK, PathsTypeOK, tables, ghosts
<1>3. CASE UNCHANGED vars
  BY <1>3 DEF vars, OwnTypeOK, PathsTypeOK, tables, k8s, ghosts
<1> QED BY <1>1, <1>2, <1>3, ChangeTablesType, NextCases DEF OutsideStep

\* Whatever the requests do to the gateway is a step of its protocol.
LEMMA GatewayPart ==
  ASSUME OwnTypeOK, [Next]_vars PROVE [GatewayNext]_gwvars
<1>1. ASSUME NEW h \in Handler, LookupCertificate(h) PROVE GatewayNext
  <2>1. req[h].domain \in Domain
    BY DEF OwnTypeOK, Request
  <2>2. CertOf(req[h].domain) \in Cert
    BY <2>1, CertOfType
  <2> QED BY <1>1, <2>1, <2>2 DEF LookupCertificate, GatewayNext
<1>2. ASSUME NEW h \in Handler, GatewayStep(h) \/ GatewayDone(h) PROVE GatewayNext
  BY <1>2 DEF GatewayStep, GatewayDone, GatewayNext
<1>3. ASSUME NEW h \in Handler, SiteRequest(h), ~LookupCertificate(h), ~GatewayStep(h), ~GatewayDone(h)
      PROVE  UNCHANGED gwvars
  BY <1>3 DEF SiteRequest, StartSiteRequest, ReadRouter, DeleteVirtualService, VirtualServiceExists,
              WriteVirtualService, DeleteRowsStep, DeleteRouterStep
<1>4. ASSUME NEW h \in Handler, MaintenanceRequest(h) PROVE UNCHANGED gwvars
  BY <1>4 DEF MaintenanceRequest, StartMaintenance, SetAppPage, ListPaths, NextPath,
              ReadVirtualService, UpdateVirtualService
<1>5. ASSUME NEW h \in Handler, RequestFailure(h) PROVE UNCHANGED gwvars
  BY <1>5 DEF RequestFailure
<1>6. ASSUME OutsideStep PROVE UNCHANGED gwvars
  BY <1>6 DEF OutsideStep, InstallCertificate, ChangeTables, vars
<1> QED BY <1>1, <1>2, <1>3, <1>4, <1>5, <1>6, NextCases DEF RequestStep

\* The initial state is well typed, and one of the gateway protocol.
LEMMA InitTypes == Init => OwnTypeOK /\ GatewayInit
BY NoRequestType, InitialRowsAssumption, BoundsAssumption
   DEF Init, OwnTypeOK, PathsTypeOK, VirtualService, Row

\* The sites work on the shared gateway by its protocol alone, so what is proved
\* about the protocol holds of it here.
THEOREM SitesFollowProtocol == Spec => GatewaySpec
<1>1. OwnTypeOK /\ [Next]_vars => OwnTypeOK'
  BY OwnTypeStep
<1>2. OwnTypeOK /\ [Next]_vars => [GatewayNext]_gwvars
  BY GatewayPart
<1> QED BY <1>1, <1>2, InitTypes, PTL DEF Spec, GatewaySpec

\* Every state is well typed.
THEOREM TypeCorrect == Spec => []TypeOK
<1>1. OwnTypeOK /\ [Next]_vars => OwnTypeOK'
  BY OwnTypeStep
<1>2. OwnTypeOK /\ GatewayTypeOK => TypeOK
  BY DEF OwnTypeOK, TypeOK
<1> QED BY <1>1, <1>2, InitTypes, SitesFollowProtocol, GatewayTypeCorrect, PTL DEF Spec
-----------------------------------------------------------------------------
(* Sites and requests: what the steps of the handlers rely on. *)

\* The certificates that take precedence over c for the domain d.
Over(d, c) == IF c = OwnCert[d] THEN {} ELSE IF c = WildCert[d] THEN {OwnCert[d]}
              ELSE {OwnCert[d], WildCert[d]}
Installed == secrets \union {StarCert}

\* The requests that work on the site.
At(h, d) == req[h].pc # "idle" /\ d \in Touches(req[h])
SiteRequestAt(h, d) == req[h].pc # "idle" /\ SiteOp(h) /\ req[h].domain = d

\* Requests that meet at a site are noted and make it suspect, and none of them is alone.
Apart(d) ==
  \A h \in Handler : At(h, d) =>
    /\ \A o \in Handler : o # h /\ At(o, d) => d \in met /\ d \in suspect /\ ~req[h].alone
    /\ SiteOp(h) /\ ~req[h].alone => d \in met /\ d \in suspect

\* The steps belong to the operations, and the call to the gateway to its request.
SitePc == {"router", "unpublish", "certificate", "gateway", "exists", "write", "rows", "row"}
PcOK(h) ==
  /\ req[h].pc \in SitePc => SiteOp(h)
  /\ req[h].pc \notin SitePc \union {"idle"} => ~SiteOp(h)
  /\ req[h].pc = "unpublish" => ~Publishing(h)
  /\ req[h].pc \in {"exists", "write"} => Publishing(h)
  /\ req[h].pc \in {"rows", "row"} => req[h].op = "delete"
  /\ req[h].pc = "gateway" <=> call[h].pc # "idle"
  /\ call[h].pc # "idle" => /\ call[h].domain = req[h].domain
                            /\ call[h].cert \in {OwnCert[req[h].domain], WildCert[req[h].domain],
                                                StarCert}
                            /\ call[h].op = IF Publishing(h) THEN "install" ELSE "remove"

\* Only installed certificates get into the gateway.
CertsOK ==
  /\ \A c \in Cert : gateway.tls[c] # {} => c \in Installed
  /\ \A h \in Handler : call[h].pc # "idle" => call[h].cert \in Installed

\* A site whose requests did not meet: its virtual service is behind the gateway.
ServedOK(d) == d \notin met /\ vs[d].exists => d \in gateway.http

\* A site that is not suspect: its virtual service is behind the gateway and of a
\* site that exists; without one the gateway does not know the site, unless a request
\* is in between.
Offline(d) == d \notin gateway.http /\ d \notin gateway.tls[CertOf(d)]
Between(d) ==
  \E h \in Handler : SiteRequestAt(h, d) /\ req[h].pc \in {"certificate", "gateway", "exists", "write"}
SiteOK(d) == d \notin suspect =>
  IF vs[d].exists THEN d \in gateway.http /\ routers[d] # "absent" ELSE Between(d) \/ Offline(d)

\* What a request knows of its site.
RequestOK(h) ==
  LET d == req[h].domain IN
  SiteOp(h) /\ req[h].pc \notin {"idle", "router"} /\ req[h].alone =>
    /\ routers[d] # "absent"
    /\ Publishing(h) /\ (req[h].pc \in {"exists", "write"} \/ call[h].pc = "ok") => d \in gateway.http
    /\ ~Publishing(h) /\ req[h].pc \in {"certificate", "gateway", "rows", "row"} => ~vs[d].exists
    /\ ~Publishing(h) /\ req[h].pc = "gateway" => \A c \in Over(d, call[h].cert) : d \notin gateway.tls[c]
    /\ ~Publishing(h) /\ call[h].pc = "ok" => d \notin gateway.http \union gateway.tls[call[h].cert]

-----------------------------------------------------------------------------
(* Tables and virtual services. *)

\* The primary key of routerpaths.
UniqueKeys == \A r, s \in rows : SameKey(r, s) => r = s

\* A push that may count on its site has its rows, unless they changed.
PushOK(h) ==
  req[h].pc # "idle" /\ req[h].op = "push" /\ req[h].alone /\ req[h].domain \notin unpushed =>
    req[h].rows = RowsOf(req[h].domain)

\* What is to be put back is the edit of what is there, unless it changed.
EditOK(h) ==
  LET r == req[h] IN
  r.pc = "put" =>
    /\ r.version <= vs[r.domain].version
    /\ vs[r.domain].version = r.version =>
         r.routes = WithPage(vs[r.domain].routes, r.path, r.app, Value(h))

\* The paths a maintenance request has not come to yet.
Waiting(h, d, p) ==
  LET r == req[h] IN
  /\ r.pc # "idle" /\ ~SiteOp(h)
  /\ \/ r.pc \in {"app", "list"} /\ \E s \in RowsOfApp(r.app) : s.domain = d /\ s.path = p
     \/ r.pc \in {"next", "read", "put"} /\ [domain |-> d, path |-> p] \in r.todo
     \/ r.pc \in {"read", "put"} /\ r.domain = d /\ r.path = p

\* It has flagged its rows, and only their paths are waiting.
FlagsOK(h, d) ==
  req[h].pc # "idle" /\ ~SiteOp(h) /\ d \notin suspect \union unpushed =>
    /\ \A r \in RowsOf(d) : r.app = req[h].app => r.maintenance = Value(h)
    /\ \A p \in Path : Waiting(h, d, p) => \E r \in RowsOf(d) : r.path = p /\ r.app = req[h].app

\* The routes of a site that nobody pushes are those of its rows but for the paths
\* that are waiting.
RouteTo(r) == [path |-> r.path, host |-> IF r.maintenance THEN Down ELSE r.app]
AsTable(d) ==
  /\ \A r \in RowsOf(d) : \E x \in vs[d].routes : x.path = r.path
  /\ \A x \in vs[d].routes : \E r \in RowsOf(d) :
       /\ r.path = x.path
       /\ x = RouteTo(r) \/ \E h \in Handler : Waiting(h, d, r.path) /\ req[h].app = r.app
NoPush(d) == \A h \in Handler : SiteRequestAt(h, d) => req[h].op = "delete"
TableOK(d) ==
  d \notin suspect \union unpushed /\ vs[d].exists /\ OneAppPerPath(d) /\ NoPush(d) => AsTable(d)
-----------------------------------------------------------------------------
(* What a step leaves alone. *)

\* A request arrives, or an active one moves on: everybody else's stays as it is, its
\* own keeps what it is about, or it ends, well or with an error.
Arrives(h) == \/ \E op \in {"push", "delete"}, d \in Domain : StartSiteRequest(h, op, d)
              \/ \E op \in {"enable", "disable"}, a \in App : StartMaintenance(h, op, a)

GoesOn(h) ==
  /\ req'[h].pc # "idle" /\ req'[h].op = req[h].op /\ req'[h].app = req[h].app
  /\ req'[h].rows = req[h].rows /\ req'[h].alone = req[h].alone
  /\ SiteOp(h) => req'[h].domain = req[h].domain
  /\ suspect' = suspect /\ met' = met

Clears(h) ==
  /\ Publishing(h) /\ req[h].alone
  /\ suspect' = suspect \ {req[h].domain} /\ met' = met \ {req[h].domain}

Ends(h) ==
  /\ req'[h] = NoRequest
  /\ \/ Clears(h)
     \/ met' = met /\ (suspect' = suspect \/ suspect' = suspect \union Touches(req[h]))

Moves(h) ==
  /\ req[h].pc # "idle"
  /\ \A o \in Handler : o # h => req'[o] = req[o] /\ call'[o] = call[o]
  /\ GoesOn(h) \/ Ends(h)

\* A request that fails ends, and makes its sites suspect.
LEMMA FailEnds ==
  ASSUME OwnTypeOK, NEW h \in Handler, Fail(h)
  PROVE  Ends(h) /\ \A o \in Handler : o # h => req'[o] = req[o]
BY DEF OwnTypeOK, Fail, Ends

\* A request that succeeds ends; at most a push clears its site.
LEMMA SucceedEnds ==
  ASSUME OwnTypeOK, NEW h \in Handler, Succeed(h)
  PROVE  /\ Ends(h) /\ \A o \in Handler : o # h => req'[o] = req[o]
         /\ ~Publishing(h) => suspect' = suspect /\ met' = met
BY DEF OwnTypeOK, Succeed, Ends, Clears

\* A request that continues goes on with what it has.
LEMMA ContinueGoesOn ==
  ASSUME OwnTypeOK, NEW h \in Handler, NEW pc, pc # "idle", Continue(h, pc)
  PROVE  /\ GoesOn(h) /\ \A o \in Handler : o # h => req'[o] = req[o]
         /\ req'[h] = [req[h] EXCEPT !.pc = pc] /\ req'[h].pc = pc
<1>1. req[h] \in Request
  BY DEF OwnTypeOK
<1>2. req'[h] = [req[h] EXCEPT !.pc = pc] /\ \A o \in Handler : o # h => req'[o] = req[o]
  BY DEF OwnTypeOK, Continue, Moved
<1> QED BY <1>1, <1>2 DEF Continue, GoesOn, Request, ghosts

\* A push or a deletion, once it arrived, moves on alone.
LEMMA SiteRequestMoves ==
  ASSUME OwnTypeOK, GatewayTypeOK, CopyIsFresh, NEW h \in Handler, PcOK(h), SiteRequest(h), ~Arrives(h)
  PROVE  Moves(h)
<1> USE FailEnds, SucceedEnds, ContinueGoesOn
<1>0. req[h] \in Request /\ req \in [Handler -> Request] /\ call \in [Handler -> Call]
  BY DEF OwnTypeOK, GatewayTypeOK
<1>1. CASE ReadRouter(h)
  BY <1>1 DEF ReadRouter, Moves, gwvars
<1>2. CASE DeleteVirtualService(h)
  BY <1>2 DEF DeleteVirtualService, Moves, gwvars
<1>3. CASE LookupCertificate(h)
  BY <1>0, <1>3 DEF LookupCertificate, Begin, Moves
<1>4. CASE GatewayStep(h)
  <2>1. call[h].pc # "idle" /\ \A o \in Handler : o # h => call'[o] = call[o]
    BY <1>4, StepIsEdit DEF GatewayStep
  <2>2. req[h].pc # "idle"
    BY <2>1 DEF PcOK
  <2> QED BY <1>4, <2>1, <2>2 DEF GatewayStep, Moves, GoesOn, ghosts
<1>5. CASE GatewayDone(h)
  <2>1. call[h].pc # "idle" /\ \A o \in Handler : o # h => call'[o] = call[o]
    BY <1>0, <1>5 DEF GatewayDone, Return
  <2>2. req[h].pc # "idle"
    BY <2>1 DEF PcOK
  <2> QED BY <1>5, <2>1, <2>2 DEF GatewayDone, Moves
<1>6. CASE VirtualServiceExists(h)
  <2>1. /\ \A o \in Handler : o # h => req'[o] = req[o]
        /\ req'[h] = [req[h] EXCEPT !.pc = "write", !.version =
                        IF vs[req[h].domain].exists THEN vs[req[h].domain].version ELSE 0]
    BY <1>0, <1>6 DEF VirtualServiceExists
  <2>2. GoesOn(h)
    BY <1>0, <1>6, <2>1 DEF VirtualServiceExists, GoesOn, Request, ghosts
  <2> QED BY <1>6, <2>1, <2>2 DEF VirtualServiceExists, Moves, gwvars
<1>7. CASE WriteVirtualService(h)
  BY <1>7 DEF WriteVirtualService, Moves, gwvars
<1>8. CASE DeleteRowsStep(h)
  <2>1. /\ \A o \in Handler : o # h => req'[o] = req[o]
        /\ req'[h] = [req[h] EXCEPT !.pc = "row"]
    BY <1>0, <1>8 DEF DeleteRowsStep, Moved
  <2>2. GoesOn(h)
    BY <1>0, <1>8, <2>1 DEF DeleteRowsStep, GoesOn, Request
  <2> QED BY <1>8, <2>1, <2>2 DEF DeleteRowsStep, Moves, gwvars
<1>9. CASE DeleteRouterStep(h)
  BY <1>9 DEF DeleteRouterStep, Moves, gwvars
<1> QED BY <1>1, <1>2, <1>3, <1>4, <1>5, <1>6, <1>7, <1>8, <1>9 DEF SiteRequest, Arrives

\* A maintenance request, once it arrived, moves on alone.
LEMMA MaintenanceRequestMoves ==
  ASSUME OwnTypeOK, NEW h \in Handler, PcOK(h), MaintenanceRequest(h), ~Arrives(h)
  PROVE  Moves(h)
<1> USE FailEnds, SucceedEnds, ContinueGoesOn
<1>0. req[h] \in Request /\ req \in [Handler -> Request]
  BY DEF OwnTypeOK
<1>1. CASE SetAppPage(h)
  BY <1>1 DEF SetAppPage, Moves, gwvars
<1>2. CASE ListPaths(h)
  <2>1. /\ \A o \in Handler : o # h => req'[o] = req[o]
        /\ req'[h] = [req[h] EXCEPT !.pc = "next", !.todo =
                        {[domain |-> r.domain, path |-> r.path] : r \in RowsOfApp(req[h].app)}]
    BY <1>0, <1>2 DEF ListPaths
  <2>2. GoesOn(h)
    BY <1>0, <1>2, <2>1 DEF ListPaths, GoesOn, Request, ghosts
  <2> QED BY <1>2, <2>1, <2>2 DEF ListPaths, Moves, gwvars
<1>3. CASE NextPath(h)
  <2>1. CASE Succeed(h)
    BY <1>3, <2>1 DEF NextPath, Moves, gwvars
  <2>2. ASSUME NEW t \in req[h].todo, UNCHANGED ghosts,
               req' = [req EXCEPT ![h].pc = "read", ![h].todo = @ \ {t}, ![h].tries = 0,
                                  ![h].domain = t.domain, ![h].path = t.path]
        PROVE  Moves(h)
    <3>1. /\ \A o \in Handler : o # h => req'[o] = req[o]
          /\ req'[h] = [req[h] EXCEPT !.pc = "read", !.todo = @ \ {t}, !.tries = 0,
                                      !.domain = t.domain, !.path = t.path]
      BY <1>0, <2>2
    <3>2. ~SiteOp(h)
      BY <1>3 DEF NextPath, PcOK, SitePc
    <3>3. GoesOn(h)
      BY <1>0, <2>2, <3>1, <3>2 DEF GoesOn, Request, ghosts
    <3> QED BY <1>3, <3>1, <3>3 DEF NextPath, Moves, gwvars
  <2> QED BY <1>3, <2>1, <2>2 DEF NextPath
<1>4. CASE ReadVirtualService(h)
  <2>1. CASE req' = Moved(h, "next")
    <3>1. Continue(h, "next")
      BY <1>4, <2>1 DEF ReadVirtualService, Continue
    <3> QED BY <1>4, <3>1 DEF ReadVirtualService, Moves, gwvars
  <2>2. ASSUME NEW version, NEW routes,
               req' = [req EXCEPT ![h].pc = "put", ![h].version = version, ![h].routes = routes]
        PROVE  Moves(h)
    <3>1. /\ \A o \in Handler : o # h => req'[o] = req[o]
          /\ req'[h] = [req[h] EXCEPT !.pc = "put", !.version = version, !.routes = routes]
      BY <1>0, <2>2
    <3>2. GoesOn(h)
      BY <1>0, <1>4, <3>1 DEF ReadVirtualService, GoesOn, Request, ghosts
    <3> QED BY <1>4, <3>1, <3>2 DEF ReadVirtualService, Moves, gwvars
  <2> QED BY <1>4, <2>1, <2>2 DEF ReadVirtualService
<1>5. CASE UpdateVirtualService(h)
  <2>1. CASE Fail(h) \/ Continue(h, "next")
    BY <1>5, <2>1 DEF UpdateVirtualService, Moves, gwvars
  <2>2. CASE req' = [req EXCEPT ![h].pc = "read", ![h].tries = @ + 1] /\ UNCHANGED <<vs, ghosts>>
    <3>1. /\ \A o \in Handler : o # h => req'[o] = req[o]
          /\ req'[h] = [req[h] EXCEPT !.pc = "read", !.tries = @ + 1]
      BY <1>0, <2>2
    <3>2. GoesOn(h)
      BY <1>0, <2>2, <3>1 DEF GoesOn, Request, ghosts
    <3> QED BY <1>5, <3>1, <3>2 DEF UpdateVirtualService, Moves, gwvars
  <2> QED BY <1>5, <2>1, <2>2 DEF UpdateVirtualService
<1> QED BY <1>1, <1>2, <1>3, <1>4, <1>5 DEF MaintenanceRequest, Arrives

\* Any request, once it arrived, moves on alone.
LEMMA RequestMoves ==
  ASSUME OwnTypeOK, GatewayTypeOK, CopyIsFresh, NEW h \in Handler, PcOK(h), RequestStep(h), ~Arrives(h)
  PROVE  Moves(h)
<1>1. CASE RequestFailure(h)
  BY <1>1, FailEnds DEF RequestFailure, Moves, gwvars
<1> QED BY <1>1, SiteRequestMoves, MaintenanceRequestMoves DEF RequestStep
-----------------------------------------------------------------------------
(* Requests that meet. *)

\* A request that is the other one, but for a company it has found since.
Like(r, s) ==
  /\ r.pc = s.pc /\ r.op = s.op /\ r.domain = s.domain /\ r.app = s.app /\ r.rows = s.rows
  /\ r.path = s.path /\ r.todo = s.todo /\ r.version = s.version /\ r.routes = s.routes
  /\ r.alone => s.alone

\* Requests alike but for being alone work on the same sites.
LEMMA LikeTouches == ASSUME NEW r, NEW s, Like(r, s) PROVE Touches(r) = Touches(s)
BY DEF Like, Touches

\* What the arrival of a request changes: others that share a site with it
\* are no longer alone, and that site is suspect.
LEMMA ArriveStep ==
  ASSUME OwnTypeOK, NEW h \in Handler, NEW r \in Request, r.alone, Arrive(h, r)
  PROVE  /\ req[h].pc = "idle" /\ Like(req'[h], r) /\ suspect \subseteq suspect' /\ met \subseteq met'
         /\ \A o \in Handler : o # h => Like(req'[o], req[o])
         /\ \A o \in Handler, d \in Domain : At(o, d) /\ d \in Touches(r)
              => d \in met' /\ d \in suspect' /\ ~req'[o].alone /\ ~req'[h].alone
         /\ \A o \in Handler : o # h => req'[o].alone = req[o].alone
              \/ \E d \in Touches(req[o]) : d \in met' /\ d \in suspect'
         /\ ~req'[h].alone => \E d \in Touches(r) : d \in met' /\ d \in suspect'
<1> DEFINE others == {o \in Active : Touches(req[o]) \intersect Touches(r) # {}}
<1>0. \A o \in Handler : req[o] \in Request
  BY DEF OwnTypeOK
<1>1. req[h].pc = "idle" /\ others \subseteq Handler /\ h \notin others
  BY DEF Arrive, Active
<1>2. req'[h] = [r EXCEPT !.alone = others = {}]
  BY DEF Arrive
<1>3. \A o \in Handler : o # h =>
        req'[o] = IF o \in others THEN [req[o] EXCEPT !.alone = FALSE] ELSE req[o]
  BY DEF Arrive
<1>4. /\ suspect' = suspect \union UNION {Touches(req[o]) \intersect Touches(r) : o \in others}
      /\ met' = met \union UNION {Touches(req[o]) \intersect Touches(r) : o \in others}
  BY DEF Arrive
<1> HIDE DEF others
<1>5. Like(req'[h], r) /\ req'[h].alone = (others = {})
  BY <1>2 DEF Like, Request
<1>6. ASSUME NEW o \in Handler, o # h
      PROVE  /\ Like(req'[o], req[o])
             /\ o \notin others => req'[o].alone = req[o].alone
             /\ o \in others => ~req'[o].alone
  <2>1. CASE o \in others
    BY <1>0, <1>3, <1>6, <2>1 DEF Like, Request
  <2>2. CASE o \notin others
    BY <1>0, <1>3, <1>6, <2>2 DEF Like, Request
  <2> QED BY <2>1, <2>2
<1>a. \A o \in others : \A d \in Touches(req[o]) \intersect Touches(r) : d \in met' /\ d \in suspect'
  BY <1>4
<1>7. ASSUME NEW o \in Handler, NEW d \in Domain, At(o, d), d \in Touches(r)
      PROVE  d \in met' /\ d \in suspect' /\ ~req'[o].alone /\ ~req'[h].alone
  <2>1. o \in others /\ o # h /\ d \in Touches(req[o]) \intersect Touches(r)
    BY <1>1, <1>7 DEF At, Active, others
  <2>2. others # {} /\ ~req'[o].alone
    BY <1>6, <2>1
  <2> QED BY <1>a, <1>5, <2>1, <2>2
<1>8. ASSUME NEW o \in others
      PROVE  \E d \in Touches(req[o]) \intersect Touches(r) : d \in met' /\ d \in suspect'
  <2>1. Touches(req[o]) \intersect Touches(r) # {}
    BY <1>8 DEF others
  <2> QED BY <1>a, <2>1
<1>9. ~req'[h].alone => \E d \in Touches(r) : d \in met' /\ d \in suspect'
  BY <1>5, <1>8
<1> QED BY <1>1, <1>4, <1>5, <1>6, <1>7, <1>8, <1>9

\* What arrives is about what it was asked for, and touches nothing but the flags of
\* the rows.
LEMMA StartSiteRequestStep ==
  ASSUME OwnTypeOK, NEW h \in Handler, NEW op \in {"push", "delete"}, NEW d \in Domain,
         StartSiteRequest(h, op, d)
  PROVE  \E r \in Request :
           /\ Arrive(h, r) /\ r.alone /\ Touches(r) = {d}
           /\ r.pc = "router" /\ r.op = op /\ r.domain = d /\ r.rows = RowsOf(d)
<1> DEFINE r == [NoRequest EXCEPT !.pc = "router", !.op = op, !.domain = d, !.rows = RowsOf(d)]
<1>1. RowsOf(d) \subseteq Row
  BY DEF OwnTypeOK, PathsTypeOK, RowsOf
<1>2. r \in Request /\ r.alone /\ r.pc = "router" /\ r.op = op /\ r.domain = d /\ r.rows = RowsOf(d)
  BY <1>1, NoRequestType DEF Request, NoRequest
<1>3. Touches(r) = {d}
  BY <1>2 DEF Touches
<1>4. Arrive(h, r)
  BY DEF StartSiteRequest
<1> QED BY <1>2, <1>3, <1>4

\* The arrival of a maintenance request.
LEMMA StartMaintenanceStep ==
  ASSUME OwnTypeOK, NEW h \in Handler, NEW op \in {"enable", "disable"}, NEW a \in App,
         StartMaintenance(h, op, a)
  PROVE  \E r \in Request :
           /\ Arrive(h, r) /\ r.alone /\ Touches(r) = Domain
           /\ r.pc = "app" /\ r.op = op /\ r.app = a /\ r.todo = {}
<1> DEFINE r == [NoRequest EXCEPT !.pc = "app", !.op = op, !.app = a]
<1>1. r \in Request /\ r.alone /\ r.pc = "app" /\ r.op = op /\ r.app = a /\ r.todo = {}
  BY NoRequestType DEF Request, NoRequest
<1>2. Touches(r) = Domain
  BY <1>1 DEF Touches
<1>3. Arrive(h, r)
  BY DEF StartMaintenance
<1> QED BY <1>1, <1>2, <1>3

\* Whoever arrives, the others are still about what they were.
LEMMA OthersStay ==
  ASSUME OwnTypeOK, NEW h \in Handler, Arrives(h)
  PROVE  /\ req[h].pc = "idle" /\ suspect \subseteq suspect' /\ met \subseteq met'
         /\ \A o \in Handler : o # h => Like(req'[o], req[o])
         /\ UNCHANGED <<routers, gwvars, k8s>>
<1>1. ASSUME NEW op \in {"push", "delete"}, NEW d \in Domain, StartSiteRequest(h, op, d)
      PROVE  /\ req[h].pc = "idle" /\ suspect \subseteq suspect' /\ met \subseteq met'
             /\ \A o \in Handler : o # h => Like(req'[o], req[o])
             /\ UNCHANGED <<routers, gwvars, k8s>>
  <2>1. PICK r \in Request : r.alone /\ Arrive(h, r)
    BY <1>1, StartSiteRequestStep
  <2> QED BY <1>1, <2>1, ArriveStep DEF StartSiteRequest, tables
<1>2. ASSUME NEW op \in {"enable", "disable"}, NEW a \in App, StartMaintenance(h, op, a)
      PROVE  /\ req[h].pc = "idle" /\ suspect \subseteq suspect' /\ met \subseteq met'
             /\ \A o \in Handler : o # h => Like(req'[o], req[o])
             /\ UNCHANGED <<routers, gwvars, k8s>>
  <2>1. PICK r \in Request : r.alone /\ Arrive(h, r)
    BY <1>2, StartMaintenanceStep
  <2> QED BY <1>2, <2>1, ArriveStep DEF StartMaintenance
<1> QED BY <1>1, <1>2 DEF Arrives

\* Arrivals keep Apart.
LEMMA ArriveApart ==
  ASSUME OwnTypeOK, NEW h \in Handler, NEW r \in Request, r.alone, Arrive(h, r),
         Touches(r) = {r.domain} \/ r.op \notin {"push", "delete"},
         NEW d \in Domain, Apart(d)
  PROVE  Apart(d)'
<1> USE ArriveStep
<1>0. \A o \in Handler : req[o] \in Request
  BY DEF OwnTypeOK
<1>1. ASSUME NEW o \in Handler, At(o, d)'
      PROVE  IF o = h THEN d \in Touches(r) ELSE At(o, d)
  <2>1. CASE o = h
    <3>1. Touches(req'[h]) = Touches(r)
      BY LikeTouches
    <3> QED BY <1>1, <2>1, <3>1 DEF At
  <2>2. CASE o # h
    <3>1. Touches(req'[o]) = Touches(req[o]) /\ req'[o].pc = req[o].pc
      BY <2>2, LikeTouches DEF Like
    <3> QED BY <1>1, <2>2, <3>1 DEF At
  <2> QED BY <2>1, <2>2
<1>2. ASSUME NEW o \in Handler, NEW p \in Handler, At(o, d)', At(p, d)', o # p
      PROVE  d \in met' /\ d \in suspect' /\ ~req'[o].alone
  <2>1. CASE o # h /\ p # h
    BY <1>1, <1>2, <2>1 DEF Apart, Like
  <2>2. CASE o = h \/ p = h
    BY <1>1, <1>2, <2>2
  <2> QED BY <2>1, <2>2
<1>3. ASSUME NEW o \in Handler, At(o, d)', SiteOp(o)', ~req'[o].alone
      PROVE  d \in met' /\ d \in suspect'
  <2>1. CASE o = h
    <3>1. r.op \in {"push", "delete"} /\ d \in Touches(r)
      BY <1>1, <1>3, <2>1 DEF SiteOp, Like
    <3> QED BY <1>3, <2>1, <3>1
  <2>2. CASE o # h
    <3>1. At(o, d) /\ SiteOp(o)
      BY <1>1, <1>3, <2>2 DEF SiteOp, Like
    <3>2. Touches(req[o]) = {d}
      BY <3>1 DEF At, Touches, SiteOp
    <3> QED BY <1>3, <2>2, <3>1, <3>2 DEF Apart
  <2> QED BY <2>1, <2>2
<1> QED BY <1>2, <1>3 DEF Apart

\* The other steps of a request keep Apart.
LEMMA MoveApart ==
  ASSUME OwnTypeOK, NEW h \in Handler, Moves(h), NEW d \in Domain, Apart(d)
  PROVE  Apart(d)'
<1>1. ASSUME NEW o \in Handler, At(o, d)'
      PROVE  /\ At(o, d) /\ req'[o].alone = req[o].alone /\ SiteOp(o)' = SiteOp(o)
             /\ o = h => GoesOn(h)
  <2>1. CASE o = h
    <3>1. GoesOn(h)
      BY <1>1, <2>1 DEF Moves, Ends, At, NoRequest
    <3> QED BY <1>1, <2>1, <3>1 DEF Moves, GoesOn, At, Touches, SiteOp
  <2>2. CASE o # h
    BY <1>1, <2>2 DEF Moves, At, SiteOp
  <2> QED BY <2>1, <2>2
<1>2. CASE suspect \subseteq suspect' /\ met \subseteq met'
  BY <1>1, <1>2 DEF Apart
<1>3. CASE Ends(h) /\ Clears(h)
  <2>1. ASSUME NEW o \in Handler, At(o, d)' PROVE At(h, d) => req[h].domain # d
    <3>1. o # h
      BY <1>3, <2>1 DEF Ends, At, NoRequest
    <3> QED BY <1>1, <1>3, <2>1, <3>1 DEF Apart, Clears
  <2>2. ASSUME NEW o \in Handler, At(o, d)' PROVE req[h].domain # d
    BY <1>3, <2>1, <2>2 DEF At, Touches, Clears, Publishing, Moves
  <2> QED BY <1>1, <1>3, <2>2 DEF Apart, Clears
<1> QED BY <1>2, <1>3 DEF Moves, GoesOn, Ends, Clears

\* What comes from outside leaves requests and virtual services alone.
LEMMA OutsideKeepsRequests ==
  ASSUME OutsideStep PROVE UNCHANGED <<gwvars, vs, req, requests, met, suspect>>
BY DEF OutsideStep, InstallCertificate, ChangeTables, vars, k8s, ghosts

\* The parts of the invariant the lemmas about single steps start from.
Common == /\ OwnTypeOK /\ GatewayTypeOK /\ CopyIsFresh /\ CertsOK
          /\ \A h \in Handler : PcOK(h)
          /\ \A d \in Domain : Apart(d)

\* Every step keeps Apart.
LEMMA ApartStep ==
  ASSUME Common, [Next]_vars, NEW d \in Domain
  PROVE  Apart(d)'
<1> USE DEF Common
<1>1. ASSUME NEW h \in Handler, Arrives(h) PROVE Apart(d)'
  <2>1. ASSUME NEW op \in {"push", "delete"}, NEW e \in Domain, StartSiteRequest(h, op, e)
        PROVE  Apart(d)'
    <3>1. PICK r \in Request : r.alone /\ Arrive(h, r) /\ Touches(r) = {r.domain}
      BY <2>1, StartSiteRequestStep
    <3> QED BY <3>1, ArriveApart
  <2>2. ASSUME NEW op \in {"enable", "disable"}, NEW a \in App, StartMaintenance(h, op, a)
        PROVE  Apart(d)'
    <3>1. PICK r \in Request : r.alone /\ Arrive(h, r) /\ r.op \notin {"push", "delete"}
      BY <2>2, StartMaintenanceStep
    <3> QED BY <3>1, ArriveApart
  <2> QED BY <1>1, <2>1, <2>2 DEF Arrives
<1>2. ASSUME NEW h \in Handler, RequestStep(h), ~Arrives(h) PROVE Apart(d)'
  BY <1>2, RequestMoves, MoveApart
<1>3. ASSUME OutsideStep PROVE Apart(d)'
  BY <1>3, OutsideKeepsRequests DEF Apart, At, SiteOp
<1> QED BY <1>1, <1>2, <1>3, NextCases
-----------------------------------------------------------------------------
(* Requests and calls. *)

\* A request that ended, or that went on without a call.
LEMMA WithoutCall ==
  ASSUME NEW h \in Handler, Moves(h), call'[h].pc = "idle", PcOK(h),
         req'[h].pc # "idle" =>
           /\ req'[h].pc \in SitePc \ {"gateway"} => SiteOp(h)
           /\ req'[h].pc \notin SitePc => ~SiteOp(h)
           /\ req'[h].pc = "unpublish" => ~Publishing(h)
           /\ req'[h].pc \in {"exists", "write"} => Publishing(h)
           /\ req'[h].pc \in {"rows", "row"} => req[h].op = "delete"
           /\ req'[h].pc # "gateway"
  PROVE  PcOK(h)'
<1>1. CASE req'[h].pc = "idle"
  BY <1>1 DEF PcOK, SitePc
<1>2. CASE req'[h].pc # "idle"
  <2>1. GoesOn(h)
    BY <1>2 DEF Moves, Ends, NoRequest
  <2>2. SiteOp(h)' = SiteOp(h) /\ Publishing(h)' = Publishing(h)
    BY <2>1 DEF GoesOn, SiteOp, Publishing
  <2> QED BY <1>2, <2>1, <2>2 DEF PcOK, SitePc, GoesOn
<1> QED BY <1>1, <1>2

\* What Fail, Succeed and Continue make of the place of the request.
LEMMA PcAfter ==
  ASSUME OwnTypeOK, NEW h \in Handler
  PROVE  /\ Fail(h) \/ Succeed(h) => req'[h].pc = "idle"
         /\ Continue(h, "certificate") => req'[h].pc = "certificate"
         /\ Continue(h, "unpublish") => req'[h].pc = "unpublish"
         /\ Continue(h, "gateway") => req'[h].pc = "gateway"
         /\ Continue(h, "exists") => req'[h].pc = "exists"
         /\ Continue(h, "rows") => req'[h].pc = "rows"
         /\ Continue(h, "list") => req'[h].pc = "list"
         /\ Continue(h, "next") => req'[h].pc = "next"
<1>1. Fail(h) \/ Succeed(h) => req'[h].pc = "idle"
  BY DEF OwnTypeOK, Fail, Succeed, NoRequest
<1>2. ASSUME NEW pc, pc # "idle", Continue(h, pc) PROVE req'[h].pc = pc
  BY <1>2, ContinueGoesOn
<1> QED BY <1>1, <1>2

\* The step of a request keeps its PcOK.
LEMMA OwnPcStep ==
  ASSUME Common, NEW h \in Handler, RequestStep(h), ~Arrives(h)
  PROVE  PcOK(h)'
<1> USE DEF Common
<1>0. /\ req[h] \in Request /\ req \in [Handler -> Request] /\ call \in [Handler -> Call]
      /\ req[h].domain \in Domain
  BY DEF OwnTypeOK, GatewayTypeOK, Request
<1>m. Moves(h)
  BY RequestMoves
<1>i. call[h].pc = "idle" /\ UNCHANGED gwvars => call'[h].pc = "idle"
  BY DEF gwvars
<1>p. PcOK(h) /\ (call[h].pc = "idle" <=> req[h].pc # "gateway")
  BY DEF PcOK
<1> USE PcAfter, WithoutCall
<1>1. CASE ReadRouter(h)
  <2>1. req'[h].pc \in {"idle", IF Publishing(h) THEN "certificate" ELSE "unpublish"}
    BY <1>1 DEF ReadRouter
  <2>2. SiteOp(h)
    BY <1>1, <1>p DEF ReadRouter, PcOK, SitePc
  <2> QED BY <1>1, <1>i, <1>m, <1>p, <2>1, <2>2 DEF ReadRouter, SitePc
<1>2. CASE DeleteVirtualService(h)
  <2>1. req'[h].pc \in {"idle", "certificate"} \/ (req'[h].pc = "rows" /\ req[h].op = "delete")
    BY <1>2 DEF DeleteVirtualService
  <2>2. SiteOp(h)
    BY <1>2, <1>p DEF DeleteVirtualService, PcOK, SitePc
  <2> QED BY <1>2, <1>i, <1>m, <1>p, <2>1, <2>2 DEF DeleteVirtualService, SitePc
<1>3. CASE LookupCertificate(h)
  <2>1. /\ call'[h].pc = "get" /\ call'[h].domain = req[h].domain
        /\ call'[h].cert = CertOf(req[h].domain)
        /\ call'[h].op = IF Publishing(h) THEN "install" ELSE "remove"
    BY <1>0, <1>3 DEF LookupCertificate, Begin
  <2>2. /\ SiteOp(h)' = SiteOp(h) /\ Publishing(h)' = Publishing(h)
        /\ req'[h].pc = "gateway" /\ req'[h].domain = req[h].domain
    <3>1. req'[h] = [req[h] EXCEPT !.pc = "gateway"]
      BY <1>3, ContinueGoesOn DEF LookupCertificate
    <3> QED BY <1>0, <3>1 DEF Request, SiteOp, Publishing
  <2>3. SiteOp(h)
    BY <1>3, <1>p DEF LookupCertificate, PcOK, SitePc
  <2>4. CertOf(req[h].domain) \in {OwnCert[req[h].domain], WildCert[req[h].domain], StarCert}
    BY DEF CertOf
  <2> QED BY <2>1, <2>2, <2>3, <2>4 DEF PcOK, SitePc
<1>4. CASE GatewayStep(h)
  <2>1. /\ call[h].pc # "idle" /\ call'[h].pc # "idle" /\ call'[h].domain = call[h].domain
        /\ call'[h].op = call[h].op /\ call'[h].cert = call[h].cert
    BY <1>4, StepIsEdit DEF GatewayStep
  <2>2. req' = req
    BY <1>4 DEF GatewayStep
  <2> QED BY <1>p, <2>1, <2>2 DEF PcOK, SiteOp, Publishing
<1>5. CASE GatewayDone(h)
  <2>1. /\ call'[h].pc = "idle" /\ call[h].pc # "idle"
        /\ req'[h].pc = "idle" \/ (req'[h].pc = "exists" /\ Publishing(h))
             \/ (req'[h].pc = "rows" /\ req[h].op = "delete")
    BY <1>0, <1>5 DEF GatewayDone, Return, Idle
  <2>2. SiteOp(h)
    BY <1>p, <2>1 DEF PcOK, SitePc
  <2> QED BY <1>m, <1>p, <2>1, <2>2 DEF SitePc
<1>6. CASE VirtualServiceExists(h)
  <2>1. req'[h].pc = "write"
    BY <1>0, <1>6 DEF VirtualServiceExists, Request
  <2>2. SiteOp(h) /\ Publishing(h)
    BY <1>6, <1>p DEF VirtualServiceExists, PcOK, SitePc
  <2> QED BY <1>6, <1>i, <1>m, <1>p, <2>1, <2>2 DEF VirtualServiceExists, SitePc
<1>7. CASE WriteVirtualService(h)
  <2>1. req'[h].pc = "idle"
    BY <1>7 DEF WriteVirtualService
  <2> QED BY <1>7, <1>i, <1>m, <1>p, <2>1 DEF WriteVirtualService
<1>8. CASE DeleteRowsStep(h)
  <2>1. req'[h].pc = "row"
    BY <1>0, <1>8 DEF DeleteRowsStep, Moved, Request
  <2>2. SiteOp(h) /\ req[h].op = "delete"
    BY <1>8, <1>p DEF DeleteRowsStep, PcOK, SitePc
  <2> QED BY <1>8, <1>i, <1>m, <1>p, <2>1, <2>2 DEF DeleteRowsStep, SitePc
<1>9. CASE DeleteRouterStep(h)
  <2>1. req'[h].pc = "idle"
    BY <1>9 DEF DeleteRouterStep
  <2> QED BY <1>9, <1>i, <1>m, <1>p, <2>1 DEF DeleteRouterStep
<1>10. CASE MaintenanceRequest(h)
  <2>1. req[h].pc \in {"app", "list", "next", "read", "put"}
    BY <1>10 DEF MaintenanceRequest, Arrives, SetAppPage, ListPaths, NextPath, ReadVirtualService,
                 UpdateVirtualService
  <2>2. ~SiteOp(h) /\ call[h].pc = "idle"
    BY <1>p, <2>1 DEF PcOK, SitePc
  <2>3. UNCHANGED gwvars
    BY <1>10 DEF MaintenanceRequest, StartMaintenance, SetAppPage, ListPaths, NextPath,
                 ReadVirtualService, UpdateVirtualService
  <2>4. req'[h].pc \in {"idle", "list", "next", "read", "put"}
    <3>1. CASE SetAppPage(h)
      BY <3>1 DEF SetAppPage
    <3>2. CASE ListPaths(h)
      BY <1>0, <3>2 DEF ListPaths, Request
    <3>3. CASE NextPath(h)
      <4>1. ASSUME NEW t, req' = [req EXCEPT ![h].pc = "read", ![h].todo = @ \ {t}, ![h].tries = 0,
                                             ![h].domain = t.domain, ![h].path = t.path]
            PROVE  req'[h].pc = "read"
        <5>1. req'[h] = [req[h] EXCEPT !.pc = "read", !.todo = @ \ {t}, !.tries = 0,
                                       !.domain = t.domain, !.path = t.path]
          BY <1>0, <4>1
        <5> QED BY <1>0, <5>1 DEF Request
      <4> QED BY <3>3, <4>1 DEF NextPath
    <3>4. CASE ReadVirtualService(h)
      BY <1>0, <3>4 DEF ReadVirtualService, Moved, Request
    <3>5. CASE UpdateVirtualService(h)
      <4>1. CASE req' = [req EXCEPT ![h].pc = "read", ![h].tries = @ + 1]
        <5>1. req'[h] = [req[h] EXCEPT !.pc = "read", !.tries = @ + 1]
          BY <1>0, <4>1
        <5> QED BY <1>0, <5>1 DEF Request
      <4> QED BY <3>5, <4>1 DEF UpdateVirtualService
    <3> QED BY <1>10, <3>1, <3>2, <3>3, <3>4, <3>5 DEF MaintenanceRequest, Arrives
  <2> QED BY <1>i, <1>m, <1>p, <2>2, <2>3, <2>4 DEF SitePc
<1>11. CASE RequestFailure(h)
  <2>1. req'[h].pc = "idle" /\ call[h].pc = "idle"
    BY <1>11, <1>p DEF RequestFailure
  <2> QED BY <1>11, <1>i, <1>m, <1>p, <2>1 DEF RequestFailure
<1> QED BY <1>1, <1>2, <1>3, <1>4, <1>5, <1>6, <1>7, <1>8, <1>9, <1>10, <1>11
        DEF RequestStep, SiteRequest, Arrives

\* PcOK does not depend on being alone.
LEMMA LikePc ==
  ASSUME NEW o \in Handler, Like(req'[o], req[o]), call'[o] = call[o], PcOK(o)
  PROVE  PcOK(o)'
BY DEF Like, PcOK, SiteOp, Publishing

\* A request is like itself.
LEMMA SameIsLike == ASSUME NEW r PROVE Like(r, r)
BY DEF Like

\* Every step keeps PcOK.
LEMMA PcStep ==
  ASSUME Common, [Next]_vars, NEW o \in Handler
  PROVE  PcOK(o)'
<1> USE DEF Common
<1>1. ASSUME NEW h \in Handler, Arrives(h) PROVE PcOK(o)'
  <2>1. CASE o # h
    BY <1>1, <2>1, OthersStay, LikePc DEF gwvars
  <2>2. CASE o = h
    <3>1. call'[h].pc = "idle"
      BY <1>1, OthersStay DEF gwvars, PcOK
    <3>2. ASSUME NEW op \in {"push", "delete"}, NEW d \in Domain, StartSiteRequest(h, op, d)
          PROVE  req'[h].pc = "router" /\ req'[h].op = op
      <4>1. PICK r \in Request : Arrive(h, r) /\ r.alone /\ r.pc = "router" /\ r.op = op
        BY <3>2, StartSiteRequestStep
      <4> QED BY <4>1, ArriveStep DEF Like
    <3>3. ASSUME NEW op \in {"enable", "disable"}, NEW a \in App, StartMaintenance(h, op, a)
          PROVE  req'[h].pc = "app" /\ req'[h].op = op
      <4>1. PICK r \in Request : Arrive(h, r) /\ r.alone /\ r.pc = "app" /\ r.op = op
        BY <3>3, StartMaintenanceStep
      <4> QED BY <4>1, ArriveStep DEF Like
    <3>4. \/ req'[h].pc = "router" /\ SiteOp(h)'
          \/ req'[h].pc = "app" /\ ~SiteOp(h)'
      BY <1>1, <3>2, <3>3 DEF Arrives, SiteOp
    <3> QED BY <2>2, <3>1, <3>4 DEF PcOK, SitePc
  <2> QED BY <2>1, <2>2
<1>2. ASSUME NEW h \in Handler, RequestStep(h), ~Arrives(h) PROVE PcOK(o)'
  <2>1. CASE o # h
    BY <1>2, <2>1, RequestMoves, LikePc, SameIsLike DEF Moves
  <2>2. CASE o = h
    BY <1>2, <2>2, OwnPcStep
  <2> QED BY <2>1, <2>2
<1>3. ASSUME OutsideStep PROVE PcOK(o)'
  BY <1>3, OutsideKeepsRequests, LikePc, SameIsLike DEF gwvars
<1> QED BY <1>1, <1>2, <1>3, NextCases

-----------------------------------------------------------------------------
(* Certificates. *)

\* An edit brings in no certificate but its own, and moves nobody else.
LEMMA EditCerts ==
  ASSUME NEW op \in {"install", "remove"}, NEW d \in Domain, NEW c \in Cert, NEW g \in Gateway
  PROVE  /\ \A k \in Cert : Edit(op, d, c, g).tls[k] # {} => g.tls[k] # {} \/ k = c
         /\ \A e \in Domain : e # d =>
              /\ e \in Edit(op, d, c, g).http <=> e \in g.http
              /\ \A k \in Cert : e \in Edit(op, d, c, g).tls[k] <=> e \in g.tls[k]
         /\ d \in Edit(op, d, c, g).http <=> op = "install"
         /\ op = "remove" => /\ d \notin Edit(op, d, c, g).tls[c]
                             /\ \A k \in Cert : d \in Edit(op, d, c, g).tls[k] => d \in g.tls[k]
<1> DEFINE n == Edit(op, d, c, g)
<1>1. g.http \subseteq Domain /\ \A k \in Cert : g.tls[k] \subseteq Domain
  BY DEF Gateway
<1>2. n.http = (g.http \ {d}) \union (IF op = "install" THEN {d} ELSE {})
  BY DEF Edit, AddHostsAndServers, RemoveHostsAndServers, Gateway
<1>3. \A k \in Cert : n.tls[k] = (IF g.tls[k] = {d} /\ k # c THEN {d} ELSE g.tls[k] \ {d})
                                 \union (IF op = "install" /\ k = c THEN {d} ELSE {})
  BY DEF Edit, AddHostsAndServers, RemoveHostsAndServers, Gateway
<1> HIDE DEF n
<1>4. \A k \in Cert : n.tls[k] # {} => g.tls[k] # {} \/ k = c
  BY <1>3
<1>5. ASSUME NEW e \in Domain, e # d
      PROVE  /\ e \in n.http <=> e \in g.http
             /\ \A k \in Cert : e \in n.tls[k] <=> e \in g.tls[k]
  BY <1>2, <1>3, <1>5
<1>6. d \in n.http <=> op = "install"
  BY <1>2
<1>7. op = "remove" => /\ d \notin n.tls[c] /\ \A k \in Cert : d \in n.tls[k] => d \in g.tls[k]
  BY <1>3
<1> QED BY <1>4, <1>5, <1>6, <1>7 DEF n

\* A step of a call moves its own domain only, and brings in its own certificate only.
LEMMA StepMoves ==
  ASSUME GatewayTypeOK, CopyIsFresh, NEW h \in Handler, Step(h)
  PROVE  /\ \A k \in Cert : gateway'.tls[k] # {} => gateway.tls[k] # {} \/ k = call[h].cert
         /\ \A e \in Domain : e # call[h].domain =>
              /\ e \in gateway'.http <=> e \in gateway.http
              /\ \A k \in Cert : e \in gateway'.tls[k] <=> e \in gateway.tls[k]
         /\ call[h].op = "install" /\ call[h].domain \in gateway.http => call[h].domain \in gateway'.http
         /\ call[h].op = "remove" =>
              /\ call[h].domain \in gateway'.http => call[h].domain \in gateway.http
              /\ \A k \in Cert : call[h].domain \in gateway'.tls[k] => call[h].domain \in gateway.tls[k]
         /\ call'[h].pc = "ok" =>
              /\ call[h].op = "install" => call[h].domain \in gateway'.http
              /\ call[h].op = "remove" => call[h].domain \notin gateway'.http \union gateway'.tls[call[h].cert]
<1> DEFINE edited == Edit(call[h].op, call[h].domain, call[h].cert, gateway)
<1>1. /\ call[h].op \in {"install", "remove"} /\ call[h].domain \in Domain /\ call[h].cert \in Cert
      /\ gateway \in Gateway
  BY DEF GatewayTypeOK, Call
<1>2. /\ gateway' = gateway \/ (gateway'.tls = edited.tls /\ gateway'.http = edited.http)
      /\ call'[h].pc = "ok" => gateway'.tls = edited.tls /\ gateway'.http = edited.http
  BY StepIsEdit
<1>3. /\ \A k \in Cert : edited.tls[k] # {} => gateway.tls[k] # {} \/ k = call[h].cert
      /\ \A e \in Domain : e # call[h].domain =>
           /\ e \in edited.http <=> e \in gateway.http
           /\ \A k \in Cert : e \in edited.tls[k] <=> e \in gateway.tls[k]
      /\ call[h].domain \in edited.http <=> call[h].op = "install"
      /\ call[h].op = "remove" =>
           /\ call[h].domain \notin edited.tls[call[h].cert]
           /\ \A k \in Cert : call[h].domain \in edited.tls[k] => call[h].domain \in gateway.tls[k]
  BY <1>1, EditCerts
<1> HIDE DEF edited
<1> QED BY <1>1, <1>2, <1>3

\* Only installed certificates get into the gateway.
LEMMA CertsStep ==
  ASSUME Common, [Next]_vars
  PROVE  CertsOK'
<1> USE DEF Common
<1>0. secrets \subseteq secrets'
  <2>1. ASSUME NEW h \in Handler, RequestStep(h) PROVE secrets' = secrets
    BY <2>1 DEF RequestStep, SiteRequest, StartSiteRequest, ReadRouter, DeleteVirtualService,
                LookupCertificate, GatewayStep, GatewayDone, VirtualServiceExists,
                WriteVirtualService, DeleteRowsStep, DeleteRouterStep, MaintenanceRequest,
                StartMaintenance, SetAppPage, ListPaths, NextPath, ReadVirtualService,
                UpdateVirtualService, RequestFailure, k8s
  <2>2. ASSUME OutsideStep PROVE secrets \subseteq secrets'
    BY <2>2 DEF OutsideStep, InstallCertificate, ChangeTables, vars, k8s
  <2> QED BY <2>1, <2>2, NextCases
<1>1. Installed \subseteq Installed'
  BY <1>0 DEF Installed
<1>2. CASE UNCHANGED gwvars
  BY <1>1, <1>2 DEF CertsOK, gwvars
<1>3. ASSUME NEW h \in Handler, LookupCertificate(h) PROVE CertsOK'
  <2>1. call'[h].cert \in Installed /\ UNCHANGED gateway /\ \A o \in Handler : o # h => call'[o] = call[o]
    BY <1>3 DEF LookupCertificate, Begin, GatewayTypeOK, CertOf, Installed
  <2> QED BY <1>1, <2>1 DEF CertsOK
<1>4. ASSUME NEW h \in Handler, GatewayStep(h) PROVE CertsOK'
  <2>1. call[h].cert \in Installed
    BY <1>4, StepIsEdit DEF GatewayStep, CertsOK
  <2>2. \A k \in Cert : gateway'.tls[k] # {} => k \in Installed
    BY <1>4, <2>1, StepMoves DEF GatewayStep, CertsOK
  <2>3. \A o \in Handler : call'[o].pc # "idle" => call'[o].cert \in Installed
    BY <1>4, <2>1, StepIsEdit DEF GatewayStep, CertsOK
  <2> QED BY <1>1, <2>2, <2>3 DEF CertsOK
<1>5. ASSUME NEW h \in Handler, GatewayDone(h) PROVE CertsOK'
  <2>1. UNCHANGED gateway /\ \A o \in Handler : call'[o].pc # "idle" => call'[o] = call[o]
    BY <1>5 DEF GatewayDone, Return, GatewayTypeOK, Idle
  <2> QED BY <1>1, <2>1 DEF CertsOK
<1>6. ASSUME NEW h \in Handler, SiteRequest(h), ~LookupCertificate(h), ~GatewayStep(h), ~GatewayDone(h)
      PROVE  UNCHANGED gwvars
  BY <1>6 DEF SiteRequest, StartSiteRequest, ReadRouter, DeleteVirtualService, VirtualServiceExists,
              WriteVirtualService, DeleteRowsStep, DeleteRouterStep
<1>7. ASSUME NEW h \in Handler, MaintenanceRequest(h) PROVE UNCHANGED gwvars
  BY <1>7 DEF MaintenanceRequest, StartMaintenance, SetAppPage, ListPaths, NextPath,
              ReadVirtualService, UpdateVirtualService
<1> QED BY <1>2, <1>3, <1>4, <1>5, <1>6, <1>7, NextCases, OutsideKeepsRequests DEF RequestStep, RequestFailure
-----------------------------------------------------------------------------
(* Sites and the gateway. *)

\* What the others do to the site of a request that has it for itself: nothing but
\* perhaps create it.
KeptAt(d) ==
  /\ routers[d] # "absent" => routers'[d] # "absent"
  /\ vs'[d].exists = vs[d].exists
  /\ d \in gateway'.http <=> d \in gateway.http
  /\ \A c \in Cert : d \in gateway'.tls[c] <=> d \in gateway.tls[c]

\* Certificates are never uninstalled.
LEMMA SecretsStay ==
  ASSUME NEW h \in Handler, RequestStep(h)
  PROVE  secrets' = secrets
BY DEF RequestStep, SiteRequest, StartSiteRequest, ReadRouter, DeleteVirtualService,
       LookupCertificate, GatewayStep, GatewayDone, VirtualServiceExists, WriteVirtualService,
       DeleteRowsStep, DeleteRouterStep, MaintenanceRequest, StartMaintenance, SetAppPage,
       ListPaths, NextPath, ReadVirtualService, UpdateVirtualService, RequestFailure, k8s

\* A step keeps the site d as it is unless a request for d makes it.
LEMMA KeptElsewhere ==
  ASSUME Common, NEW h \in Handler, RequestStep(h), NEW d \in Domain, ~SiteRequestAt(h, d)
  PROVE  KeptAt(d)
<1> USE DEF Common
<1>0. /\ req[h] \in Request /\ req[h].domain \in Domain /\ routers \in [Domain -> {"external", "internal", "absent"}]
      /\ vs \in [Domain -> VirtualService]
  BY DEF OwnTypeOK, PathsTypeOK, Request
<1>a. ASSUME UNCHANGED <<routers, gwvars, vs>> PROVE KeptAt(d)
  BY <1>a DEF KeptAt, gwvars
<1>1. CASE Arrives(h)
  BY <1>1, <1>a, OthersStay DEF k8s
<1>2. CASE SiteRequest(h) /\ ~Arrives(h)
  <2>1. req[h].pc # "idle" /\ PcOK(h)
    BY <1>2, RequestMoves DEF RequestStep, Moves
  <2>2. req[h].pc \in SitePc => req[h].domain # d
    BY <2>1 DEF SiteRequestAt, PcOK
  <2>3. CASE DeleteVirtualService(h)
    <3>1. vs'[d] = vs[d]
      BY <1>0, <2>2, <2>3 DEF DeleteVirtualService, SitePc
    <3> QED BY <2>3, <3>1 DEF DeleteVirtualService, KeptAt, gwvars, tables
  <2>4. CASE LookupCertificate(h)
    BY <2>4 DEF LookupCertificate, Begin, KeptAt, tables, k8s
  <2>5. CASE GatewayStep(h)
    <3>1. call[h].pc # "idle"
      BY <2>5, StepIsEdit DEF GatewayStep
    <3>2. call[h].domain = req[h].domain /\ req[h].pc = "gateway"
      BY <2>1, <3>1 DEF PcOK
    <3>3. call[h].domain # d
      BY <2>2, <3>2 DEF SitePc
    <3> QED BY <2>5, <3>3, StepMoves DEF GatewayStep, KeptAt, tables, k8s
  <2>6. CASE GatewayDone(h)
    BY <2>6 DEF GatewayDone, Return, KeptAt, tables, k8s
  <2>7. CASE WriteVirtualService(h)
    <3>1. vs'[d] = vs[d]
      BY <1>0, <2>2, <2>7 DEF WriteVirtualService, SitePc
    <3> QED BY <2>7, <3>1 DEF WriteVirtualService, KeptAt, gwvars, tables
  <2>8. CASE DeleteRowsStep(h)
    BY <1>a, <2>8 DEF DeleteRowsStep, k8s
  <2>9. CASE DeleteRouterStep(h)
    <3>1. routers'[d] = routers[d]
      BY <1>0, <2>2, <2>9 DEF DeleteRouterStep, DeleteRouterRow, SitePc
    <3> QED BY <2>9, <3>1 DEF DeleteRouterStep, KeptAt, gwvars, k8s
  <2>10. CASE ReadRouter(h) \/ VirtualServiceExists(h)
    BY <1>a, <2>10 DEF ReadRouter, VirtualServiceExists, tables, k8s
  <2> QED BY <1>2, <2>3, <2>4, <2>5, <2>6, <2>7, <2>8, <2>9, <2>10 DEF SiteRequest, Arrives
<1>3. CASE MaintenanceRequest(h) /\ ~Arrives(h)
  <2>1. CASE UpdateVirtualService(h)
    <3>1. vs'[d].exists = vs[d].exists
      <4>1. CASE vs' = [vs EXCEPT ![req[h].domain].version = @ + 1, ![req[h].domain].routes = req[h].routes]
        <5>1. CASE req[h].domain = d
          <6>1. vs'[d] = [vs[d] EXCEPT !.version = @ + 1, !.routes = req[h].routes]
            BY <1>0, <4>1, <5>1
          <6> QED BY <1>0, <6>1 DEF VirtualService
        <5>2. CASE req[h].domain # d
          BY <1>0, <4>1, <5>2
        <5> QED BY <5>1, <5>2
      <4>2. CASE UNCHANGED vs
        BY <4>2
      <4> QED BY <2>1, <4>1, <4>2 DEF UpdateVirtualService
    <3> QED BY <2>1, <3>1 DEF UpdateVirtualService, KeptAt, gwvars, tables
  <2>2. CASE ~UpdateVirtualService(h)
    BY <1>3, <1>a, <2>2 DEF MaintenanceRequest, Arrives, SetAppPage, ListPaths, NextPath,
                            ReadVirtualService, tables, k8s
  <2> QED BY <2>1, <2>2
<1>4. CASE RequestFailure(h)
  BY <1>4, <1>a DEF RequestFailure, tables, k8s
<1> QED BY <1>1, <1>2, <1>3, <1>4 DEF RequestStep

\* From outside, a site can be created.
LEMMA KeptOutside ==
  ASSUME OwnTypeOK, OutsideStep, NEW d \in Domain
  PROVE  KeptAt(d)
<1>1. routers[d] # "absent" => routers'[d] # "absent"
  BY KindAssumption DEF OutsideStep, InstallCertificate, ChangeTables, PathsNext, CreateRouter, CheckPath,
     InsertPath, DeletePath, UpdatePath, vars, tables, OwnTypeOK, PathsTypeOK
<1> QED BY <1>1, OutsideKeepsRequests DEF KeptAt, gwvars

-----------------------------------------------------------------------------
(* What a request knows of its site. *)

\* What takes precedence is never the default certificate.
LEMMA OverType == ASSUME NEW d \in Domain, NEW c PROVE Over(d, c) \subseteq Cert \ {StarCert}
BY CertNameAssumption DEF Over

\* What a request knows stays true as long as its site is kept.
LEMMA RequestKept ==
  ASSUME GatewayTypeOK, NEW o \in Handler, NEW d \in Domain, req[o].domain = d,
         Like(req'[o], req[o]), call'[o] = call[o], KeptAt(d), RequestOK(o)
  PROVE  RequestOK(o)'
<1>1. call[o].cert \in Cert
  BY DEF GatewayTypeOK, Call
<1>2. Over(d, call[o].cert) \subseteq Cert
  BY OverType
<1>3. /\ req'[o].domain = d /\ SiteOp(o)' = SiteOp(o) /\ Publishing(o)' = Publishing(o)
      /\ req'[o].pc = req[o].pc /\ (req'[o].alone => req[o].alone)
  BY DEF Like, SiteOp, Publishing
<1> QED BY <1>1, <1>2, <1>3 DEF RequestOK, KeptAt, Over

\* A request that has the site for itself.
LEMMA AloneAt ==
  ASSUME Common, NEW o \in Handler, NEW d \in Domain, SiteRequestAt(o, d), req[o].alone,
         NEW h \in Handler, h # o
  PROVE  ~At(h, d) /\ ~SiteRequestAt(h, d)
BY DEF Common, Apart, At, SiteRequestAt, SiteOp, Touches

\* The step of a request that has its site for itself keeps what it knows.
LEMMA OwnRequestStep ==
  ASSUME Common, NEW h \in Handler, RequestOK(h), RequestStep(h), ~Arrives(h), NEW d \in Domain,
         req[h].domain = d
  PROVE  RequestOK(h)'
<1> USE DEF Common
<1>0. /\ req[h] \in Request /\ req \in [Handler -> Request] /\ call \in [Handler -> Call]
      /\ vs \in [Domain -> VirtualService] /\ call[h].cert \in Cert
  BY DEF OwnTypeOK, GatewayTypeOK, Call
<1>1. Moves(h)
  BY RequestMoves
<1> SUFFICES ASSUME SiteOp(h)', req'[h].pc \notin {"idle", "router"}, req'[h].alone
             PROVE  RequestOK(h)'
  BY DEF RequestOK
<1>2. GoesOn(h)
  BY <1>1 DEF Moves, Ends, NoRequest
<1>3. /\ SiteOp(h) /\ req'[h].domain = d /\ req[h].alone /\ Publishing(h)' = Publishing(h)
      /\ req[h].pc # "idle"
  BY <1>1, <1>2 DEF GoesOn, SiteOp, Publishing, Moves
<1>4. PcOK(h) /\ (call[h].pc = "idle" <=> req[h].pc # "gateway")
  BY DEF PcOK
<1>5. req[h].pc # "router" =>
        /\ routers[d] # "absent"
        /\ Publishing(h) /\ (req[h].pc \in {"exists", "write"} \/ call[h].pc = "ok") => d \in gateway.http
        /\ ~Publishing(h) /\ req[h].pc \in {"certificate", "gateway", "rows", "row"} => ~vs[d].exists
        /\ ~Publishing(h) /\ req[h].pc = "gateway" =>
             \A c \in Over(d, call[h].cert) : d \notin gateway.tls[c]
        /\ ~Publishing(h) /\ call[h].pc = "ok" => d \notin gateway.http \union gateway.tls[call[h].cert]
  BY <1>3 DEF RequestOK
<1> DEFINE Goal ==
        /\ routers'[d] # "absent"
        /\ Publishing(h) /\ (req'[h].pc \in {"exists", "write"} \/ call'[h].pc = "ok") => d \in gateway'.http
        /\ ~Publishing(h) /\ req'[h].pc \in {"certificate", "gateway", "rows", "row"} => ~vs'[d].exists
        /\ ~Publishing(h) /\ req'[h].pc = "gateway" =>
             \A c \in Over(d, call'[h].cert) : d \notin gateway'.tls[c]
        /\ ~Publishing(h) /\ call'[h].pc = "ok" =>
             d \notin gateway'.http \union gateway'.tls[call'[h].cert]
<1> SUFFICES Goal
  BY <1>3 DEF RequestOK, Over
<1> USE PcAfter
<1>6. CASE ReadRouter(h)
  <2>1. routers[d] # "absent" /\ req'[h].pc = (IF Publishing(h) THEN "certificate" ELSE "unpublish")
    BY <1>6 DEF ReadRouter
  <2> QED BY <1>4, <1>6, <2>1 DEF ReadRouter, tables, gwvars
<1>7. CASE DeleteVirtualService(h)
  <2>1. ~vs'[d].exists
    BY <1>0, <1>7, SucceedEnds, <1>2 DEF DeleteVirtualService, VirtualService
  <2>2. req'[h].pc \in {"certificate", "rows"} /\ call[h].pc = "idle"
    BY <1>4, <1>7 DEF DeleteVirtualService
  <2> QED BY <1>5, <1>7, <2>1, <2>2 DEF DeleteVirtualService, tables, gwvars
<1>8. CASE LookupCertificate(h)
  <2>1. call'[h].pc = "get" /\ call'[h].cert = CertOf(d)
    BY <1>0, <1>8 DEF LookupCertificate, Begin
  <2>2. \A c \in Over(d, CertOf(d)) : c \in Cert /\ c \notin Installed
    BY OverType, CertNameAssumption DEF Over, CertOf, Installed
  <2>3. \A c \in Over(d, CertOf(d)) : d \notin gateway.tls[c]
    BY <2>2 DEF CertsOK
  <2>4. req'[h].pc = "gateway"
    BY <1>8, ContinueGoesOn DEF LookupCertificate
  <2> QED BY <1>5, <1>8, <2>1, <2>3, <2>4 DEF LookupCertificate, Begin, tables, k8s
<1>9. CASE GatewayStep(h)
  <2>1. /\ call[h].pc # "idle" /\ call'[h].cert = call[h].cert
    BY <1>9, StepIsEdit DEF GatewayStep
  <2>2. req[h].pc = "gateway" /\ call[h].domain = d /\ req' = req
        /\ call[h].op = IF Publishing(h) THEN "install" ELSE "remove"
    BY <1>4, <1>9, <2>1 DEF PcOK, GatewayStep
  <2>3. Over(d, call[h].cert) \subseteq Cert
    BY OverType
  <2>4. UNCHANGED <<routers, vs>>
    BY <1>9 DEF GatewayStep, tables, k8s
  <2>5. /\ ~Publishing(h) => \A k \in Cert : d \in gateway'.tls[k] => d \in gateway.tls[k]
        /\ Publishing(h) /\ call'[h].pc = "ok" => d \in gateway'.http
        /\ ~Publishing(h) /\ call'[h].pc = "ok" => d \notin gateway'.http \union gateway'.tls[call[h].cert]
    BY <1>9, <2>2, StepMoves DEF GatewayStep
  <2> QED BY <1>5, <2>1, <2>2, <2>3, <2>4, <2>5
<1>10. CASE GatewayDone(h)
  <2>1. /\ call'[h].pc = "idle" /\ call[h].pc # "idle" /\ UNCHANGED gateway
    BY <1>0, <1>10 DEF GatewayDone, Return, Idle
  <2>2. \/ req'[h].pc = "exists" /\ Publishing(h) /\ call[h].pc = "ok"
        \/ req'[h].pc = "rows"
    BY <1>10 DEF GatewayDone
  <2>3. UNCHANGED <<routers, vs>>
    BY <1>10 DEF GatewayDone, tables, k8s
  <2> QED BY <1>4, <1>5, <2>1, <2>2, <2>3
<1>11. CASE VirtualServiceExists(h)
  <2>1. req'[h].pc = "write"
    BY <1>0, <1>11 DEF VirtualServiceExists, Request
  <2> QED BY <1>4, <1>5, <1>11, <2>1 DEF VirtualServiceExists, tables, gwvars, k8s
<1>12. CASE DeleteRowsStep(h)
  <2>1. req'[h].pc = "row"
    BY <1>0, <1>12 DEF DeleteRowsStep, Moved, Request
  <2> QED BY <1>4, <1>5, <1>12, <2>1 DEF DeleteRowsStep, gwvars, k8s
<1>13. ~WriteVirtualService(h) /\ ~DeleteRouterStep(h) /\ ~RequestFailure(h)
  BY DEF WriteVirtualService, DeleteRouterStep, RequestFailure
<1>14. ~MaintenanceRequest(h)
  <2>1. req[h].pc \in SitePc
    BY <1>3, <1>4 DEF PcOK
  <2> QED BY <2>1 DEF MaintenanceRequest, Arrives, SetAppPage, ListPaths, NextPath,
                      ReadVirtualService, UpdateVirtualService, SitePc
<1> QED BY <1>6, <1>7, <1>8, <1>9, <1>10, <1>11, <1>12, <1>13, <1>14
        DEF RequestStep, SiteRequest, Arrives

\* Every step keeps what the requests know.
LEMMA RequestOKStep ==
  ASSUME Common, [Next]_vars, NEW o \in Handler, RequestOK(o)
  PROVE  RequestOK(o)'
<1> USE DEF Common
<1>0. /\ req[o].domain \in Domain
  BY DEF OwnTypeOK, Request
<1>1. ASSUME NEW h \in Handler, Arrives(h) PROVE RequestOK(o)'
  <2>1. CASE o # h
    <3>1. Like(req'[o], req[o]) /\ UNCHANGED <<routers, gwvars, k8s>>
      BY <1>1, <2>1, OthersStay
    <3>2. KeptAt(req[o].domain) /\ call'[o] = call[o]
      BY <3>1 DEF KeptAt, gwvars, k8s
    <3> QED BY <1>0, <3>1, <3>2, RequestKept
  <2>2. CASE o = h
    <3>1. req'[h].pc = "router" \/ ~SiteOp(h)'
      <4>1. ASSUME NEW op \in {"push", "delete"}, NEW d \in Domain, StartSiteRequest(h, op, d)
            PROVE  req'[h].pc = "router"
        <5>1. PICK r \in Request : Arrive(h, r) /\ r.alone /\ r.pc = "router"
          BY <4>1, StartSiteRequestStep
        <5> QED BY <5>1, ArriveStep DEF Like
      <4>2. ASSUME NEW op \in {"enable", "disable"}, NEW a \in App, StartMaintenance(h, op, a)
            PROVE  ~SiteOp(h)'
        <5>1. PICK r \in Request : Arrive(h, r) /\ r.alone /\ r.op = op
          BY <4>2, StartMaintenanceStep
        <5>2. req'[h].op = op
          BY <5>1, ArriveStep DEF Like
        <5> QED BY <5>2 DEF SiteOp
      <4> QED BY <1>1, <4>1, <4>2 DEF Arrives
    <3> QED BY <2>2, <3>1 DEF RequestOK
  <2> QED BY <2>1, <2>2
<1>2. ASSUME NEW h \in Handler, RequestStep(h), ~Arrives(h) PROVE RequestOK(o)'
  <2>1. CASE o = h
    BY <1>0, <1>2, <2>1, OwnRequestStep
  <2>2. CASE o # h
    <3>1. req'[o] = req[o] /\ call'[o] = call[o]
      BY <1>2, <2>2, RequestMoves DEF Moves
    <3>2. CASE SiteRequestAt(o, req[o].domain) /\ req[o].alone
      <4>1. ~SiteRequestAt(h, req[o].domain)
        BY <1>0, <2>2, <3>2, AloneAt
      <4>2. KeptAt(req[o].domain)
        BY <1>0, <1>2, <4>1, KeptElsewhere
      <4> QED BY <1>0, <3>1, <4>2, RequestKept, SameIsLike
    <3>3. CASE ~(SiteRequestAt(o, req[o].domain) /\ req[o].alone)
      BY <3>1, <3>3 DEF RequestOK, SiteRequestAt, SiteOp
    <3> QED BY <3>2, <3>3
  <2> QED BY <2>1, <2>2
<1>3. ASSUME OutsideStep PROVE RequestOK(o)'
  <2>1. KeptAt(req[o].domain) /\ req'[o] = req[o] /\ call'[o] = call[o]
    BY <1>0, <1>3, KeptOutside, OutsideKeepsRequests DEF gwvars
  <2> QED BY <1>0, <2>1, RequestKept, SameIsLike
<1> QED BY <1>1, <1>2, <1>3, NextCases
-----------------------------------------------------------------------------
(* Sites that are not suspect. *)

\* The certificate of a domain now is the one of an earlier look or takes precedence.
LEMMA LaterCert ==
  ASSUME NEW d \in Domain, NEW c \in {OwnCert[d], WildCert[d], StarCert}, c \in Installed
  PROVE  CertOf(d) \in {c} \union Over(d, c)
BY CertNameAssumption DEF CertOf, Over, Installed

\* A certificate that gets installed is in no gateway yet.
LEMMA NewCert ==
  ASSUME Common, NEW c \in Installable \ secrets, InstallCertificate(c), NEW d \in Domain,
         Offline(d)
  PROVE  Offline(d)'
<1>1. UNCHANGED gateway /\ secrets' = secrets \union {c}
  BY DEF InstallCertificate, gwvars
<1>2. CASE CertOf(d)' = CertOf(d)
  BY <1>1, <1>2 DEF Offline
<1>3. CASE CertOf(d)' # CertOf(d)
  <2>1. CertOf(d)' \in {OwnCert[d], WildCert[d]} /\ CertOf(d)' \notin secrets
    BY <1>1, <1>3 DEF CertOf
  <2>2. CertOf(d)' \in Cert /\ CertOf(d)' \notin Installed
    BY <2>1, CertNameAssumption DEF Installed
  <2>3. gateway.tls[CertOf(d)'] = {}
    BY <2>2 DEF Common, CertsOK
  <2> QED BY <1>1, <2>3 DEF Offline
<1> QED BY <1>2, <1>3

\* The others do not disturb a site.
LEMMA SiteKept ==
  ASSUME NEW d \in Domain, KeptAt(d), SiteOK(d), secrets' = secrets, d \notin suspect,
         NEW h, \A o \in Handler : o # h => Like(req'[o], req[o]), ~SiteRequestAt(h, d)
  PROVE  SiteOK(d)'
<1>1. Between(d) => Between(d)'
  <2>1. ASSUME NEW o \in Handler, SiteRequestAt(o, d),
               req[o].pc \in {"certificate", "gateway", "exists", "write"}
        PROVE  SiteRequestAt(o, d)' /\ req'[o].pc \in {"certificate", "gateway", "exists", "write"}
    BY <2>1 DEF Like, SiteRequestAt, SiteOp
  <2> QED BY <2>1 DEF Between
<1>2. CertOf(d)' = CertOf(d) /\ CertOf(d) \in Cert
  BY CertOfType DEF CertOf
<1>3. Offline(d) => Offline(d)'
  BY <1>2 DEF Offline, KeptAt
<1> QED BY <1>1, <1>3 DEF SiteOK, KeptAt

\* The step of a request for the site d keeps SiteOK.
LEMMA OwnSiteStep ==
  ASSUME Common, NEW h \in Handler, RequestOK(h), RequestStep(h), ~Arrives(h), NEW d \in Domain,
         SiteRequestAt(h, d), SiteOK(d), d \notin suspect'
  PROVE  SiteOK(d)'
<1> USE DEF Common
<1>0. /\ req[h] \in Request /\ req \in [Handler -> Request] /\ call \in [Handler -> Call]
      /\ vs \in [Domain -> VirtualService] /\ call[h].cert \in Cert
  BY DEF OwnTypeOK, GatewayTypeOK, Call
<1>1. /\ Moves(h) /\ PcOK(h) /\ SiteOp(h) /\ req[h].domain = d /\ Touches(req[h]) = {d}
      /\ req[h].pc # "idle"
  BY RequestMoves DEF SiteRequestAt, SiteOp, Touches
<1>2. req[h].alone
  <2>1. At(h, d)
    BY <1>1 DEF At
  <2>2. ~req[h].alone => d \in suspect
    BY <1>1, <2>1 DEF Apart
  <2> QED BY <1>1, <2>2 DEF Moves, GoesOn, Ends, Clears
<1>3. ~Fail(h)
  BY <1>1 DEF Fail
<1>4. /\ \A o \in Handler : o # h => req'[o] = req[o]
      /\ secrets' = secrets
  BY <1>1, SecretsStay DEF Moves
<1>5. CertOf(d)' = CertOf(d) /\ CertOf(d) \in Cert
  BY <1>4, CertOfType DEF CertOf
<1>6. req[h].pc # "router" =>
        /\ routers[d] # "absent"
        /\ Publishing(h) /\ (req[h].pc \in {"exists", "write"} \/ call[h].pc = "ok") => d \in gateway.http
        /\ ~Publishing(h) /\ req[h].pc \in {"certificate", "gateway", "rows", "row"} => ~vs[d].exists
        /\ ~Publishing(h) /\ req[h].pc = "gateway" =>
             \A c \in Over(d, call[h].cert) : d \notin gateway.tls[c]
        /\ ~Publishing(h) /\ call[h].pc = "ok" => d \notin gateway.http \union gateway.tls[call[h].cert]
  BY <1>1, <1>2 DEF RequestOK
<1>7. ~Clears(h) => d \notin suspect
  BY <1>1 DEF Moves, GoesOn, Ends
<1> DEFINE mid == {"certificate", "gateway", "exists", "write"}
\* What the request, still in between, or any other, does for Between.
<1>8. GoesOn(h) /\ req'[h].pc \in mid => Between(d)'
  BY <1>1 DEF GoesOn, Between, SiteRequestAt, SiteOp
<1>9. Between(d) /\ req[h].pc \notin mid => Between(d)'
  BY <1>4 DEF Between, SiteRequestAt, SiteOp
<1>10. UNCHANGED gateway /\ Offline(d) => Offline(d)'
  BY <1>5 DEF Offline
<1> USE PcAfter
<1>11. CASE ReadRouter(h)
  <2>1. UNCHANGED <<gateway, vs, routers>> /\ req[h].pc = "router"
    BY <1>11 DEF ReadRouter, tables, gwvars, k8s
  <2>2. d \notin suspect
    BY <1>3, <1>11 DEF ReadRouter, Continue, ghosts
  <2> QED BY <1>9, <1>10, <2>1, <2>2 DEF SiteOK
<1>12. CASE DeleteVirtualService(h)
  <2>1. UNCHANGED <<gateway, routers>> /\ req[h].pc = "unpublish" /\ ~Publishing(h)
    BY <1>1, <1>12 DEF DeleteVirtualService, tables, gwvars, PcOK
  <2>2. CASE vs[d].exists
    <3>1. Continue(h, "certificate")
      BY <1>1, <1>12, <2>2 DEF DeleteVirtualService
    <3>2. GoesOn(h) /\ req'[h].pc = "certificate"
      BY <3>1, ContinueGoesOn
    <3>3. ~vs'[d].exists
      BY <1>0, <1>1, <1>12, <2>2 DEF DeleteVirtualService, VirtualService
    <3> QED BY <1>8, <3>2, <3>3 DEF SiteOK
  <2>3. CASE ~vs[d].exists
    <3>1. ~vs'[d].exists
      BY <1>1, <1>12, <2>3 DEF DeleteVirtualService
    <3>2. d \notin suspect
      BY <1>7, <2>1 DEF Clears
    <3> QED BY <1>9, <1>10, <2>1, <2>3, <3>1, <3>2 DEF SiteOK
  <2> QED BY <2>2, <2>3
<1>13. CASE LookupCertificate(h)
  <2>1. GoesOn(h) /\ req'[h].pc = "gateway"
    BY <1>13, ContinueGoesOn DEF LookupCertificate
  <2>2. UNCHANGED <<gateway, vs, routers>>
    BY <1>13 DEF LookupCertificate, Begin, tables, k8s
  <2>3. d \notin suspect
    BY <2>1 DEF GoesOn
  <2> QED BY <1>8, <2>1, <2>2, <2>3 DEF SiteOK
<1>14. CASE GatewayStep(h)
  <2>1. /\ call[h].pc # "idle" /\ req' = req /\ UNCHANGED <<vs, routers, met, suspect>>
    BY <1>14, StepIsEdit DEF GatewayStep, tables, k8s, ghosts
  <2>2. req[h].pc = "gateway" /\ call[h].domain = d
        /\ call[h].op = IF Publishing(h) THEN "install" ELSE "remove"
    BY <1>1, <2>1 DEF PcOK
  <2>3. CASE vs[d].exists
    <3>1. Publishing(h)
      BY <1>6, <2>2, <2>3
    <3>2. d \in gateway.http => d \in gateway'.http
      BY <1>14, <2>2, <3>1, StepMoves DEF GatewayStep
    <3> QED BY <2>1, <2>3, <3>2 DEF SiteOK
  <2>4. CASE ~vs[d].exists
    <3>1. GoesOn(h)
      BY <2>1, <2>2 DEF GoesOn
    <3> QED BY <1>8, <2>1, <2>2, <2>4, <3>1 DEF SiteOK
  <2> QED BY <2>3, <2>4
<1>15. CASE GatewayDone(h)
  <2>1. /\ call[h].pc # "idle" /\ UNCHANGED <<gateway, vs, routers>>
    BY <1>15 DEF GatewayDone, Return, tables, k8s
  <2>2. req[h].pc = "gateway" /\ call[h].cert \in {OwnCert[d], WildCert[d], StarCert}
        /\ call[h].cert \in Installed
    BY <1>1, <2>1 DEF PcOK, CertsOK
  <2>3. CASE Publishing(h)
    <3>1. Continue(h, "exists") \/ Continue(h, "rows")
      BY <1>3, <1>15, <2>3 DEF GatewayDone
    <3>2. ~(req[h].op = "delete")
      BY <2>3 DEF Publishing
    <3>3. Continue(h, "exists")
      BY <1>3, <1>15, <2>3, <3>2 DEF GatewayDone
    <3>4. GoesOn(h) /\ req'[h].pc = "exists"
      BY <3>3, ContinueGoesOn
    <3>5. d \notin suspect
      BY <3>4 DEF GoesOn
    <3> QED BY <1>8, <2>1, <3>4, <3>5 DEF SiteOK
  <2>4. CASE ~Publishing(h)
    <3>1. call[h].pc = "ok"
      BY <1>3, <1>15, <2>4 DEF GatewayDone
    <3>2. CertOf(d) \in {call[h].cert} \union Over(d, call[h].cert)
      BY <2>2, LaterCert
    <3>3. Offline(d)
      BY <1>6, <2>2, <2>4, <3>1, <3>2 DEF Offline
    <3>4. ~vs[d].exists
      BY <1>6, <2>2, <2>4
    <3> QED BY <1>10, <2>1, <3>3, <3>4 DEF SiteOK
  <2> QED BY <2>3, <2>4
<1>16. CASE VirtualServiceExists(h)
  <2>1. req'[h].pc = "write"
    BY <1>0, <1>16 DEF VirtualServiceExists, Request
  <2>2. GoesOn(h)
    BY <1>1, <2>1 DEF Moves, Ends, NoRequest
  <2>3. UNCHANGED <<gateway, vs, routers>> /\ d \notin suspect
    BY <1>16, <2>2 DEF VirtualServiceExists, gwvars, tables, k8s, GoesOn
  <2> QED BY <1>8, <2>1, <2>2, <2>3 DEF SiteOK
<1>17. CASE WriteVirtualService(h)
  <2>1. UNCHANGED <<gateway, routers>> /\ req[h].pc = "write" /\ Publishing(h)
    BY <1>1, <1>17 DEF WriteVirtualService, gwvars, tables, PcOK
  <2>2. d \in gateway.http /\ routers[d] # "absent"
    BY <1>6, <2>1
  <2>3. vs'[d].exists
    BY <1>0, <1>1, <1>3, <1>17 DEF WriteVirtualService
  <2> QED BY <2>1, <2>2, <2>3 DEF SiteOK
<1>18. CASE DeleteRowsStep(h)
  <2>1. UNCHANGED <<gateway, routers, vs, suspect>> /\ req[h].pc = "rows"
    BY <1>18 DEF DeleteRowsStep, gwvars, k8s
  <2>2. ~vs[d].exists
    BY <1>1, <1>6, <2>1 DEF PcOK, Publishing
  <2> QED BY <1>9, <1>10, <2>1, <2>2 DEF SiteOK
<1>19. CASE DeleteRouterStep(h)
  <2>1. UNCHANGED <<gateway, vs>> /\ req[h].pc = "row"
    BY <1>19 DEF DeleteRouterStep, gwvars, k8s
  <2>2. ~vs[d].exists /\ ~Publishing(h)
    BY <1>1, <1>6, <2>1 DEF PcOK, Publishing
  <2>3. d \notin suspect
    BY <1>7, <2>2 DEF Clears
  <2> QED BY <1>9, <1>10, <2>1, <2>2, <2>3 DEF SiteOK
<1>20. ~RequestFailure(h)
  BY <1>3 DEF RequestFailure
<1>21. ~MaintenanceRequest(h)
  <2>1. req[h].pc \notin {"app", "list", "next", "read", "put"}
    BY <1>1 DEF PcOK, SitePc
  <2> QED BY <2>1 DEF MaintenanceRequest, Arrives, SetAppPage, ListPaths, NextPath,
                      ReadVirtualService, UpdateVirtualService
<1> QED BY <1>11, <1>12, <1>13, <1>14, <1>15, <1>16, <1>17, <1>18, <1>19, <1>20, <1>21
        DEF RequestStep, SiteRequest, Arrives

\* A virtual service stays behind the gateway in the step of a request for its site.
LEMMA OwnServedStep ==
  ASSUME Common, NEW h \in Handler, RequestOK(h), RequestStep(h), ~Arrives(h), NEW d \in Domain,
         SiteRequestAt(h, d), ServedOK(d)
  PROVE  ServedOK(d)'
<1> USE DEF Common
<1> SUFFICES ASSUME d \notin met', vs'[d].exists PROVE d \in gateway'.http
  BY DEF ServedOK
<1>0. /\ req[h] \in Request /\ vs \in [Domain -> VirtualService]
  BY DEF OwnTypeOK
<1>1. /\ Moves(h) /\ PcOK(h) /\ SiteOp(h) /\ req[h].domain = d /\ Touches(req[h]) = {d}
      /\ req[h].pc # "idle"
  BY RequestMoves DEF SiteRequestAt, SiteOp, Touches
<1>2. req[h].alone
  <2>1. At(h, d)
    BY <1>1 DEF At
  <2>2. ~req[h].alone => d \in met
    BY <1>1, <2>1 DEF Apart
  <2> QED BY <1>1, <2>2 DEF Moves, GoesOn, Ends, Clears
<1>3. req[h].pc # "router" =>
        /\ Publishing(h) /\ (req[h].pc \in {"exists", "write"} \/ call[h].pc = "ok") => d \in gateway.http
        /\ ~Publishing(h) /\ req[h].pc \in {"certificate", "gateway", "rows", "row"} => ~vs[d].exists
  BY <1>1, <1>2 DEF RequestOK
<1>4. Fail(h) => d \notin met
  BY DEF Fail
<1>5. ~Publishing(h) \/ GoesOn(h) => d \notin met
  BY <1>1 DEF Moves, GoesOn, Ends, Clears
\* A step that touches neither leaves the site as it was.
<1>6. ASSUME UNCHANGED gateway, vs'[d].exists => vs[d].exists, d \notin met PROVE d \in gateway'.http
  BY <1>6 DEF ServedOK
<1>7. \A pc \in {"unpublish", "certificate", "exists", "rows"} : Continue(h, pc) => GoesOn(h)
  BY ContinueGoesOn
<1>8. CASE GatewayStep(h)
  <2>1. /\ call[h].pc # "idle" /\ UNCHANGED <<req, met, vs>>
    BY <1>8, StepIsEdit DEF GatewayStep, k8s, ghosts
  <2>2. req[h].pc = "gateway" /\ call[h].domain = d
        /\ call[h].op = IF Publishing(h) THEN "install" ELSE "remove"
    BY <1>1, <2>1 DEF PcOK
  <2>3. Publishing(h) /\ d \in gateway.http
    BY <1>3, <2>1, <2>2 DEF ServedOK
  <2> QED BY <1>8, <2>2, <2>3, StepMoves DEF GatewayStep
<1>9. CASE WriteVirtualService(h)
  <2>1. req[h].pc = "write" /\ UNCHANGED gateway
    BY <1>9 DEF WriteVirtualService, gwvars
  <2>2. Publishing(h)
    BY <1>1, <2>1 DEF PcOK
  <2> QED BY <1>3, <2>1, <2>2
<1>10. CASE GatewayDone(h)
  <2>1. UNCHANGED <<gateway, vs>>
    BY <1>10 DEF GatewayDone, Return, k8s
  <2>2. Fail(h) \/ ~Publishing(h) \/ Continue(h, "exists") \/ Continue(h, "rows")
    BY <1>10 DEF GatewayDone
  <2> QED BY <1>4, <1>5, <1>6, <1>7, <2>1, <2>2
<1>11. CASE DeleteVirtualService(h)
  <2>1. UNCHANGED gateway /\ req[h].pc = "unpublish"
    BY <1>11 DEF DeleteVirtualService, gwvars
  <2>2. ~Publishing(h)
    BY <1>1, <2>1 DEF PcOK
  <2>3. vs'[d].exists => vs[d].exists
    BY <1>0, <1>1, <1>11 DEF DeleteVirtualService, VirtualService
  <2> QED BY <1>5, <1>6, <2>1, <2>2, <2>3
<1>12. CASE ReadRouter(h) \/ LookupCertificate(h) \/ VirtualServiceExists(h)
  <2>1. UNCHANGED <<gateway, vs>>
    BY <1>12 DEF ReadRouter, LookupCertificate, Begin, VirtualServiceExists, gwvars, k8s
  <2>2. d \notin met
    BY <1>4, <1>12 DEF ReadRouter, LookupCertificate, VirtualServiceExists, Continue, ghosts
  <2> QED BY <1>6, <2>1, <2>2
<1>13. CASE DeleteRowsStep(h) \/ DeleteRouterStep(h)
  <2>1. UNCHANGED <<gateway, vs>> /\ req[h].pc \in {"rows", "row"}
    BY <1>13 DEF DeleteRowsStep, DeleteRouterStep, gwvars, k8s
  <2>2. ~Publishing(h)
    BY <1>1, <2>1 DEF PcOK, Publishing
  <2> QED BY <1>5, <1>6, <2>1, <2>2
<1>14. CASE RequestFailure(h)
  BY <1>4, <1>6, <1>14 DEF RequestFailure, gwvars, k8s
<1>15. ~MaintenanceRequest(h)
  <2>1. req[h].pc \notin {"app", "list", "next", "read", "put"}
    BY <1>1 DEF PcOK, SitePc
  <2> QED BY <2>1 DEF MaintenanceRequest, Arrives, SetAppPage, ListPaths, NextPath,
                      ReadVirtualService, UpdateVirtualService
<1> QED BY <1>8, <1>9, <1>10, <1>11, <1>12, <1>13, <1>14, <1>15
        DEF RequestStep, SiteRequest, Arrives

\* Every step keeps virtual services behind the gateway, whatever fails.
LEMMA ServedStep ==
  ASSUME Common, \A h \in Handler : RequestOK(h), [Next]_vars, NEW d \in Domain, ServedOK(d)
  PROVE  ServedOK(d)'
<1> USE DEF Common
<1>1. ASSUME NEW h \in Handler, Arrives(h) PROVE ServedOK(d)'
  <2>1. met \subseteq met' /\ UNCHANGED <<gwvars, k8s>>
    BY <1>1, OthersStay
  <2> QED BY <2>1 DEF ServedOK, gwvars, k8s
<1>2. ASSUME NEW h \in Handler, RequestStep(h), ~Arrives(h), ~SiteRequestAt(h, d) PROVE ServedOK(d)'
  <2>1. Moves(h) /\ KeptAt(d)
    BY <1>2, RequestMoves, KeptElsewhere
  <2>2. d \notin met' => d \notin met
    BY <1>2, <2>1 DEF Moves, GoesOn, Ends, Clears, Publishing, SiteRequestAt, SiteOp
  <2> QED BY <2>1, <2>2 DEF ServedOK, KeptAt
<1>3. ASSUME NEW h \in Handler, RequestStep(h), ~Arrives(h), SiteRequestAt(h, d) PROVE ServedOK(d)'
  BY <1>3, OwnServedStep
<1>4. ASSUME OutsideStep PROVE ServedOK(d)'
  BY <1>4, KeptOutside, OutsideKeepsRequests DEF ServedOK, KeptAt
<1> QED BY <1>1, <1>2, <1>3, <1>4, NextCases

\* Every step keeps SiteOK.
LEMMA SiteStep ==
  ASSUME Common, \A h \in Handler : RequestOK(h), [Next]_vars, NEW d \in Domain, SiteOK(d)
  PROVE  SiteOK(d)'
<1> USE DEF Common
<1> SUFFICES ASSUME d \notin suspect' PROVE SiteOK(d)'
  BY DEF SiteOK
<1>1. ASSUME NEW h \in Handler, Arrives(h) PROVE SiteOK(d)'
  <2>1. /\ req[h].pc = "idle" /\ suspect \subseteq suspect'
        /\ \A o \in Handler : o # h => Like(req'[o], req[o])
        /\ UNCHANGED <<routers, gwvars, k8s>>
    BY <1>1, OthersStay
  <2>2. KeptAt(d) /\ secrets' = secrets /\ ~SiteRequestAt(h, d) /\ d \notin suspect
    BY <2>1 DEF KeptAt, gwvars, k8s, SiteRequestAt
  <2> QED BY <2>1, <2>2, SiteKept
<1>2. ASSUME NEW h \in Handler, RequestStep(h), ~Arrives(h), ~SiteRequestAt(h, d) PROVE SiteOK(d)'
  <2>1. Moves(h) /\ KeptAt(d) /\ secrets' = secrets
    BY <1>2, RequestMoves, KeptElsewhere, SecretsStay
  <2>2. d \notin suspect
    BY <1>2, <2>1 DEF Moves, GoesOn, Ends, Clears, Publishing, SiteRequestAt, SiteOp
  <2>3. \A o \in Handler : o # h => Like(req'[o], req[o])
    BY <2>1, SameIsLike DEF Moves
  <2> QED BY <1>2, <2>1, <2>2, <2>3, SiteKept
<1>3. ASSUME NEW h \in Handler, RequestStep(h), ~Arrives(h), SiteRequestAt(h, d) PROVE SiteOK(d)'
  BY <1>3, OwnSiteStep
<1>4. ASSUME OutsideStep PROVE SiteOK(d)'
  <2>1. /\ UNCHANGED <<gwvars, vs, req, suspect>> /\ KeptAt(d)
    BY <1>4, KeptOutside, OutsideKeepsRequests
  <2>2. Between(d) => Between(d)'
    BY <2>1 DEF Between, SiteRequestAt, SiteOp
  <2>3. Offline(d) => Offline(d)'
    <3>1. CASE secrets' = secrets
      BY <2>1, <3>1 DEF Offline, CertOf, gwvars
    <3>2. CASE secrets' # secrets
      <4>1. PICK c \in Installable \ secrets : InstallCertificate(c)
        BY <1>4, <3>2 DEF OutsideStep, ChangeTables, vars, k8s
      <4> QED BY <4>1, NewCert
    <3> QED BY <3>1, <3>2
  <2> QED BY <2>1, <2>2, <2>3 DEF SiteOK, KeptAt
<1> QED BY <1>1, <1>2, <1>3, <1>4, NextCases
-----------------------------------------------------------------------------
(* The sites are served through the gateway, and deleted ones are off line. *)

\* What the gateway and the requests guarantee each other, whatever is published.
SitesInv == /\ Common
            /\ \A h \in Handler : RequestOK(h)
            /\ \A d \in Domain : ServedOK(d) /\ SiteOK(d)

\* The invariant of the sites holds at first.
LEMMA SitesInit == Init => SitesInv
<1> SUFFICES ASSUME Init PROVE SitesInv
  OBVIOUS
<1>1. OwnTypeOK /\ GatewayInit
  BY InitTypes
<1>2. GatewayTypeOK /\ CopyIsFresh
  <2>1. GatewayTypeOK
    BY <1>1 DEF GatewayInit, GatewayTypeOK, Idle, Call, NoGateway, Gateway
  <2>2. CopyIsFresh
    BY <1>1 DEF GatewayInit, Idle, CopyIsFresh
  <2> QED BY <2>1, <2>2
<1>3. \A h \in Handler : req[h].pc = "idle" /\ call[h].pc = "idle"
  BY <1>1 DEF Init, NoRequest, GatewayInit, Idle
<1>4. CertsOK
  BY <1>1, <1>3 DEF CertsOK, GatewayInit, NoGateway
<1>5. \A h \in Handler : PcOK(h) /\ RequestOK(h)
  BY <1>3 DEF PcOK, RequestOK, SitePc
<1>6. \A d \in Domain : Apart(d)
  BY <1>3 DEF Apart, At
<1>7. \A d \in Domain : ServedOK(d) /\ SiteOK(d)
  BY <1>1, CertOfType DEF Init, ServedOK, SiteOK, Offline, GatewayInit, NoGateway
<1> QED BY <1>1, <1>2, <1>4, <1>5, <1>6, <1>7 DEF SitesInv, Common

\* The common part of the invariants is inductive.
LEMMA CommonStep == ASSUME Common, [Next]_vars PROVE Common'
<1>1. [GatewayNext]_gwvars
  BY GatewayPart DEF Common
<1> QED BY <1>1, OwnTypeStep, GatewayTypeStep, FreshStep, CertsStep, PcStep, ApartStep DEF Common

\* The invariant of the sites is inductive.
LEMMA SitesStep == ASSUME SitesInv, [Next]_vars PROVE SitesInv'
BY CommonStep, RequestOKStep, ServedStep, SiteStep DEF SitesInv

\* The invariant of the sites always holds.
LEMMA SitesInvHolds == Spec => []SitesInv
<1>1. SitesInv /\ [Next]_vars => SitesInv'
  BY SitesStep
<1> QED BY <1>1, SitesInit, PTL DEF Spec

\* A virtual service always has the TLS server and the redirect its site needs,
\* whatever fails midway (ReadRouter to WriteVirtualService), unless requests for the
\* site met since its last push that was alone.
THEOREM SitesAreServed == Spec => []ServedThroughGateway
<1>1. SitesInv /\ RedirectHasTls => ServedThroughGateway
  BY DEF SitesInv, ServedOK, RedirectHasTls, ServedThroughGateway
<1> QED BY <1>1, SitesInvHolds, SitesFollowProtocol, RedirectsHaveTls, PTL

\* A deleted site has neither a virtual service nor entries in the gateway.
THEOREM DeletedSitesAreOffline == Spec => []DeletedIsOffline
<1>1. SitesInv => DeletedIsOffline
  <2> SUFFICES ASSUME SitesInv, NEW d \in Domain \ suspect, routers[d] = "absent", AtRest(d)
               PROVE  ~vs[d].exists /\ d \notin gateway.http /\ d \notin gateway.tls[CertOf(d)]
    BY DEF DeletedIsOffline
  <2>1. SiteOK(d)
    BY DEF SitesInv
  <2>2. ~Between(d)
    BY DEF AtRest, Active, Between, SiteRequestAt, SiteOp, Touches
  <2> QED BY <2>1, <2>2 DEF SiteOK, Offline
<1> QED BY <1>1, SitesInvHolds, PTL
-----------------------------------------------------------------------------
(* Rows, versions, and what is waiting. *)

\* No request but a deletion takes rows away, and none is said to be pushed then.
LEMMA RowsStay ==
  ASSUME NEW h \in Handler, RequestStep(h), ~Arrives(h)
  PROVE  /\ unpushed \subseteq unpushed'
         /\ rows' = rows \/ (DeleteRowsStep(h) /\ rows' = rows \ RowsOf(req[h].domain)
                             /\ req[h].domain \in unpushed')
<1>1. CASE DeleteRowsStep(h)
  BY <1>1 DEF DeleteRowsStep, DeleteRows
<1>2. CASE SiteRequest(h) /\ ~DeleteRowsStep(h)
  BY <1>2 DEF SiteRequest, Arrives, ReadRouter, DeleteVirtualService,
       LookupCertificate, GatewayStep, GatewayDone, VirtualServiceExists, WriteVirtualService,
       DeleteRouterStep, Fail, Succeed, Continue, tables, ghosts
<1>3. CASE MaintenanceRequest(h)
  BY <1>3 DEF MaintenanceRequest, Arrives, SetAppPage, ListPaths, NextPath, ReadVirtualService,
       UpdateVirtualService, Fail, Succeed, Continue, tables, ghosts
<1>4. CASE RequestFailure(h)
  BY <1>4 DEF RequestFailure, Fail, tables
<1> QED BY <1>1, <1>2, <1>3, <1>4 DEF RequestStep

\* The rows of a site change only when it gets unpushed, or by a flag.
LEMMA SiteRowsStay ==
  ASSUME NEW h \in Handler, RequestStep(h), ~Arrives(h), NEW d
  PROVE  RowsOf(d)' = RowsOf(d) \/ d \in unpushed'
BY RowsStay DEF RowsOf

\* What comes from outside changes the rows of a site only when it gets unpushed.
LEMMA OutsideRows ==
  ASSUME OutsideStep, NEW d \in Domain
  PROVE  unpushed \subseteq unpushed' /\ (RowsOf(d)' = RowsOf(d) \/ d \in unpushed')
BY DEF OutsideStep, InstallCertificate, ChangeTables, vars, tables, ghosts, RowsOf

\* Only three steps write a virtual service, that of their own site, and each makes a
\* new version of it.
Writes(h) == DeleteVirtualService(h) \/ WriteVirtualService(h) \/ UpdateVirtualService(h)

\* A virtual service only changes with its version, and by a write of a request.
LEMMA VersionStep ==
  ASSUME OwnTypeOK, NEW h \in Handler, RequestStep(h), NEW d \in Domain
  PROVE  /\ ~Writes(h) \/ d # req[h].domain => vs'[d] = vs[d]
         /\ vs'[d] = vs[d] \/ vs'[d].version = vs[d].version + 1
<1>0. /\ vs \in [Domain -> VirtualService] /\ req[h].domain \in Domain
      /\ vs[req[h].domain] \in VirtualService
  BY DEF OwnTypeOK, Request
<1> DEFINE e == req[h].domain
<1>1. CASE ~Writes(h)
  <2>1. UNCHANGED vs
    BY <1>1 DEF Writes, RequestStep, SiteRequest, StartSiteRequest, ReadRouter, LookupCertificate,
         GatewayStep, GatewayDone, VirtualServiceExists, DeleteRowsStep, DeleteRouterStep,
         MaintenanceRequest, StartMaintenance, SetAppPage, ListPaths, NextPath,
         ReadVirtualService, RequestFailure, k8s
  <2> QED BY <2>1
<1>2. CASE DeleteVirtualService(h)
  <2>1. CASE vs' = [vs EXCEPT ![e].exists = FALSE, ![e].routes = {}, ![e].version = @ + 1]
    <3>1. vs'[e] = [vs[e] EXCEPT !.exists = FALSE, !.routes = {}, !.version = @ + 1]
      BY <1>0, <2>1
    <3>2. vs'[e].version = vs[e].version + 1
      BY <1>0, <3>1 DEF VirtualService
    <3>3. \A x \in Domain : x # e => vs'[x] = vs[x]
      BY <1>0, <2>1
    <3> QED BY <1>2, <3>2, <3>3 DEF Writes
  <2>2. CASE UNCHANGED vs
    BY <2>2
  <2> QED BY <1>2, <2>1, <2>2 DEF DeleteVirtualService
<1>3. CASE WriteVirtualService(h)
  <2>1. CASE vs' = [vs EXCEPT ![e] = [exists |-> TRUE, version |-> vs[e].version + 1,
                                      routes |-> RoutesOf(req[h].rows)]]
    BY <1>0, <1>3, <2>1 DEF Writes
  <2>2. CASE UNCHANGED vs
    BY <2>2
  <2> QED BY <1>3, <2>1, <2>2 DEF WriteVirtualService
<1>4. CASE UpdateVirtualService(h)
  <2>1. CASE vs' = [vs EXCEPT ![e].version = @ + 1, ![e].routes = req[h].routes]
    <3>1. vs'[e] = [vs[e] EXCEPT !.version = @ + 1, !.routes = req[h].routes]
      BY <1>0, <2>1
    <3>2. vs'[e].version = vs[e].version + 1
      BY <1>0, <3>1 DEF VirtualService
    <3>3. \A x \in Domain : x # e => vs'[x] = vs[x]
      BY <1>0, <2>1
    <3> QED BY <1>4, <3>2, <3>3 DEF Writes
  <2>2. CASE UNCHANGED vs
    BY <2>2
  <2> QED BY <1>4, <2>1, <2>2 DEF UpdateVirtualService
<1> QED BY <1>1, <1>2, <1>3, <1>4 DEF Writes

-----------------------------------------------------------------------------
\* The primary key.
LEMMA KeysStep ==
  ASSUME OwnTypeOK, UniqueKeys, [Next]_vars
  PROVE  UniqueKeys'
<1> USE DEF UniqueKeys
<1>0. rows \subseteq Row
  BY DEF OwnTypeOK, PathsTypeOK
<1>1. ASSUME rows' \subseteq rows PROVE UniqueKeys'
  BY <1>1 DEF SameKey
<1>2. ASSUME NEW a, NEW value, FlagRows(a, value) PROVE UniqueKeys'
  <2> SUFFICES ASSUME NEW r \in rows', NEW s \in rows', SameKey(r, s) PROVE r = s
    BY DEF SameKey
  <2> DEFINE flag(x) == IF x.app = a THEN [x EXCEPT !.maintenance = value] ELSE x
  <2>1. PICK x \in rows, y \in rows : r = flag(x) /\ s = flag(y)
    BY <1>2 DEF FlagRows
  <2>2. \A z \in rows : flag(z).domain = z.domain /\ flag(z).path = z.path /\ flag(z).app = z.app
    BY <1>0 DEF Row
  <2> HIDE DEF flag
  <2>3. SameKey(x, y)
    BY <2>1, <2>2 DEF SameKey
  <2> QED BY <2>1, <2>3
<1>3. ASSUME ChangeTables PROVE UniqueKeys'
  <2>1. ASSUME NEW d \in Domain, NEW kind \in Kind, CreateRouter(d, kind) PROVE UniqueKeys'
    BY <1>1, <2>1 DEF CreateRouter
  <2>2. ASSUME NEW d \in Domain, NEW p \in Path, NEW a \in App, CheckPath(d, p, a) PROVE UniqueKeys'
    BY <1>1, <2>2 DEF CheckPath
  <2>3. ASSUME NEW r \in adding, InsertPath(r) PROVE UniqueKeys'
    BY <2>3 DEF InsertPath, SameKey
  <2>4. ASSUME NEW d \in Domain, NEW p \in Path, DeletePath(d, p) PROVE UniqueKeys'
    BY <1>1, <2>4 DEF DeletePath
  <2>5. ASSUME NEW d \in Domain, NEW p \in Path, NEW a \in App, UpdatePath(d, p, a) PROVE UniqueKeys'
    <3> DEFINE old == {r \in RowsOf(d) : r.path = p}
    <3>1. PICK q \in old : old = {q}
      BY <2>5 DEF UpdatePath
    <3>2. rows' = (rows \ old) \union {[r EXCEPT !.app = a] : r \in old}
      BY <2>5 DEF UpdatePath
    <3>3. q \in rows /\ q.domain = d /\ q.path = p
      BY <3>1 DEF RowsOf
    <3>4. \A r \in rows \ {q} : ~(r.domain = d /\ r.path = p)
      BY <3>1 DEF RowsOf
    <3>5. [q EXCEPT !.app = a].domain = d /\ [q EXCEPT !.app = a].path = p
      BY <1>0, <3>3 DEF Row
    <3>6. rows' = (rows \ {q}) \union {[q EXCEPT !.app = a]}
      BY <3>1, <3>2
    <3> QED BY <3>4, <3>5, <3>6 DEF SameKey
  <2> QED BY <1>3, <2>1, <2>2, <2>3, <2>4, <2>5 DEF ChangeTables, PathsNext
<1>4. ASSUME NEW h \in Handler, Arrives(h) PROVE UniqueKeys'
  BY <1>1, <1>2, <1>4 DEF Arrives, StartSiteRequest, StartMaintenance, tables
<1>5. ASSUME NEW h \in Handler, RequestStep(h), ~Arrives(h) PROVE UniqueKeys'
  BY <1>1, <1>5, RowsStay
<1>6. ASSUME OutsideStep, ~ChangeTables PROVE UniqueKeys'
  BY <1>1, <1>6 DEF OutsideStep, InstallCertificate, vars, tables
<1> QED BY <1>3, <1>4, <1>5, <1>6, NextCases

-----------------------------------------------------------------------------
\* The rows a push has read.
LEMMA PushStep ==
  ASSUME Common, [Next]_vars, NEW o \in Handler, PushOK(o)
  PROVE  PushOK(o)'
<1>a. OwnTypeOK
  BY DEF Common
<1>0. PICK d \in Domain : req[o].domain = d
  BY <1>a DEF OwnTypeOK, Request
<1>1. ASSUME NEW h \in Handler, NEW op \in {"push", "delete"}, NEW e \in Domain,
             StartSiteRequest(h, op, e)
      PROVE  PushOK(o)'
  <2>1. PICK r \in Request : Arrive(h, r) /\ r.alone /\ Touches(r) = {e} /\ r.op = op
                             /\ r.domain = e /\ r.rows = RowsOf(e)
    BY <1>a, <1>1, StartSiteRequestStep
  <2>2. rows' = rows /\ unpushed \ {e} \subseteq unpushed'
    BY <1>1 DEF StartSiteRequest, tables
  <2>3. CASE o = h
    <3>1. req'[h].domain = e /\ req'[h].rows = RowsOf(e)
      BY <1>a, <2>1, ArriveStep DEF Like
    <3> QED BY <2>2, <2>3, <3>1 DEF PushOK, RowsOf
  <2>4. CASE o # h
    <3>1. Like(req'[o], req[o])
      BY <1>a, <2>1, <2>4, ArriveStep
    <3>2. At(o, d) /\ e = d => ~req'[o].alone
      BY <1>a, <1>0, <2>1, ArriveStep
    <3>3. req[o].pc # "idle" /\ req[o].op = "push" => At(o, d)
      BY <1>0 DEF At, Touches
    <3> QED BY <1>0, <2>2, <3>1, <3>2, <3>3 DEF PushOK, Like, RowsOf
  <2> QED BY <2>3, <2>4
<1>2. ASSUME NEW h \in Handler, NEW op \in {"enable", "disable"}, NEW a \in App,
             StartMaintenance(h, op, a)
      PROVE  PushOK(o)'
  <2>1. PICK r \in Request : Arrive(h, r) /\ r.alone /\ Touches(r) = Domain /\ r.op = op
    BY <1>a, <1>2, StartMaintenanceStep
  <2>2. CASE o = h
    BY <1>a, <2>1, <2>2, ArriveStep DEF Like, PushOK
  <2>3. CASE o # h
    <3>1. Like(req'[o], req[o])
      BY <1>a, <2>1, <2>3, ArriveStep
    <3>2. At(o, d) => ~req'[o].alone
      BY <1>a, <1>0, <2>1, ArriveStep
    <3>3. req[o].pc # "idle" /\ req[o].op = "push" => At(o, d)
      BY <1>0 DEF At, Touches
    <3> QED BY <3>1, <3>2, <3>3 DEF PushOK, Like
  <2> QED BY <2>2, <2>3
<1>3. ASSUME NEW h \in Handler, RequestStep(h), ~Arrives(h) PROVE PushOK(o)'
  <2>1. Moves(h)
    BY <1>3, RequestMoves DEF Common
  <2>2. req'[o].pc # "idle" => /\ req'[o].op = req[o].op /\ req'[o].rows = req[o].rows
                               /\ req'[o].alone = req[o].alone /\ req[o].pc # "idle"
                               /\ req[o].op = "push" => req'[o].domain = d
    BY <1>0, <2>1 DEF Moves, GoesOn, Ends, NoRequest, SiteOp
  <2>3. unpushed \subseteq unpushed' /\ (RowsOf(d)' = RowsOf(d) \/ d \in unpushed')
    BY <1>3, RowsStay, SiteRowsStay
  <2> QED BY <1>0, <2>2, <2>3 DEF PushOK, RowsOf
<1>4. ASSUME OutsideStep PROVE PushOK(o)'
  <2>1. req' = req /\ unpushed \subseteq unpushed' /\ (RowsOf(d)' = RowsOf(d) \/ d \in unpushed')
    BY <1>0, <1>4, OutsideKeepsRequests, OutsideRows
  <2> QED BY <1>0, <2>1 DEF PushOK, RowsOf
<1> QED BY <1>1, <1>2, <1>3, <1>4, NextCases DEF Arrives

-----------------------------------------------------------------------------
\* The edit a maintenance request is about to put.
LEMMA OwnEdit ==
  ASSUME Common, NEW h \in Handler, RequestStep(h), ~Arrives(h), req'[h].pc = "put"
  PROVE  /\ ReadVirtualService(h) /\ vs[req[h].domain].exists
         /\ req'[h] = [req[h] EXCEPT !.pc = "put", !.version = vs[req[h].domain].version,
              !.routes = WithPage(vs[req[h].domain].routes, req[h].path, req[h].app, Value(h))]
<1> USE DEF Common
<1>0. req[h] \in Request /\ req \in [Handler -> Request]
  BY DEF OwnTypeOK
<1>1. ~SiteRequest(h)
  <2>1. ASSUME GatewayStep(h) PROVE req'[h].pc = "gateway"
    BY <2>1, StepIsEdit DEF GatewayStep, PcOK
  <2>2. ASSUME VirtualServiceExists(h) PROVE req'[h].pc = "write"
    BY <1>0, <2>2 DEF VirtualServiceExists, Request
  <2>3. ASSUME DeleteRowsStep(h) PROVE req'[h].pc = "row"
    BY <1>0, <2>3 DEF DeleteRowsStep, Moved, Request
  <2>4. ASSUME ReadRouter(h) PROVE req'[h].pc \in {"idle", "certificate", "unpublish"}
    BY <2>4, PcAfter DEF ReadRouter
  <2>5. ASSUME DeleteVirtualService(h) PROVE req'[h].pc \in {"idle", "certificate", "rows"}
    BY <2>5, PcAfter DEF DeleteVirtualService
  <2>6. ASSUME LookupCertificate(h) PROVE req'[h].pc = "gateway"
    BY <2>6, PcAfter DEF LookupCertificate
  <2>7. ASSUME GatewayDone(h) PROVE req'[h].pc \in {"idle", "exists", "rows"}
    BY <2>7, PcAfter DEF GatewayDone
  <2>8. ASSUME WriteVirtualService(h) \/ DeleteRouterStep(h) PROVE req'[h].pc = "idle"
    BY <2>8, PcAfter DEF WriteVirtualService, DeleteRouterStep
  <2> QED BY <2>1, <2>2, <2>3, <2>4, <2>5, <2>6, <2>7, <2>8 DEF SiteRequest, Arrives
<1>2. ~RequestFailure(h)
  BY PcAfter DEF RequestFailure
<1>3. ASSUME SetAppPage(h) PROVE FALSE
  BY <1>3, PcAfter DEF SetAppPage
<1>4. ASSUME ListPaths(h) PROVE FALSE
  BY <1>0, <1>4 DEF ListPaths, Request
<1>5. ASSUME NextPath(h) PROVE FALSE
  <2>1. ASSUME NEW t, req' = [req EXCEPT ![h].pc = "read", ![h].todo = @ \ {t}, ![h].tries = 0,
                                         ![h].domain = t.domain, ![h].path = t.path]
        PROVE  FALSE
    <3>1. req'[h] = [req[h] EXCEPT !.pc = "read", !.todo = @ \ {t}, !.tries = 0,
                                   !.domain = t.domain, !.path = t.path]
      BY <1>0, <2>1
    <3> QED BY <1>0, <3>1 DEF Request
  <2> QED BY <1>5, <2>1, PcAfter DEF NextPath
<1>6. ASSUME UpdateVirtualService(h) PROVE FALSE
  <2>1. ASSUME req' = [req EXCEPT ![h].pc = "read", ![h].tries = @ + 1] PROVE FALSE
    <3>1. req'[h] = [req[h] EXCEPT !.pc = "read", !.tries = @ + 1]
      BY <1>0, <2>1
    <3> QED BY <1>0, <3>1 DEF Request
  <2> QED BY <1>6, <2>1, PcAfter DEF UpdateVirtualService
<1>7. ReadVirtualService(h)
  BY <1>1, <1>2, <1>3, <1>4, <1>5, <1>6 DEF RequestStep, MaintenanceRequest, Arrives
<1>8. CASE req' = Moved(h, "next")
  BY <1>0, <1>8 DEF Moved, Request
<1>9. CASE req' # Moved(h, "next")
  BY <1>0, <1>7, <1>9 DEF ReadVirtualService
<1> QED BY <1>8, <1>9

\* Every step keeps EditOK.
LEMMA EditStep ==
  ASSUME Common, [Next]_vars, NEW o \in Handler, EditOK(o)
  PROVE  EditOK(o)'
<1> USE DEF Common
<1>0. PICK d \in Domain : req[o].domain = d
  BY DEF OwnTypeOK, Request
<1>1. req[o].version \in Nat /\ vs[d].version \in Nat
  BY <1>0 DEF OwnTypeOK, Request, VirtualService
<1>2. ASSUME Like(req'[o], req[o]), vs'[d] = vs[d] \/ vs'[d].version = vs[d].version + 1
      PROVE  EditOK(o)'
  <2> SUFFICES ASSUME req'[o].pc = "put"
               PROVE  /\ req'[o].version <= vs'[d].version
                      /\ vs'[d].version = req'[o].version =>
                           req'[o].routes = WithPage(vs'[d].routes, req'[o].path, req'[o].app, Value(o)')
    BY <1>0, <1>2 DEF EditOK, Like
  <2>1. /\ req[o].pc = "put" /\ req'[o].version = req[o].version /\ req'[o].routes = req[o].routes
        /\ req'[o].path = req[o].path /\ req'[o].app = req[o].app /\ Value(o)' = Value(o)
    BY <1>2 DEF Like, Value
  <2>2. CASE vs'[d] = vs[d]
    BY <1>0, <2>1, <2>2 DEF EditOK
  <2>3. CASE vs'[d].version = vs[d].version + 1
    <3>1. req[o].version <= vs[d].version
      BY <1>0, <2>1 DEF EditOK
    <3>2. req[o].version <= vs'[d].version /\ vs'[d].version # req[o].version
      BY <1>1, <2>3, <3>1
    <3> QED BY <2>1, <3>2
  <2> QED BY <1>2, <2>2, <2>3
<1>3. ASSUME NEW h \in Handler, Arrives(h) PROVE EditOK(o)'
  <2>1. CASE o # h
    BY <1>2, <1>3, <2>1, OthersStay DEF k8s
  <2>2. CASE o = h
    <3>1. ASSUME NEW op \in {"push", "delete"}, NEW e \in Domain, StartSiteRequest(h, op, e)
          PROVE  req'[h].pc # "put"
      <4>1. PICK r \in Request : Arrive(h, r) /\ r.alone /\ r.pc = "router"
        BY <3>1, StartSiteRequestStep
      <4> QED BY <4>1, ArriveStep DEF Like
    <3>2. ASSUME NEW op \in {"enable", "disable"}, NEW a \in App, StartMaintenance(h, op, a)
          PROVE  req'[h].pc # "put"
      <4>1. PICK r \in Request : Arrive(h, r) /\ r.alone /\ r.pc = "app"
        BY <3>2, StartMaintenanceStep
      <4> QED BY <4>1, ArriveStep DEF Like
    <3> QED BY <1>3, <2>2, <3>1, <3>2 DEF Arrives, EditOK
  <2> QED BY <2>1, <2>2
<1>4. ASSUME NEW h \in Handler, RequestStep(h), ~Arrives(h) PROVE EditOK(o)'
  <2>1. CASE o # h
    BY <1>2, <1>4, <2>1, RequestMoves, VersionStep, SameIsLike DEF Moves
  <2>2. CASE o = h /\ req'[h].pc = "put"
    <3>1. /\ ReadVirtualService(h)
          /\ req'[h] = [req[h] EXCEPT !.pc = "put", !.version = vs[d].version,
                          !.routes = WithPage(vs[d].routes, req[h].path, req[h].app, Value(h))]
      BY <1>0, <1>4, <2>2, OwnEdit
    <3>2. req[h] \in Request
      BY DEF OwnTypeOK
    <3>3. /\ req'[h].domain = d /\ req'[h].version = vs[d].version /\ Value(h)' = Value(h)
          /\ req'[h].routes = WithPage(vs[d].routes, req'[h].path, req'[h].app, Value(h))
      BY <1>0, <2>2, <3>1, <3>2 DEF Request, Value
    <3>4. UNCHANGED vs
      BY <3>1 DEF ReadVirtualService, k8s
    <3> QED BY <1>1, <2>2, <3>3, <3>4 DEF EditOK
  <2>3. CASE o = h /\ req'[h].pc # "put"
    BY <2>3 DEF EditOK
  <2> QED BY <2>1, <2>2, <2>3
<1>5. ASSUME OutsideStep PROVE EditOK(o)'
  BY <1>2, <1>5, OutsideKeepsRequests, SameIsLike
<1> QED BY <1>3, <1>4, <1>5, NextCases
-----------------------------------------------------------------------------
(* The paths that are waiting. *)

\* For a request that stays and a site whose rows stay, the same paths are waiting.
LEMMA WaitingLike ==
  ASSUME NEW o, NEW d, NEW p, Like(req'[o], req[o]), RowsOf(d)' = RowsOf(d)
  PROVE  /\ Waiting(o, d, p)' <=> Waiting(o, d, p)
         /\ req'[o].app = req[o].app
<1>1. \A a : (\E s \in RowsOfApp(a) : s.domain = d /\ s.path = p)
               <=> \E s \in RowsOf(d) : s.app = a /\ s.path = p
  BY DEF RowsOfApp, RowsOf
<1>2. \A a : (\E s \in {r \in rows' : r.app = a} : s.domain = d /\ s.path = p)
               <=> \E s \in RowsOf(d)' : s.app = a /\ s.path = p
  BY DEF RowsOf
<1>3. /\ req'[o].pc = req[o].pc /\ req'[o].todo = req[o].todo /\ req'[o].app = req[o].app
      /\ req'[o].domain = req[o].domain /\ req'[o].path = req[o].path /\ SiteOp(o)' = SiteOp(o)
  BY DEF Like, SiteOp
<1>4. (\E s \in RowsOfApp(req[o].app)' : s.domain = d /\ s.path = p)
        <=> \E s \in RowsOfApp(req[o].app) : s.domain = d /\ s.path = p
  BY <1>1, <1>2, <1>3 DEF RowsOfApp
<1> QED BY <1>3, <1>4 DEF Waiting

\* What a maintenance request does to the paths that wait for it: one is done with
\* when its virtual service was put, or when there is nothing to put.
PageSet(h, d) ==
  /\ UpdateVirtualService(h) /\ req[h].domain = d
  /\ vs[d].exists /\ vs[d].version = req[h].version
  /\ vs' = [vs EXCEPT ![d].version = @ + 1, ![d].routes = req[h].routes]

\* A path stops waiting when its page is set, or has no route to set it on.
LEMMA WaitingStep ==
  ASSUME Common, NEW h \in Handler, MaintenanceRequest(h), ~Arrives(h), ~Fail(h),
         NEW d \in Domain, NEW p \in Path
  PROVE  /\ Waiting(h, d, p)' => Waiting(h, d, p)
         /\ Waiting(h, d, p) => \/ Waiting(h, d, p)' /\ req'[h].app = req[h].app
                                \/ vs[d].exists => \A x \in vs[d].routes : x.path # p
                                \/ PageSet(h, d) /\ req[h].path = p
<1>0. /\ req[h] \in Request /\ req \in [Handler -> Request] /\ req[h].todo \subseteq Todo
      /\ PcOK(h)
  BY DEF Common, OwnTypeOK, Request
<1>1. rows' = rows
  <2>1. ~DeleteRowsStep(h)
    BY <1>0 DEF DeleteRowsStep, PcOK, SitePc, MaintenanceRequest, Arrives, SetAppPage, ListPaths,
                NextPath, ReadVirtualService, UpdateVirtualService
  <2> QED BY <2>1, RowsStay DEF RequestStep
<1>2. ~SiteOp(h)
  BY <1>0 DEF PcOK, SitePc, MaintenanceRequest, Arrives, SetAppPage, ListPaths,
              NextPath, ReadVirtualService, UpdateVirtualService
<1>3. \A a : RowsOfApp(a)' = {r \in rows : r.app = a}
  BY <1>1 DEF RowsOfApp
<1> DEFINE Listed == \E s \in RowsOfApp(req[h].app) : s.domain = d /\ s.path = p
           ToDo == [domain |-> d, path |-> p] \in req[h].todo
           Here == req[h].domain = d /\ req[h].path = p
<1>4. Waiting(h, d, p) <=> /\ req[h].pc # "idle"
                           /\ \/ req[h].pc \in {"app", "list"} /\ Listed
                              \/ req[h].pc \in {"next", "read", "put"} /\ ToDo
                              \/ req[h].pc \in {"read", "put"} /\ Here
  BY <1>2 DEF Waiting
<1>5. SetAppPage(h) => Continue(h, "list") /\ req[h].pc = "app"
  BY DEF SetAppPage
<1>6. CASE SetAppPage(h)
  <2>1. req'[h] = [req[h] EXCEPT !.pc = "list"]
    BY <1>5, <1>6, ContinueGoesOn DEF Common
  <2>2. /\ req'[h].pc = "list" /\ req'[h].app = req[h].app /\ req'[h].op = req[h].op
        /\ req'[h].todo = req[h].todo
    BY <1>0, <2>1 DEF Request
  <2>3. Waiting(h, d, p)' <=> Listed
    BY <1>1, <1>2, <2>2 DEF Waiting, SiteOp, RowsOfApp
  <2> QED BY <1>4, <1>5, <1>6, <2>2, <2>3
<1>7. CASE ListPaths(h)
  <2> DEFINE todo == {[domain |-> r.domain, path |-> r.path] : r \in RowsOfApp(req[h].app)}
  <2>1. req'[h] = [req[h] EXCEPT !.pc = "next", !.todo = todo] /\ req[h].pc = "list"
    BY <1>0, <1>7 DEF ListPaths
  <2>2. [domain |-> d, path |-> p] \in todo <=> Listed
    <3>1. \A r \in RowsOfApp(req[h].app) :
            [domain |-> d, path |-> p] = [domain |-> r.domain, path |-> r.path]
              <=> r.domain = d /\ r.path = p
      OBVIOUS
    <3> QED BY <3>1
  <2> HIDE DEF todo
  <2>3. /\ req'[h].pc = "next" /\ req'[h].app = req[h].app /\ req'[h].op = req[h].op
        /\ req'[h].todo = todo
    BY <1>0, <2>1 DEF Request
  <2>4. Waiting(h, d, p)' <=> Listed
    BY <1>2, <2>2, <2>3 DEF Waiting, SiteOp
  <2> QED BY <1>4, <2>1, <2>3, <2>4
<1>8. CASE NextPath(h)
  <2>1. CASE req[h].todo = {} /\ Succeed(h)
    <3>1. ~Waiting(h, d, p)
      BY <1>4, <1>8, <2>1 DEF NextPath
    <3>2. ~Waiting(h, d, p)'
      BY <2>1, PcAfter DEF Waiting, Common
    <3> QED BY <3>1, <3>2
  <2>2. ASSUME NEW t \in req[h].todo,
               req' = [req EXCEPT ![h].pc = "read", ![h].todo = @ \ {t}, ![h].tries = 0,
                                  ![h].domain = t.domain, ![h].path = t.path]
        PROVE  (Waiting(h, d, p)' <=> Waiting(h, d, p)) /\ req'[h].app = req[h].app
    <3>1. req'[h] = [req[h] EXCEPT !.pc = "read", !.todo = @ \ {t}, !.tries = 0,
                                   !.domain = t.domain, !.path = t.path]
      BY <1>0, <2>2
    <3>2. /\ req'[h].pc = "read" /\ req'[h].app = req[h].app /\ req'[h].op = req[h].op
          /\ req'[h].todo = req[h].todo \ {t} /\ req'[h].domain = t.domain /\ req'[h].path = t.path
      BY <1>0, <3>1 DEF Request
    <3>3. t = [domain |-> d, path |-> p] <=> t.domain = d /\ t.path = p
      BY <1>0 DEF Todo
    <3>4. Waiting(h, d, p)' <=> ToDo
      BY <1>2, <3>2, <3>3 DEF Waiting, SiteOp
    <3>5. Waiting(h, d, p) <=> ToDo
      BY <1>4, <1>8 DEF NextPath
    <3> QED BY <3>2, <3>4, <3>5
  <2> QED BY <1>8, <2>1, <2>2 DEF NextPath
<1>9. CASE ReadVirtualService(h)
  <2>1. CASE vs[req[h].domain].exists /\ \E r \in vs[req[h].domain].routes : r.path = req[h].path
    <3> DEFINE edited == WithPage(vs[req[h].domain].routes, req[h].path, req[h].app, Value(h))
               version == vs[req[h].domain].version
    <3>1. req'[h] = [req[h] EXCEPT !.pc = "put", !.version = version, !.routes = edited]
      BY <1>0, <1>9, <2>1 DEF ReadVirtualService
    <3> HIDE DEF edited, version
    <3>2. /\ req'[h].pc = "put" /\ req'[h].app = req[h].app /\ req'[h].op = req[h].op
          /\ req'[h].todo = req[h].todo /\ req'[h].domain = req[h].domain
          /\ req'[h].path = req[h].path
      BY <1>0, <3>1 DEF Request
    <3>3. Waiting(h, d, p)' <=> ToDo \/ Here
      BY <1>2, <3>2 DEF Waiting, SiteOp
    <3> QED BY <1>4, <1>9, <3>2, <3>3 DEF ReadVirtualService
  <2>2. CASE ~(vs[req[h].domain].exists /\ \E r \in vs[req[h].domain].routes : r.path = req[h].path)
    <3>1. req'[h] = [req[h] EXCEPT !.pc = "next"]
      BY <1>0, <1>9, <2>2 DEF ReadVirtualService, Moved
    <3>2. /\ req'[h].pc = "next" /\ req'[h].app = req[h].app /\ req'[h].op = req[h].op
          /\ req'[h].todo = req[h].todo
      BY <1>0, <3>1 DEF Request
    <3>3. Waiting(h, d, p)' <=> ToDo
      BY <1>2, <3>2 DEF Waiting, SiteOp
    <3> QED BY <1>4, <1>9, <2>2, <3>2, <3>3 DEF ReadVirtualService
  <2> QED BY <2>1, <2>2
<1>10. CASE UpdateVirtualService(h)
  <2>1. CASE Continue(h, "next")
    <3>1. req'[h] = [req[h] EXCEPT !.pc = "next"]
      BY <2>1, ContinueGoesOn DEF Common
    <3>2. /\ req'[h].pc = "next" /\ req'[h].app = req[h].app /\ req'[h].op = req[h].op
          /\ req'[h].todo = req[h].todo
      BY <1>0, <3>1 DEF Request
    <3>3. Waiting(h, d, p)' <=> ToDo
      BY <1>2, <3>2 DEF Waiting, SiteOp
    <3>4. req[h].domain = d => PageSet(h, d)
      <4>1. req'[h].pc # "read"
        BY <3>2
      <4>2. ASSUME req' = [req EXCEPT ![h].pc = "read", ![h].tries = @ + 1] PROVE FALSE
        <5>1. req'[h] = [req[h] EXCEPT !.pc = "read", !.tries = @ + 1]
          BY <1>0, <4>2
        <5> QED BY <1>0, <4>1, <5>1 DEF Request
      <4> QED BY <1>10, <4>2 DEF UpdateVirtualService, PageSet
    <3> QED BY <1>4, <1>10, <3>2, <3>3, <3>4 DEF UpdateVirtualService
  <2>2. CASE req' = [req EXCEPT ![h].pc = "read", ![h].tries = @ + 1]
    <3>1. req'[h] = [req[h] EXCEPT !.pc = "read", !.tries = @ + 1]
      BY <1>0, <2>2
    <3>2. /\ req'[h].pc = "read" /\ req'[h].app = req[h].app /\ req'[h].op = req[h].op
          /\ req'[h].todo = req[h].todo /\ req'[h].domain = req[h].domain
          /\ req'[h].path = req[h].path
      BY <1>0, <3>1 DEF Request
    <3>3. Waiting(h, d, p)' <=> ToDo \/ Here
      BY <1>2, <3>2 DEF Waiting, SiteOp
    <3> QED BY <1>4, <1>10, <3>2, <3>3 DEF UpdateVirtualService
  <2> QED BY <1>10, <2>1, <2>2 DEF UpdateVirtualService
<1> QED BY <1>6, <1>7, <1>8, <1>9, <1>10 DEF MaintenanceRequest, Arrives
-----------------------------------------------------------------------------
(* The flags in the rows. *)

\* A maintenance request works on every site.
LEMMA AtEverySite ==
  ASSUME NEW o, NEW d \in Domain, req[o].pc # "idle", ~SiteOp(o)
  PROVE  At(o, d)
BY DEF At, SiteOp, Touches

\* FlagsOK stays as long as the rows and the request do.
LEMMA FlagsKept ==
  ASSUME NEW o, NEW d, d \notin suspect, d \notin unpushed, FlagsOK(o, d),
         Like(req'[o], req[o]), RowsOf(d)' = RowsOf(d)
  PROVE  FlagsOK(o, d)'
<1>1. req'[o].pc = req[o].pc /\ SiteOp(o)' = SiteOp(o) /\ Value(o)' = Value(o) /\ req'[o].app = req[o].app
  BY DEF Like, SiteOp, Value
<1>2. \A p \in Path : Waiting(o, d, p)' <=> Waiting(o, d, p)
  BY WaitingLike
<1> QED BY <1>1, <1>2 DEF FlagsOK

\* A step after which a site with a second request is not suspect did not clear it.
LEMMA ClearsNothing ==
  ASSUME Common, NEW h \in Handler, Moves(h), NEW o \in Handler, o # h, NEW d \in Domain,
         At(o, d), d \notin suspect'
  PROVE  d \notin suspect
<1>1. At(h, d) => ~req[h].alone
  BY DEF Common, Apart
<1>2. Clears(h) => At(h, req[h].domain) /\ req[h].alone
  BY DEF Clears, Publishing, Moves, At, Touches
<1> QED BY <1>1, <1>2 DEF Moves, GoesOn, Ends, Clears

\* Every step keeps FlagsOK.
LEMMA FlagsStep ==
  ASSUME Common, [Next]_vars, NEW o \in Handler, NEW d \in Domain, FlagsOK(o, d)
  PROVE  FlagsOK(o, d)'
<1>a. OwnTypeOK
  BY DEF Common
<1> SUFFICES ASSUME req'[o].pc # "idle", ~SiteOp(o)', d \notin suspect', d \notin unpushed'
             PROVE  FlagsOK(o, d)'
  BY DEF FlagsOK
<1>1. ASSUME NEW h \in Handler, NEW op \in {"push", "delete"}, NEW e \in Domain,
             StartSiteRequest(h, op, e)
      PROVE  FlagsOK(o, d)'
  <2>1. PICK r \in Request : Arrive(h, r) /\ r.alone /\ Touches(r) = {e} /\ r.op = op
    BY <1>a, <1>1, StartSiteRequestStep
  <2>2. o # h
    BY <1>a, <2>1, ArriveStep DEF Like, SiteOp
  <2>3. Like(req'[o], req[o]) /\ suspect \subseteq suspect'
    BY <1>a, <2>1, <2>2, ArriveStep
  <2>4. At(o, d)
    BY <2>3, AtEverySite DEF Like, SiteOp
  <2>5. d # e
    BY <1>a, <2>1, <2>4, ArriveStep
  <2>6. rows' = rows /\ unpushed \ {e} \subseteq unpushed'
    BY <1>1 DEF StartSiteRequest, tables
  <2> QED BY <2>3, <2>5, <2>6, FlagsKept DEF RowsOf
<1>2. ASSUME NEW h \in Handler, NEW op \in {"enable", "disable"}, NEW a \in App,
             StartMaintenance(h, op, a)
      PROVE  FlagsOK(o, d)'
  <2>1. PICK r \in Request : /\ Arrive(h, r) /\ r.alone /\ Touches(r) = Domain /\ r.pc = "app"
                             /\ r.op = op /\ r.app = a /\ r.todo = {}
    BY <1>a, <1>2, StartMaintenanceStep
  <2>2. o = h
    <3>1. ASSUME o # h PROVE FALSE
      <4>1. Like(req'[o], req[o])
        BY <1>a, <2>1, <3>1, ArriveStep
      <4>2. At(o, d)
        BY <4>1, AtEverySite DEF Like, SiteOp
      <4> QED BY <1>a, <2>1, <4>2, ArriveStep
    <3> QED BY <3>1
  <2>3. req'[h].pc = "app" /\ req'[h].op = op /\ req'[h].app = a
    BY <1>a, <2>1, ArriveStep DEF Like
  <2>4. rows' = {IF s.app = a THEN [s EXCEPT !.maintenance = (op = "enable")] ELSE s : s \in rows}
    BY <1>2 DEF StartMaintenance, FlagRows
  <2>5. \A s \in rows' : s.app = a => s.maintenance = (op = "enable")
    BY <1>a, <2>4 DEF OwnTypeOK, PathsTypeOK, Row
  <2>6. \A p \in Path : Waiting(h, d, p)' => \E s \in rows' : s.app = a /\ s.domain = d /\ s.path = p
    BY <2>3 DEF Waiting, RowsOfApp
  <2>7. Value(h)' = (op = "enable")
    BY <2>3 DEF Value
  <2> QED BY <2>2, <2>3, <2>5, <2>6, <2>7 DEF FlagsOK, RowsOf
<1>3. ASSUME NEW h \in Handler, RequestStep(h), ~Arrives(h) PROVE FlagsOK(o, d)'
  <2>1. Moves(h)
    BY <1>3, RequestMoves DEF Common
  <2>2. RowsOf(d)' = RowsOf(d) /\ d \notin unpushed
    BY <1>3, RowsStay, SiteRowsStay
  <2>3. CASE o # h
    <3>1. req'[o] = req[o]
      BY <2>1, <2>3 DEF Moves
    <3>2. At(o, d)
      BY <3>1, AtEverySite DEF SiteOp
    <3>3. d \notin suspect
      BY <2>1, <2>3, <3>2, ClearsNothing
    <3> QED BY <2>2, <3>1, <3>3, FlagsKept, SameIsLike
  <2>4. CASE o = h
    <3>1. GoesOn(h)
      BY <2>1, <2>4 DEF Moves, Ends, NoRequest
    <3>2. /\ req'[h].app = req[h].app /\ Value(h)' = Value(h) /\ ~SiteOp(h) /\ d \notin suspect
          /\ req[h].pc # "idle"
      BY <2>1, <2>4, <3>1 DEF GoesOn, SiteOp, Value, Moves
    <3>3. MaintenanceRequest(h)
      <4>1. req[h].pc \notin SitePc
        BY <3>2 DEF Common, PcOK
      <4>2. ~SiteRequest(h)
        <5>1. ~GatewayStep(h) /\ ~GatewayDone(h)
          BY <4>1, StepIsEdit DEF Common, GatewayStep, GatewayDone, Return, PcOK, SitePc
        <5> QED BY <1>3, <4>1, <5>1 DEF SiteRequest, Arrives, ReadRouter, DeleteVirtualService,
              LookupCertificate, VirtualServiceExists, WriteVirtualService, DeleteRowsStep,
              DeleteRouterStep, SitePc
      <4>3. ~RequestFailure(h)
        BY <2>4, <1>a, PcAfter DEF RequestFailure
      <4> QED BY <1>3, <4>2, <4>3 DEF RequestStep
    <3>4. ~Fail(h)
      BY <2>4, <1>a, PcAfter
    <3>5. \A p \in Path : Waiting(h, d, p)' => Waiting(h, d, p)
      BY <1>3, <3>3, <3>4, WaitingStep
    <3> QED BY <2>2, <2>4, <3>2, <3>5 DEF FlagsOK
  <2> QED BY <2>3, <2>4
<1>4. ASSUME OutsideStep PROVE FlagsOK(o, d)'
  <2>1. UNCHANGED <<req, suspect>> /\ d \notin unpushed /\ RowsOf(d)' = RowsOf(d)
    BY <1>4, OutsideKeepsRequests, OutsideRows
  <2> QED BY <2>1, FlagsKept, SameIsLike
<1> QED BY <1>1, <1>2, <1>3, <1>4, NextCases DEF Arrives

-----------------------------------------------------------------------------
(* The routes of a site. *)

\* The routes stay as the table has them when both stay, and what is waiting does too.
LEMMA TableKept ==
  ASSUME OwnTypeOK, NEW d, AsTable(d), vs'[d].routes = vs[d].routes, RowsOf(d)' = RowsOf(d),
         \A o \in Handler, p \in Path : Waiting(o, d, p) =>
           \/ Waiting(o, d, p)' /\ req'[o].app = req[o].app
           \/ \A x \in vs[d].routes : x.path # p
  PROVE  AsTable(d)'
<1>1. \A r \in RowsOf(d) : r.path \in Path
  BY DEF OwnTypeOK, PathsTypeOK, RowsOf, Row
<1>2. ASSUME NEW x \in vs'[d].routes
      PROVE  \E r \in RowsOf(d)' :
               /\ r.path = x.path
               /\ x = RouteTo(r) \/ \E o \in Handler : Waiting(o, d, r.path)' /\ req'[o].app = r.app
  <2>1. PICK r \in RowsOf(d) :
               /\ r.path = x.path
               /\ x = RouteTo(r) \/ \E o \in Handler : Waiting(o, d, r.path) /\ req[o].app = r.app
    BY <1>2 DEF AsTable
  <2>2. CASE x = RouteTo(r)
    BY <2>1, <2>2
  <2>3. ASSUME NEW o \in Handler, Waiting(o, d, r.path), req[o].app = r.app
        PROVE  Waiting(o, d, r.path)' /\ req'[o].app = r.app
    BY <1>1, <1>2, <2>1, <2>3
  <2> QED BY <2>1, <2>2, <2>3
<1>3. \A r \in RowsOf(d)' : \E x \in vs'[d].routes : x.path = r.path
  BY DEF AsTable
<1> QED BY <1>2, <1>3 DEF AsTable, RouteTo

\* A push writes the routes of the rows.
LEMMA PushWrites ==
  ASSUME NEW d, vs'[d].routes = RoutesOf(RowsOf(d)), RowsOf(d)' = RowsOf(d)
  PROVE  AsTable(d)'
<1>1. RoutesOf(RowsOf(d)) = {RouteTo(r) : r \in RowsOf(d)}
  BY DEF RoutesOf, RouteTo
<1>2. \A r \in RowsOf(d) : RouteTo(r).path = r.path
  BY DEF RouteTo
<1>3. \A r \in RowsOf(d) : \E x \in vs'[d].routes : x.path = r.path
  BY <1>1, <1>2
<1>4. \A x \in vs'[d].routes : \E r \in RowsOf(d) : r.path = x.path /\ x = RouteTo(r)
  BY <1>1, <1>2
<1> QED BY <1>3, <1>4 DEF AsTable, RouteTo

\* A maintenance request sets the page, or takes it away, on the path it has come to.
LEMMA PageWrites ==
  ASSUME Common, NEW h \in Handler, MaintenanceRequest(h), ~Arrives(h), NEW d \in Domain,
         PageSet(h, d), EditOK(h), FlagsOK(h, d), d \notin suspect, d \notin unpushed,
         OneAppPerPath(d), AsTable(d), RowsOf(d)' = RowsOf(d),
         \A o \in Handler : o # h => req'[o] = req[o], ~Fail(h)
  PROVE  AsTable(d)'
<1> DEFINE p == req[h].path
           a == req[h].app
<1>0. /\ vs \in [Domain -> VirtualService] /\ p \in Path /\ vs[d].routes \subseteq Route
      /\ req[h].pc = "put" /\ req[h].domain = d /\ ~SiteOp(h)
  BY DEF Common, OwnTypeOK, Request, VirtualService, PageSet, UpdateVirtualService, PcOK, SitePc
<1>1. vs'[d].routes = WithPage(vs[d].routes, p, a, Value(h))
  <2>1. vs'[d] = [vs[d] EXCEPT !.version = @ + 1, !.routes = req[h].routes]
    BY <1>0 DEF PageSet
  <2>2. vs'[d].routes = req[h].routes
    BY <1>0, <2>1 DEF VirtualService
  <2> QED BY <1>0, <2>2 DEF EditOK, PageSet
<1>2. PICK q \in RowsOf(d) : q.path = p /\ q.app = a /\ q.maintenance = Value(h)
  <2>1. Waiting(h, d, p)
    BY <1>0 DEF Waiting
  <2> QED BY <1>0, <2>1 DEF FlagsOK
<1>3. \A r \in RowsOf(d) : r.path = p => r = q
  BY <1>2 DEF OneAppPerPath
<1> DEFINE set(x) == IF x.path = p THEN [x EXCEPT !.host = IF Value(h) THEN Down ELSE a] ELSE x
<1>4. vs'[d].routes = {set(x) : x \in vs[d].routes}
  BY <1>1 DEF WithPage
<1>5. \A x \in vs[d].routes : /\ set(x).path = x.path
                              /\ x.path = p => set(x) = RouteTo(q)
                              /\ x.path # p => set(x) = x
  BY <1>0, <1>2 DEF Route, RouteTo
<1> HIDE DEF set
<1>6. ASSUME NEW r \in RowsOf(d) PROVE \E y \in vs'[d].routes : y.path = r.path
  <2>1. PICK x \in vs[d].routes : x.path = r.path
    BY DEF AsTable
  <2> QED BY <1>4, <1>5, <2>1
<1>7. ASSUME NEW y \in vs'[d].routes
      PROVE  \E r \in RowsOf(d) :
               /\ r.path = y.path
               /\ y = RouteTo(r) \/ \E o \in Handler : Waiting(o, d, r.path)' /\ req'[o].app = r.app
  <2>1. PICK x \in vs[d].routes : y = set(x)
    BY <1>4
  <2>2. CASE x.path = p
    BY <1>2, <1>5, <2>1, <2>2
  <2>3. CASE x.path # p
    <3>1. y = x
      BY <1>5, <2>1, <2>3
    <3>2. PICK r \in RowsOf(d) :
            /\ r.path = x.path
            /\ x = RouteTo(r) \/ \E o \in Handler : Waiting(o, d, r.path) /\ req[o].app = r.app
      BY DEF AsTable
    <3>3. r.path \in Path
      BY DEF Common, OwnTypeOK, PathsTypeOK, RowsOf, Row
    <3>4. ASSUME NEW o \in Handler, Waiting(o, d, r.path), req[o].app = r.app
          PROVE  Waiting(o, d, r.path)' /\ req'[o].app = r.app
      <4>1. CASE o = h
        <5>1. ~(\A z \in vs[d].routes : z.path # r.path) /\ vs[d].exists
          BY <3>2 DEF PageSet
        <5> QED BY <2>3, <3>2, <3>3, <3>4, <4>1, <5>1, WaitingStep
      <4>2. CASE o # h
        BY <3>4, <4>2, WaitingLike, SameIsLike
      <4> QED BY <4>1, <4>2
    <3> QED BY <3>1, <3>2, <3>4
  <2> QED BY <2>2, <2>3
<1> QED BY <1>6, <1>7 DEF AsTable, RouteTo
\* The sites whose routes have to be those of the table.
Quiet(d) == d \notin suspect /\ d \notin unpushed /\ vs[d].exists /\ OneAppPerPath(d) /\ NoPush(d)

\* A request that arrives keeps TableOK: a maintenance request flags its rows,
\* and their paths are waiting from then on.
LEMMA ArriveTable ==
  ASSUME Common, UniqueKeys, NEW h \in Handler, Arrives(h), NEW d \in Domain, TableOK(d), Quiet(d)'
  PROVE  AsTable(d)'
<1>a. OwnTypeOK
  BY DEF Common
<1>0. /\ req[h].pc = "idle" /\ d \notin suspect /\ vs' = vs
      /\ \A o \in Handler : o # h => Like(req'[o], req[o])
  BY <1>a, OthersStay DEF Quiet, k8s
<1>1. ASSUME NEW op \in {"push", "delete"}, NEW e \in Domain, StartSiteRequest(h, op, e)
      PROVE  AsTable(d)'
  <2>1. PICK r \in Request : /\ Arrive(h, r) /\ r.alone /\ r.pc = "router" /\ r.op = op
                             /\ r.domain = e
    BY <1>a, <1>1, StartSiteRequestStep
  <2>2. req'[h].pc = "router" /\ req'[h].op = op /\ req'[h].domain = e
    BY <1>a, <2>1, ArriveStep DEF Like
  <2>3. op = "push" => d # e
    BY <2>2 DEF Quiet, NoPush, SiteRequestAt, SiteOp
  <2>4. rows' = rows /\ d \notin unpushed
    BY <1>1, <2>3 DEF StartSiteRequest, Quiet, tables
  <2>5. RowsOf(d)' = RowsOf(d)
    BY <2>4 DEF RowsOf
  <2>6. NoPush(d)
    <3>1. ASSUME NEW o \in Handler, SiteRequestAt(o, d) PROVE req[o].op = "delete"
      <4>1. o # h
        BY <1>0, <3>1 DEF SiteRequestAt
      <4>2. SiteRequestAt(o, d)' /\ req'[o].op = req[o].op
        BY <1>0, <3>1, <4>1 DEF SiteRequestAt, SiteOp, Like
      <4> QED BY <4>2 DEF Quiet, NoPush
    <3> QED BY <3>1 DEF NoPush
  <2>7. AsTable(d)
    BY <1>0, <2>4, <2>5, <2>6 DEF TableOK, Quiet, OneAppPerPath
  <2>8. \A o \in Handler, p \in Path : Waiting(o, d, p) => Waiting(o, d, p)' /\ req'[o].app = req[o].app
    <3>1. ASSUME NEW o \in Handler, NEW p \in Path, Waiting(o, d, p)
          PROVE  Waiting(o, d, p)' /\ req'[o].app = req[o].app
      <4>1. o # h
        BY <1>0, <3>1 DEF Waiting
      <4> QED BY <1>0, <2>5, <3>1, <4>1, WaitingLike
    <3> QED BY <3>1
  <2> QED BY <1>a, <1>0, <2>5, <2>7, <2>8, TableKept
<1>2. ASSUME NEW op \in {"enable", "disable"}, NEW a \in App, StartMaintenance(h, op, a)
      PROVE  AsTable(d)'
  <2>1. PICK r \in Request : /\ Arrive(h, r) /\ r.alone /\ Touches(r) = Domain /\ r.pc = "app"
                             /\ r.op = op /\ r.app = a
    BY <1>a, <1>2, StartMaintenanceStep
  <2>2. \A o \in Handler : ~At(o, d)
    BY <1>a, <2>1, ArriveStep DEF Quiet
  <2>3. \A o \in Handler, p \in Path : ~Waiting(o, d, p)
    BY <2>2, AtEverySite DEF Waiting
  <2>4. NoPush(d)
    BY <2>2 DEF NoPush, SiteRequestAt, At, SiteOp, Touches
  <2>5. req'[h].pc = "app" /\ req'[h].op = op /\ req'[h].app = a
    BY <1>a, <2>1, ArriveStep DEF Like
  <2> DEFINE value == op = "enable"
             flag(x) == IF x.app = a THEN [x EXCEPT !.maintenance = value] ELSE x
  <2>6. rows' = {flag(x) : x \in rows}
    BY <1>2 DEF StartMaintenance, FlagRows
  <2>7. \A x \in rows : /\ flag(x).domain = x.domain /\ flag(x).path = x.path
                        /\ flag(x).app = x.app /\ (x.app # a => flag(x) = x)
    BY <1>a DEF OwnTypeOK, PathsTypeOK, Row
  <2> HIDE DEF value, flag
  <2>8. /\ \A x \in RowsOf(d) : flag(x) \in RowsOf(d)'
        /\ \A y \in RowsOf(d)' : \E x \in RowsOf(d) : y = flag(x)
    BY <2>6, <2>7 DEF RowsOf
  <2>9. OneAppPerPath(d)
    <3>1. ASSUME NEW x \in RowsOf(d), NEW y \in RowsOf(d), x.path = y.path PROVE x = y
      <4>1. x \in rows /\ y \in rows /\ x.domain = y.domain
        BY DEF RowsOf
      <4>2. flag(x) = flag(y)
        BY <2>7, <2>8, <3>1, <4>1 DEF Quiet, OneAppPerPath
      <4>3. SameKey(x, y)
        BY <2>7, <3>1, <4>1, <4>2 DEF SameKey
      <4> QED BY <4>1, <4>3 DEF UniqueKeys
    <3> QED BY <3>1 DEF OneAppPerPath
  <2>10. d \notin unpushed
    BY <1>2 DEF StartMaintenance, Quiet
  <2>11. AsTable(d)
    BY <1>0, <2>4, <2>9, <2>10 DEF TableOK, Quiet
  <2>12. ASSUME NEW y \in RowsOf(d)' PROVE \E x \in vs'[d].routes : x.path = y.path
    <3>1. PICK r0 \in RowsOf(d) : y = flag(r0)
      BY <2>8
    <3>2. y.path = r0.path
      BY <2>7, <3>1 DEF RowsOf
    <3> QED BY <1>0, <2>11, <3>2 DEF AsTable
  <2>13. ASSUME NEW x \in vs'[d].routes
         PROVE  \E y \in RowsOf(d)' :
                  /\ y.path = x.path
                  /\ x = RouteTo(y) \/ \E o \in Handler : Waiting(o, d, y.path)' /\ req'[o].app = y.app
    <3>1. PICK r0 \in RowsOf(d) :
            /\ r0.path = x.path
            /\ x = RouteTo(r0) \/ \E o \in Handler : Waiting(o, d, r0.path) /\ req[o].app = r0.app
      BY <1>0, <2>11 DEF AsTable
    <3>2. x = RouteTo(r0)
      BY <1>a, <2>3, <3>1 DEF OwnTypeOK, PathsTypeOK, RowsOf, Row
    <3>3. flag(r0) \in RowsOf(d)' /\ flag(r0).path = x.path /\ flag(r0).app = r0.app
      BY <2>7, <2>8, <3>1 DEF RowsOf
    <3>4. CASE r0.app = a
      <4>1. Waiting(h, d, flag(r0).path)'
        BY <2>5, <3>3, <3>4 DEF Waiting, SiteOp, RowsOfApp, RowsOf
      <4> QED BY <2>5, <3>3, <3>4, <4>1
    <3>5. CASE r0.app # a
      BY <2>7, <3>2, <3>3, <3>5 DEF RowsOf
    <3> QED BY <3>4, <3>5
  <2> QED BY <2>12, <2>13 DEF AsTable, RouteTo
<1> QED BY <1>1, <1>2 DEF Arrives

\* A request for a site ends with an error, or it leaves nothing to suspect as it was, but
\* for the last write of a push; and a push ends early only when it has no paths.
LEMMA SiteRequestEnds ==
  ASSUME Common, NEW h \in Handler, SiteRequest(h), ~Arrives(h), ~Fail(h), ~WriteVirtualService(h)
  PROVE  /\ suspect' = suspect
         /\ req'[h].pc = "idle" /\ req[h].op = "push" =>
              ~Publishing(h) /\ (DeleteVirtualService(h) \/ req[h].pc = "gateway")
<1> USE DEF Common
<1>0. req[h] \in Request /\ req \in [Handler -> Request] /\ PcOK(h)
  BY DEF OwnTypeOK
<1>1. CASE Succeed(h)
  <2>1. ~Publishing(h)
    <3>1. DeleteVirtualService(h) \/ GatewayDone(h) \/ DeleteRouterStep(h)
          \/ \E pc \in {"certificate", "unpublish", "gateway", "write", "row"} : req'[h].pc = pc
      <4>1. ASSUME ReadRouter(h) PROVE req'[h].pc \in {"certificate", "unpublish"}
        BY <4>1, PcAfter DEF ReadRouter
      <4>2. ASSUME LookupCertificate(h) PROVE req'[h].pc = "gateway"
        BY <4>2, PcAfter DEF LookupCertificate
      <4>3. ASSUME GatewayStep(h) PROVE req'[h].pc = "gateway"
        BY <1>0, <4>3, StepIsEdit DEF GatewayStep, PcOK
      <4>4. ASSUME VirtualServiceExists(h) PROVE req'[h].pc = "write"
        BY <1>0, <4>4 DEF VirtualServiceExists, Request
      <4>5. ASSUME DeleteRowsStep(h) PROVE req'[h].pc = "row"
        BY <1>0, <4>5 DEF DeleteRowsStep, Moved, Request
      <4> QED BY <4>1, <4>2, <4>3, <4>4, <4>5 DEF SiteRequest, Arrives
    <3>2. req'[h].pc = "idle"
      BY <1>1, PcAfter
    <3>3. CASE DeleteVirtualService(h)
      BY <1>0, <3>3 DEF DeleteVirtualService, PcOK
    <3>4. CASE GatewayDone(h)
      BY <3>2, <3>4, PcAfter DEF GatewayDone, Publishing
    <3>5. CASE DeleteRouterStep(h)
      BY <1>0, <3>5 DEF DeleteRouterStep, PcOK, Publishing
    <3> QED BY <3>1, <3>2, <3>3, <3>4, <3>5
  <2>2. suspect' = suspect
    BY <1>1, <2>1, SucceedEnds
  <2>3. ASSUME req[h].op = "push" PROVE DeleteVirtualService(h) \/ req[h].pc = "gateway"
    <3>1. req'[h].pc = "idle"
      BY <1>1, PcAfter
    <3>2. ~ReadRouter(h) /\ ~LookupCertificate(h)
      BY <3>1, PcAfter DEF ReadRouter, LookupCertificate
    <3>3. ASSUME GatewayStep(h) \/ GatewayDone(h) PROVE req[h].pc = "gateway"
      BY <1>0, <3>3, StepIsEdit DEF GatewayStep, GatewayDone, Return, PcOK
    <3>4. ~VirtualServiceExists(h)
      BY <1>0, <3>1 DEF VirtualServiceExists, Request
    <3>5. ~DeleteRowsStep(h)
      BY <1>0, <2>3 DEF DeleteRowsStep, PcOK
    <3>6. ~DeleteRouterStep(h)
      BY <1>0, <2>3 DEF DeleteRouterStep, PcOK
    <3> QED BY <3>2, <3>3, <3>4, <3>5, <3>6 DEF SiteRequest, Arrives
  <2> QED BY <2>1, <2>2, <2>3
<1>2. CASE ~Succeed(h)
  <2>1. Moves(h)
    BY RequestMoves DEF RequestStep
  <2>2. UNCHANGED suspect /\ req'[h].pc # "idle"
    <3>1. ASSUME NEW pc, pc # "idle", Continue(h, pc) PROVE UNCHANGED suspect /\ req'[h].pc # "idle"
      BY <3>1, ContinueGoesOn DEF GoesOn
    <3>2. CASE ReadRouter(h)
      BY <1>2, <3>1, <3>2 DEF ReadRouter
    <3>3. CASE DeleteVirtualService(h)
      BY <1>2, <3>1, <3>3 DEF DeleteVirtualService
    <3>4. CASE LookupCertificate(h)
      BY <3>1, <3>4 DEF LookupCertificate
    <3>5. CASE GatewayStep(h)
      BY <2>1, <3>5 DEF GatewayStep, ghosts, Moves
    <3>6. CASE GatewayDone(h)
      BY <1>2, <3>1, <3>6 DEF GatewayDone
    <3>7. CASE VirtualServiceExists(h)
      <4>1. req'[h].pc = "write"
        BY <1>0, <3>7 DEF VirtualServiceExists, Request
      <4> QED BY <3>7, <4>1 DEF VirtualServiceExists, ghosts
    <3>8. CASE DeleteRowsStep(h)
      <4>1. req'[h].pc = "row"
        BY <1>0, <3>8 DEF DeleteRowsStep, Moved, Request
      <4> QED BY <3>8, <4>1 DEF DeleteRowsStep
    <3> QED BY <1>2, <3>2, <3>3, <3>4, <3>5, <3>6, <3>7, <3>8 DEF SiteRequest, Arrives, DeleteRouterStep
  <2> QED BY <2>2
<1> QED BY <1>1, <1>2

\* The steps of the requests that leave the virtual service and the rows of d alone.
LEMMA UntouchedTable ==
  ASSUME Common, NEW h \in Handler, RequestStep(h), ~Arrives(h), NEW d \in Domain, TableOK(d),
         Quiet(d)', d \notin suspect, NoPush(d), vs'[d] = vs[d],
         \A p \in Path : Waiting(h, d, p) =>
           \/ Waiting(h, d, p)' /\ req'[h].app = req[h].app
           \/ \A x \in vs[d].routes : x.path # p
  PROVE  AsTable(d)'
<1>1. Moves(h)
  BY RequestMoves DEF Common
<1>2. RowsOf(d)' = RowsOf(d) /\ d \notin unpushed
  BY RowsStay, SiteRowsStay DEF Quiet
<1>3. AsTable(d)
  BY <1>2 DEF TableOK, Quiet, OneAppPerPath
<1>4. \A o \in Handler, p \in Path : o # h /\ Waiting(o, d, p)
        => Waiting(o, d, p)' /\ req'[o].app = req[o].app
  BY <1>1, <1>2, WaitingLike, SameIsLike DEF Moves
<1>5. OwnTypeOK
  BY DEF Common
<1> QED BY <1>2, <1>3, <1>4, <1>5, TableKept

\* The steps of pushes and deletions keep TableOK.
LEMMA SiteRequestTable ==
  ASSUME Common, NEW h \in Handler, SiteRequest(h), ~Arrives(h), RequestOK(h), PushOK(h),
         NEW d \in Domain, TableOK(d), Quiet(d)'
  PROVE  AsTable(d)'
<1>0. /\ OwnTypeOK /\ PcOK(h) /\ Apart(d) /\ req[h] \in Request /\ req[h].domain \in Domain
      /\ vs \in [Domain -> VirtualService] /\ vs[d] \in VirtualService
  BY DEF Common, OwnTypeOK, Request
<1>1. Moves(h) /\ RequestStep(h)
  BY RequestMoves DEF RequestStep, Common
<1>2. SiteOp(h)
  <2>1. req[h].pc \in SitePc
    <3>1. GatewayStep(h) \/ GatewayDone(h) => req[h].pc = "gateway"
      BY <1>0, StepIsEdit DEF Common, GatewayStep, GatewayDone, Return, PcOK
    <3> QED BY <3>1 DEF SiteRequest, Arrives, ReadRouter, DeleteVirtualService, LookupCertificate,
              VirtualServiceExists, WriteVirtualService, DeleteRowsStep, DeleteRouterStep, SitePc
  <2> QED BY <1>0, <2>1 DEF PcOK
<1>3. Touches(req[h]) = {req[h].domain} /\ \A p \in Path : ~Waiting(h, d, p)
  BY <1>2 DEF SiteOp, Touches, Waiting
<1>4. ASSUME NEW o \in Handler, o # h, SiteRequestAt(o, d) PROVE req[o].op = "delete"
  <2>1. req'[o] = req[o]
    BY <1>1, <1>4 DEF Moves
  <2>2. SiteRequestAt(o, d)' /\ req'[o].op = req[o].op
    BY <1>4, <2>1 DEF SiteRequestAt, SiteOp
  <2> QED BY <2>2 DEF Quiet, NoPush
<1>5. CASE req[h].domain # d
  <2>1. vs'[d] = vs[d] /\ d \notin suspect
    BY <1>0, <1>1, <1>3, <1>5, VersionStep DEF Moves, GoesOn, Ends, Clears, Quiet
  <2>2. NoPush(d)
    BY <1>4, <1>5 DEF NoPush, SiteRequestAt
  <2> QED BY <1>1, <1>3, <2>1, <2>2, UntouchedTable
<1>6. CASE req[h].domain = d /\ WriteVirtualService(h)
  <2>1. ~Fail(h)
    BY <1>3, <1>6 DEF Fail, Quiet
  <2>2. Succeed(h) /\ vs'[d].routes = RoutesOf(req[h].rows)
    BY <1>0, <1>6, <2>1 DEF WriteVirtualService
  <2>3. req[h].pc = "write" /\ Publishing(h)
    BY <1>0, <1>6 DEF WriteVirtualService, PcOK
  <2>4. req[h].alone
    <3>1. At(h, d)
      BY <1>3, <1>6, <2>3 DEF At
    <3>2. ~req[h].alone => d \in suspect /\ suspect' = suspect
      BY <1>0, <1>2, <2>2, <3>1 DEF Apart, Succeed
    <3> QED BY <3>2 DEF Quiet
  <2>5. RowsOf(d)' = RowsOf(d) /\ d \notin unpushed
    BY <1>1, RowsStay, SiteRowsStay DEF Quiet
  <2>6. req[h].rows = RowsOf(d)
    BY <1>6, <2>3, <2>4, <2>5 DEF PushOK, Publishing
  <2> QED BY <2>2, <2>5, <2>6, PushWrites
<1>7. CASE req[h].domain = d /\ ~WriteVirtualService(h)
  <2>1. ~Fail(h)
    BY <1>3, <1>7 DEF Fail, Quiet
  <2>2. d \notin suspect
    BY <1>7, <2>1, SiteRequestEnds DEF Quiet
  <2>3. vs'[d] = vs[d] /\ vs[d].exists
    <3>1. CASE DeleteVirtualService(h) /\ vs[d].exists
      <4>1. ~vs'[d].exists
        BY <1>0, <1>7, <3>1 DEF DeleteVirtualService, VirtualService
      <4> QED BY <4>1 DEF Quiet
    <3>2. CASE DeleteVirtualService(h) /\ ~vs[d].exists
      BY <1>7, <3>2 DEF DeleteVirtualService, Quiet
    <3>3. CASE ~DeleteVirtualService(h)
      <4>1. ~UpdateVirtualService(h)
        BY <1>0, <1>2 DEF UpdateVirtualService, PcOK, SitePc
      <4>2. vs'[d] = vs[d]
        BY <1>0, <1>1, <1>7, <3>3, <4>1, VersionStep DEF Writes
      <4> QED BY <4>2 DEF Quiet
    <3> QED BY <3>1, <3>2, <3>3
  <2>4. req[h].op = "delete"
    <3> SUFFICES ASSUME req[h].op = "push" PROVE FALSE
      BY <1>2 DEF SiteOp
    <3>1. CASE req'[h].pc # "idle"
      <4>1. GoesOn(h)
        BY <1>1, <3>1 DEF Moves, Ends, NoRequest
      <4>2. SiteRequestAt(h, d)' /\ req'[h].op = "push"
        BY <1>2, <1>7, <4>1 DEF GoesOn, SiteRequestAt, SiteOp
      <4> QED BY <4>2 DEF Quiet, NoPush
    <3>2. CASE req'[h].pc = "idle"
      <4>1. ~Publishing(h) /\ (DeleteVirtualService(h) \/ req[h].pc = "gateway")
        BY <1>7, <2>1, <3>2, SiteRequestEnds
      <4>2. req[h].alone
        <5>1. At(h, d)
          BY <1>1, <1>3, <1>7 DEF At, Moves
        <5> QED BY <1>0, <1>2, <2>2, <5>1 DEF Apart
      <4>3. CASE req[h].pc = "gateway"
        <5>1. ~vs[d].exists
          BY <1>2, <1>7, <4>1, <4>2, <4>3 DEF RequestOK
        <5> QED BY <2>3, <5>1
      <4>4. CASE DeleteVirtualService(h)
        <5>1. Continue(h, "certificate")
          BY <1>7, <2>3, <4>4 DEF DeleteVirtualService
        <5> QED BY <1>0, <3>2, <5>1, PcAfter
      <4> QED BY <4>1, <4>3, <4>4
    <3> QED BY <3>1, <3>2
  <2>5. NoPush(d)
    BY <1>4, <2>4 DEF NoPush
  <2> QED BY <1>1, <1>3, <2>2, <2>3, <2>5, UntouchedTable
<1> QED BY <1>5, <1>6, <1>7

\* The steps of maintenance requests keep TableOK.
LEMMA MaintenanceTable ==
  ASSUME Common, NEW h \in Handler, MaintenanceRequest(h), ~Arrives(h), EditOK(h),
         NEW d \in Domain, FlagsOK(h, d), TableOK(d), Quiet(d)'
  PROVE  AsTable(d)'
<1>0. OwnTypeOK /\ PcOK(h) /\ req[h].domain \in Domain
  BY DEF Common, OwnTypeOK, Request
<1>1. Moves(h) /\ RequestStep(h)
  BY RequestMoves DEF RequestStep, Common
<1>2. ~SiteOp(h)
  BY <1>0 DEF PcOK, SitePc, MaintenanceRequest, Arrives, SetAppPage, ListPaths, NextPath,
              ReadVirtualService, UpdateVirtualService
<1>3. ~Fail(h)
  BY <1>2 DEF Fail, Touches, SiteOp, Quiet
<1>4. d \notin suspect
  BY <1>1, <1>2 DEF Moves, GoesOn, Ends, Clears, Publishing, SiteOp, Quiet
<1>5. ~SiteRequestAt(h, d)
  BY <1>2 DEF SiteRequestAt
<1>6. NoPush(d)
  <2>1. ASSUME NEW o \in Handler, SiteRequestAt(o, d) PROVE req[o].op = "delete"
    <3>1. req'[o] = req[o]
      BY <1>1, <1>5, <2>1 DEF Moves
    <3>2. SiteRequestAt(o, d)' /\ req'[o].op = req[o].op
      BY <2>1, <3>1 DEF SiteRequestAt, SiteOp
    <3> QED BY <3>2 DEF Quiet, NoPush
  <2> QED BY <2>1 DEF NoPush
<1>7. vs[d].exists
  BY <1>1, <1>5, KeptElsewhere DEF KeptAt, Quiet
<1>8. CASE PageSet(h, d)
  <2>1. RowsOf(d)' = RowsOf(d) /\ d \notin unpushed
    BY <1>1, RowsStay, SiteRowsStay DEF Quiet
  <2>2. OneAppPerPath(d)
    BY <2>1 DEF Quiet, OneAppPerPath
  <2>3. AsTable(d)
    BY <1>4, <1>6, <1>7, <2>1, <2>2 DEF TableOK
  <2>4. \A o \in Handler : o # h => req'[o] = req[o]
    BY <1>1 DEF Moves
  <2> QED BY <1>3, <1>4, <1>8, <2>1, <2>2, <2>3, <2>4, PageWrites
<1>9. CASE ~PageSet(h, d)
  <2>1. vs'[d] = vs[d]
    <3>1. CASE UpdateVirtualService(h) /\ req[h].domain = d
      BY <1>9, <3>1 DEF UpdateVirtualService, PageSet
    <3>2. CASE ~UpdateVirtualService(h) \/ req[h].domain # d
      <4>1. ~DeleteVirtualService(h) /\ ~WriteVirtualService(h)
        BY <1>0, <1>2 DEF DeleteVirtualService, WriteVirtualService, PcOK, SitePc
      <4> QED BY <1>0, <1>1, <3>2, <4>1, VersionStep DEF Writes
    <3> QED BY <3>1, <3>2
  <2>2. \A p \in Path : Waiting(h, d, p) =>
           \/ Waiting(h, d, p)' /\ req'[h].app = req[h].app
           \/ \A x \in vs[d].routes : x.path # p
    BY <1>3, <1>7, <1>9, WaitingStep
  <2> QED BY <1>1, <1>4, <1>6, <2>1, <2>2, UntouchedTable
<1> QED BY <1>8, <1>9

\* A failure keeps TableOK: its sites are suspect.
LEMMA FailureTable ==
  ASSUME Common, NEW h \in Handler, RequestFailure(h), ~Arrives(h), NEW d \in Domain, TableOK(d),
         Quiet(d)'
  PROVE  AsTable(d)'
<1>0. OwnTypeOK /\ RequestStep(h)
  BY DEF Common, RequestStep
<1>1. d \notin Touches(req[h]) /\ d \notin suspect
  BY DEF RequestFailure, Fail, Quiet
<1>2. \A p \in Path : ~Waiting(h, d, p)
  BY <1>1 DEF Waiting, SiteOp, Touches
<1>3. vs' = vs
  BY DEF RequestFailure, k8s
<1>4. NoPush(d)
  <2>1. ASSUME NEW o \in Handler, SiteRequestAt(o, d) PROVE req[o].op = "delete"
    <3>1. o # h
      BY <1>1, <2>1 DEF SiteRequestAt, SiteOp, Touches
    <3>2. req'[o] = req[o]
      BY <1>0, <3>1, RequestMoves DEF Moves, Common
    <3>3. SiteRequestAt(o, d)' /\ req'[o].op = req[o].op
      BY <2>1, <3>2 DEF SiteRequestAt, SiteOp
    <3> QED BY <3>3 DEF Quiet, NoPush
  <2> QED BY <2>1 DEF NoPush
<1> QED BY <1>0, <1>1, <1>2, <1>3, <1>4, UntouchedTable

\* What comes from outside keeps TableOK.
LEMMA OutsideTable ==
  ASSUME OwnTypeOK, OutsideStep, NEW d \in Domain, TableOK(d), Quiet(d)'
  PROVE  AsTable(d)'
<1>1. UNCHANGED <<vs, req, suspect>> /\ RowsOf(d)' = RowsOf(d) /\ d \notin unpushed
  BY OutsideKeepsRequests, OutsideRows DEF Quiet
<1>2. AsTable(d)
  BY <1>1 DEF TableOK, Quiet, OneAppPerPath, NoPush, SiteRequestAt, SiteOp
<1>3. \A o \in Handler, p \in Path : Waiting(o, d, p) => Waiting(o, d, p)' /\ req'[o].app = req[o].app
  BY <1>1, WaitingLike, SameIsLike
<1> QED BY <1>1, <1>2, <1>3, TableKept

-----------------------------------------------------------------------------
(* What is published is what the table says. *)

TablesInv ==
  /\ SitesInv /\ UniqueKeys
  /\ \A h \in Handler : PushOK(h) /\ EditOK(h) /\ \A d \in Domain : FlagsOK(h, d)
  /\ \A d \in Domain : TableOK(d)

\* Every step keeps TableOK.
LEMMA TableStep ==
  ASSUME TablesInv, [Next]_vars, NEW d \in Domain
  PROVE  TableOK(d)'
<1> SUFFICES ASSUME Quiet(d)' PROVE AsTable(d)'
  BY DEF TableOK, Quiet
<1>0. /\ Common /\ UniqueKeys /\ TableOK(d) /\ OwnTypeOK
      /\ \A h \in Handler : RequestOK(h) /\ PushOK(h) /\ EditOK(h) /\ FlagsOK(h, d)
  BY DEF TablesInv, SitesInv, Common
<1>1. ASSUME NEW h \in Handler, Arrives(h) PROVE AsTable(d)'
  BY <1>0, <1>1, ArriveTable
<1>2. ASSUME NEW h \in Handler, SiteRequest(h), ~Arrives(h) PROVE AsTable(d)'
  BY <1>0, <1>2, SiteRequestTable
<1>3. ASSUME NEW h \in Handler, MaintenanceRequest(h), ~Arrives(h) PROVE AsTable(d)'
  BY <1>0, <1>3, MaintenanceTable
<1>4. ASSUME NEW h \in Handler, RequestFailure(h), ~Arrives(h) PROVE AsTable(d)'
  BY <1>0, <1>4, FailureTable
<1>5. ASSUME OutsideStep PROVE AsTable(d)'
  BY <1>0, <1>5, OutsideTable
<1> QED BY <1>1, <1>2, <1>3, <1>4, <1>5, NextCases DEF RequestStep

\* The invariant of the tables holds at first.
LEMMA TablesInit == Init => TablesInv
<1> SUFFICES ASSUME Init PROVE TablesInv
  OBVIOUS
<1>1. SitesInv
  BY SitesInit
<1>2. UniqueKeys
  <2> SUFFICES ASSUME NEW r \in rows, NEW s \in rows, SameKey(r, s) PROVE r = s
    BY DEF UniqueKeys
  <2>1. r \in Row /\ s \in Row /\ r.maintenance = FALSE /\ s.maintenance = FALSE
    BY InitialRowsAssumption DEF Init, Row
  <2> QED BY <2>1 DEF SameKey, Row
<1>3. \A h \in Handler : req[h].pc = "idle"
  BY DEF Init, NoRequest
<1>4. \A h \in Handler : PushOK(h) /\ EditOK(h) /\ \A d \in Domain : FlagsOK(h, d)
  BY <1>3 DEF PushOK, EditOK, FlagsOK
<1>5. \A d \in Domain : TableOK(d)
  BY DEF Init, TableOK
<1> QED BY <1>1, <1>2, <1>4, <1>5 DEF TablesInv

\* The invariant of the tables is inductive.
LEMMA TablesStep == ASSUME TablesInv, [Next]_vars PROVE TablesInv'
<1>1. SitesInv' /\ UniqueKeys' /\ Common
  BY SitesStep, KeysStep DEF TablesInv, SitesInv, Common
<1>2. \A h \in Handler : PushOK(h)' /\ EditOK(h)' /\ \A d \in Domain : FlagsOK(h, d)'
  BY <1>1, PushStep, EditStep, FlagsStep DEF TablesInv
<1> QED BY <1>1, <1>2, TableStep DEF TablesInv

\* The invariant of the tables always holds.
LEMMA TablesInvHolds == Spec => []TablesInv
<1>1. TablesInv /\ [Next]_vars => TablesInv'
  BY TablesStep
<1> QED BY <1>1, TablesInit, PTL DEF Spec

\* The virtual service of a site at rest publishes exactly its rows, maintenance
\* pages included: pushes write the routes of the rows (WriteVirtualService), and
\* maintenance requests edit them one by one (UpdateVirtualService).
THEOREM PublishedSitesMatchTable == Spec => []PublishedIsTable
<1>1. TablesInv => PublishedIsTable
  <2> SUFFICES ASSUME TablesInv, NEW d \in Domain \ (suspect \union unpushed), vs[d].exists,
                      AtRest(d), OneAppPerPath(d)
               PROVE  vs[d].routes = RoutesOf(RowsOf(d))
    BY DEF PublishedIsTable
  <2>1. \A h \in Handler : ~At(h, d)
    BY DEF AtRest, Active, At
  <2>2. NoPush(d) /\ \A h \in Handler, p \in Path : ~Waiting(h, d, p)
    BY <2>1, AtEverySite DEF NoPush, SiteRequestAt, Waiting, At, SiteOp, Touches
  <2>3. AsTable(d)
    BY <2>2 DEF TablesInv, TableOK
  <2>4. \A r \in RowsOf(d) : r.path \in Path
    BY DEF TablesInv, SitesInv, Common, OwnTypeOK, PathsTypeOK, RowsOf, Row
  <2>5. \A x \in vs[d].routes : \E r \in RowsOf(d) : r.path = x.path /\ x = RouteTo(r)
    BY <2>2, <2>3, <2>4 DEF AsTable
  <2>6. \A r \in RowsOf(d) : RouteTo(r) \in vs[d].routes
    <3>1. ASSUME NEW r \in RowsOf(d) PROVE RouteTo(r) \in vs[d].routes
      <4>1. PICK x \in vs[d].routes : x.path = r.path
        BY <2>3 DEF AsTable
      <4>2. PICK s \in RowsOf(d) : s.path = x.path /\ x = RouteTo(s)
        BY <2>5
      <4>3. s = r
        BY <4>1, <4>2 DEF OneAppPerPath
      <4> QED BY <4>2, <4>3
    <3> QED BY <3>1
  <2>7. RoutesOf(RowsOf(d)) = {RouteTo(r) : r \in RowsOf(d)}
    BY DEF RoutesOf, RouteTo
  <2> QED BY <2>5, <2>6, <2>7
<1> QED BY <1>1, TablesInvHolds, PTL

\* A maintenance request only changes where the routes of a site lead
\* (UpdateVirtualService), never which paths there are.
THEOREM MaintenanceKeepsThePaths == Spec => MaintenanceKeepsPaths
<1>1. ASSUME TablesInv, [Next]_vars, NEW h \in Handler, NEW d \in Domain,
             req[h].pc = "put", req'[h].pc = "next"
      PROVE  Paths(vs'[d].routes) = Paths(vs[d].routes)
  <2>0. /\ Common /\ OwnTypeOK /\ EditOK(h) /\ req[h] \in Request /\ req[h].domain \in Domain
        /\ vs \in [Domain -> VirtualService] /\ PcOK(h)
    BY <1>1 DEF TablesInv, SitesInv, Common, OwnTypeOK, Request
  <2>1. RequestStep(h) /\ ~Arrives(h)
    <3>1. ASSUME NEW o \in Handler, Arrives(o) PROVE FALSE
      <4>1. o # h
        BY <1>1, <2>0, <3>1, OthersStay
      <4> QED BY <1>1, <2>0, <3>1, <4>1, OthersStay DEF Like
    <3>2. ASSUME NEW o \in Handler, RequestStep(o), ~Arrives(o) PROVE o = h
      BY <1>1, <2>0, <3>2, RequestMoves DEF Moves, Common
    <3>3. ~OutsideStep
      BY <1>1, OutsideKeepsRequests
    <3> QED BY <1>1, <3>1, <3>2, <3>3, NextCases
  <2>2. UpdateVirtualService(h)
    <3>1. ~SiteOp(h)
      BY <1>1, <2>0 DEF PcOK, SitePc
    <3>2. ~RequestFailure(h)
      BY <1>1, <2>0, PcAfter DEF RequestFailure
    <3>3. ~SiteRequest(h)
      <4>1. ~GatewayStep(h) /\ ~GatewayDone(h)
        BY <1>1, <2>0, StepIsEdit DEF Common, GatewayStep, GatewayDone, Return, PcOK
      <4> QED BY <1>1, <2>1, <4>1 DEF SiteRequest, Arrives, ReadRouter, DeleteVirtualService,
                LookupCertificate, VirtualServiceExists, WriteVirtualService, DeleteRowsStep,
                DeleteRouterStep
    <3> QED BY <1>1, <2>1, <3>2, <3>3 DEF RequestStep, MaintenanceRequest, Arrives, SetAppPage,
              ListPaths, NextPath, ReadVirtualService
  <2>3. CASE req[h].domain # d
    <3>1. vs'[d] = vs[d]
      BY <2>0, <2>1, <2>3, VersionStep
    <3> QED BY <3>1
  <2>4. CASE req[h].domain = d /\ PageSet(h, d)
    <3>1. vs'[d] = [vs[d] EXCEPT !.version = @ + 1, !.routes = req[h].routes]
      BY <2>0, <2>4 DEF PageSet
    <3>2. vs'[d].routes = req[h].routes
      BY <2>0, <3>1 DEF VirtualService
    <3>3. vs'[d].routes = WithPage(vs[d].routes, req[h].path, req[h].app, Value(h))
      BY <1>1, <2>0, <2>4, <3>2 DEF EditOK, PageSet
    <3>4. vs[d].routes \subseteq Route
      BY <2>0 DEF VirtualService
    <3> DEFINE host == IF Value(h) THEN Down ELSE req[h].app
               set(x) == IF x.path = req[h].path THEN [x EXCEPT !.host = host] ELSE x
    <3>5. vs'[d].routes = {set(x) : x \in vs[d].routes}
      BY <3>3 DEF WithPage
    <3>6. \A x \in vs[d].routes : set(x).path = x.path
      BY <3>4 DEF Route
    <3> HIDE DEF set
    <3> QED BY <3>5, <3>6 DEF Paths
  <2>5. CASE req[h].domain = d /\ ~PageSet(h, d)
    <3>1. vs' = vs
      BY <2>2, <2>5 DEF UpdateVirtualService, PageSet
    <3> QED BY <3>1
  <2> QED BY <2>3, <2>4, <2>5
<1>2. TablesInv /\ [Next]_vars =>
        [\A h \in Handler, d \in Domain :
           req[h].pc = "put" /\ req'[h].pc = "next" => Paths(vs'[d].routes) = Paths(vs[d].routes)]_vars
  BY <1>1
<1> QED BY <1>2, TablesInvHolds, PTL DEF Spec, MaintenanceKeepsPaths
===============================================================================
