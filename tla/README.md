# A verification of region-api in TLA+

region-api is the service of an Akkeris region that turns requests of the
controller into objects of Kubernetes and Istio, rows of a Postgres database,
records in Route 53 and calls of open service brokers. It keeps almost nothing
in memory: its state is the database and the systems it drives, and it changes
them step by step in HTTP handlers that run concurrently, without transactions
and, in general, without locks. What can go wrong is what happens between
those steps. That is what these modules are about.

## 1. The system

| Part | State | Operations | What makes it hard | When is it correct? |
|---|---|---|---|---|
| Shared sites gateway (`router/ingress-istio.go`) | one Istio `Gateway` for all sites: TLS servers per certificate, a redirect per site | install a domain, remove a domain | all sites edit one object, read-modify-write with up to 7 tries; first creation; certificates that change | no edit of one site is lost to another; no redirect without TLS |
| Site tables (`router/http.go`) | `routers`, `routerpaths` | create and delete a site, add, update, delete a path | check-then-act, no foreign keys | kinds of sites and spaces are not mixed |
| Publication of sites, maintenance pages (`router/http.go`, `router/ingress-istio.go`, `maintenance/`) | tables, gateway, one virtual service per site, installed certificates | push, delete, maintenance on and off | each request makes 4 to 20 separate accesses and can fail at each | what is served is what the tables say; a site is never served without TLS |
| DNS (`router/dns.go`, `router/http.go`) | Route 53, a cache of zones and records, a mutex | create and remove records, hourly refresh | changes race the refresh; a mutex that is given up and taken inside a loop | the cache shows what is there; nobody hangs |
| Service instances (`service/open-service-brokers.go`) | `service_instances`, the brokers | provision, update, deprovision, poll | asynchronous operations, three steps per request, late polls | every instance has its row and the row describes its last operation |
| Broker catalog, bindings | cache of providers (set to nil by a goroutine) | get catalog, bind, unbind | unsynchronised cache | a catalog that was fetched is served |
| Ingresses (`router/ingress.go`) | cached ingress objects | move an app or site between ingresses | several objects in two ingresses | a moved app is served by one of them all the time |
| Certificates (`certs/`) | orders of the certificate manager, secrets | order, check | asynchronous issuing; Istio finds the secrets by itself | a site gets a certificate once it is ready |
| Spaces and apps (`space/`, `app/createapp.go`...) | `spaces`, `spacesapps`, `apps`, namespaces | create, delete, add, remove, scale | rows against Kubernetes, check-then-act, errors nobody heeds | rows and namespaces agree; what is deployed keeps its space; a removal leaves nothing |
| Deployment (`app/deployment.go`) | deployments, services | deploy | checks, then several writes in turn | what was answered runs; nothing is written for a request that is refused |
| Second interface (`deployment/`, `v2_schema_migration.sql`) | the view `v2.deployments` and its triggers, deployments, services | add, update, scale, deploy, delete one or all of an app | writes before checks, deletion in four steps, a view whose trigger writes whole rows | what was answered runs; the row is the last to go |
| Filters (`router/ingress-istio.go`) | CORS and CSP on the routes of two virtual services, two objects for tokens (JWT) | install and remove with a deployment | read-modify-write of objects others edit too; errors are warnings | an app has the filters of its last deployment, and nobody else loses one |
| Config sets, variables, binds (`config/`, `service/configvars.go`, `app/createbind.go`, `app/unbindapp.go`) | `sets`, `configvars`, `includes`, `appbindings`, `configvarsmap` | change each of them; put an environment together from all | one query after the other while the tables change; order of application, collisions | later sources win, the rules are applied in full |
| Pods (`app/instance.go`, `app/oneoff.go`, ...) | pods | restart, one-off runs, status, logs | restart against deployment; a deleted pod goes on for a while | the pod that was asked for last runs |
| Runtime (`runtime/`) | a map of runtimes per space | requests to Kubernetes | the map is not locked | one runtime per stack |
| Jobs (`jobs/`) | `jobs`, `cronjobs`, jobs of Kubernetes and their pods | create, deploy, deploy again, stop, clean, scale, delete | job and pods are deleted in turn, found by a name that all runs share | the run that was answered last is the only one; nothing is stopped unless told so |
| Vault (`vault/`) | a list in memory | refresh, read | unsynchronised | - |
| Kafka, InfluxDB, RabbitMQ (`service/`) | none | forward requests | - | - |

How they interact: the handlers of a site read the tables and write the gateway
and the virtual service; the handlers of maintenance write the tables and edit
the virtual services; the installation of a certificate changes under which
server of the gateway the next push puts a site; creating and deleting a site
also changes DNS records; deployments, jobs and one-off pods read config variables, binds, service
credentials and plans; deployments of the second interface edit the virtual
services that a push of their site replaces. Writes of gateways and virtual services are optimistic: the
object carries a resource version, and a write with an old one is refused
(409). Writes of deployments carry none, so the last one wins.

`PROJECT.json` lists every hazard of the code we know of, at its line, with the
property that covers it, or the reason why none does.

## 2. The modules

| Module | Models | State | Actions |
|---|---|---|---|
| `Sites` | what site modules share | - | - |
| `GatewayHosts` | abstract: what the shared gateway promises | certificates and redirect per domain | `Install`, `Remove`, each one indivisible step on its own domain |
| `SitesGateway` | `InstallOrUpdateUberSiteGateway`, `DeleteUberSiteGateway`, `InstallOrUpdateGateway`, `RemoveHostsAndServers`, `AddHostsAndServers` | `gateway` (the object with its version), `call` (where each handler is, its copy) | one per request to the API server and its outcome |
| `SitesGatewayProofs` | the theorems on `SitesGateway` | | |
| `SitePaths` | the handlers of `router/http.go` that only write tables | `routers`, `rows`, `adding` (checked, not yet inserted) | one per statement |
| `SiteRouter` | composes the two with virtual services, certificates and maintenance | and `vs`, `secrets`, `appDown`, `req` | one per access to database or Kubernetes of push, delete, maintenance |
| `SiteRouterProofs` | the theorems on `SiteRouter` | | |
| `ServiceInstances` | `service/open-service-brokers.go`, the part on instances | `rows`, `broker`, `outcome`, `req` | read row, call broker, write row; the broker's own steps |
| `ServiceInstancesProofs` | the theorems on `ServiceInstances` | | |
| `DnsCache` | the cache, its refresh, the handlers of records | `route53`, `mutex`, `cache`, `refresher`, `req` | one per critical section or call of Route 53 |
| `DnsCacheProofs` | the theorems on `DnsCache` | | |
| `Apps` | `space/`, `app/createapp.go`, `app/deleteapp.go`, `app/restart.go`, `app/deployment.go` and the requests to Kubernetes they make | `spaces`, `apps`, `placed` and `instances` (the rows of `spacesapps`), `namespaces`, `deployment`, `service`, `internal`, `req` | one per statement or request of create and delete (of spaces and apps), add, remove, scale, deploy, restart; the removal of a namespace by Kubernetes |
| `AppsProofs` | the theorems on `Apps` | | |
| `ConfigVars` | `config/`, `app/createbind.go`, `app/unbindapp.go`, `service/configvars.go`, `GetBindings` | `sets`, `configvars`, `includes`, `configbound`, `servicebound`, `configvarsmap` | one per statement on the tables; operators for what each query gives; `IsEnvironmentOf`, the definition of what an environment should be |
| `Jobs` | composes `ConfigVars` with `jobs/` and `app/oneoff.go` and their requests to Kubernetes | and `jobs`, `cronjobs`, `job`, `pods`, `ending`, `oneoff`, `req` | one per query or request of run, rerun, stop, clean, scale, one-off runs and their stop; the job controller, deadlines and the end of deleted pods; changes of the tables in between |
| `JobsProofs`, `JobsSafety` | the theorems on `Jobs` | | |
| `DeploymentsV2` | `deployment/`, the view and triggers of `v2_schema_migration.sql`, the filters of `router/ingress-istio.go` | `placed`, `instances`, `deployment`, `service`, `vs` (the filters on each route of each virtual service), `jwt`, `req` | one per statement or request of add, update, scale, deploy, delete and deletion of an app, whose list may break off; publication of the site by others |
| `DeploymentsV2Proofs` | the theorems on `DeploymentsV2` | | |
| `MC...` | small instances for TLC | | |

Abstractions worth knowing:

- **Gateway.** A server is identified by its port name, `https-<certificate>`
  or `http-<domain>`, so the object is a set of hosts per certificate and a set
  of redirected hosts. The order of servers, ports and TLS options are left out.
- **Virtual service.** A set of routes from paths to hosts; the host is an app
  or the maintenance page. Rewrites, headers and filters of a route are left
  out. The version is modelled; of a deleted object it goes on counting, so a
  put for an object that was deleted and created again is refused as it is by
  Kubernetes.
- **App** in the site modules stands for the pair (app, space).
- **Brokers** are external and behave as version 2 of their interface asks:
  one operation per instance at a time, a repeated provision is answered as the
  first, 410 for what is gone.
- **Route 53** is external; an upsert replaces the record of the same name and
  type and a delete needs the very record. Only this service changes records.

- **Deployments of apps.** A deployment stands for its replica sets and pods
  too. Image, variables, plan and health check are one value, the release; the
  port it resolves to and whether it has container ports come with it. The
  three questions for what exists are one step, and so are the get and the put
  of the update of a service. A namespace is removed with all it has some time
  after it was deleted. Binds, filters and the updates of plan, health check,
  tags and port are left out. An error of a request to Kubernetes that the code
  does not look at (`CreateService` ignores the status, `DeleteApp` goes on after
  `DeleteInternalService`) is a step of its own, `ErrorIgnored`.

- **Config variables.** A set is a function from names to values and a rule of
  `configvarsmap` is a record. A variable with the empty value counts as none,
  as in the code. The set of an app with its own name is `OwnSet`: rules about a
  service belong to it. Queries that are joined in the code (sets with their
  includes) are one step, others are steps of their own, and the order of rows
  that a query does not ask for is any. A service is asked for its variables and
  gives the same ones as long as it is bound; creating and removing services is
  what `ServiceInstances` is about.
- **Jobs and one-off pods.** A run is the number of its request; image, command,
  plan and memory are left out. `pods[n]` are the runs with pods that carry the
  label of the name `n`: deleting a job leaves them, and they are deleted by the
  label. Pods that are deleted, one-off or of a job, go on until they have ended;
  those of a job are in `ending[n]` meanwhile, beside the pods of the next run. A
  scaling writes the number of pods and the deadline together, and at the deadline
  the pods end while the job stays. What the containers do (success, failures up to
  a limit, eviction) is left out, and so is the short time in which Kubernetes keeps
  a deleted job to detach its pods: a request that meets it is refused, which is a failure.
- **Second interface.** A release stands for image, variables and plan with the
  port and the filters that come with it (`PortOf`, `FiltersOf`); one release
  has no port. A filter is there or not on each route of a virtual service; what
  it says is left out. There is one site, with the deployments at its root or
  at a path, and a virtual service per deployment. Resource versions are a flag
  of the copy: `fresh` until somebody else puts the object. One-off deployments
  are as in `Jobs`, `DeleteSpaceV2` as in `Apps`. A list of deployments that
  breaks off while they are deleted (`IterationFails`) ends the loop as its last row does.

Definitions that begin with "Mutant:" in their comment are no part of the
model: each is a wrong version of the definition after it, and the property it
is listed with in `PROJECT.json` is violated when it takes its place. They show
that the properties can tell the code from a plausible bug in it.

### Ghosts

Some promises hold only for requests that do not overlap or fail: the code does
nothing against two pushes of one site at once. `suspect` names the sites,
instances or zones where that happened, and the properties speak of the others.
This is not a loophole: requests for *other* sites interleave at every step, and
each ghost is as narrow as the code allows (`ServiceInstances` lets polls overlap
with each other and with changes, and suspects an instance only when a poll writes the row
after a change wrote it that it had read before, which it notes in `stale`; `SiteRouter`
clears the suspicion with the next
push that is alone, and tells requests that met (`met`) from those that failed, which do not
matter to `ServedThroughGateway`; `DnsCache` clears it with the next refresh; `Apps` with a
deployment or a removal that is alone, and does not suspect a request that fails
before its first write). `Apps` also keeps the release whose deployment was
answered last.

`Jobs` suspects a name when requests for its job (`suspect`) or its one-off pod
(`suspectpod`) overlap, or one fails after its first write, and clears it with
the next request that is alone and deletes; `alone` and `begun` say of a request
whether that holds for it, `answered`, `wanted` and `created` what the caller was
told last. `calm` says of a request that no table changed and no query failed
since it read the binds: an environment that is read in several queries cannot
be that of one moment otherwise. `DeploymentsV2` keeps `answered` and `suspect`
alike, the filters a deployment was answered with (`guarded`, unknown when
something interfered), and the deployments that were deployed while they were
deleted (`raced`).

## 3. The runs

| Run | Question | Bounds | Result |
|---|---|---|---|
| `site_router` | Can concurrent edits of the gateway lose an edit or leave a redirect without TLS, and does its protocol implement `GatewayHosts`? Is a published site always reachable through it, and a deleted one off line, with failures anywhere and certificates arriving midway? | 2 handlers, 2 sites, 3 requests, 3 certificates, 2 tries, 6 versions | holds |
| `site_pages` | Is what is published what the tables say, with maintenance pages and changing rows? | 2 handlers, 1 site with 2 paths, 2 apps, 3 requests, 1 change of the tables | holds |
| `service_instances` | Do rows and brokers agree, and do operations get recorded as ended? | 2 handlers, 1 instance, 2 plans, 3 changes, any number of polls at any moment, 2 asynchronous operations, 1 failure | holds |
| `dns_cache` | Does the cache show ghosts, does a refresh repair it, can anyone hang? | 2 handlers, 2 zones with one record at the start, 2 values for it, 2 requests, any number of refreshes, 1 failure | holds |
| `apps` | Does the cluster run what was answered? Do rows and namespaces agree, and does what is deployed keep its space? | 2 handlers, 1 space, 1 app, 0 or 1 instances, 3 releases (container ports or not, no port), 4 requests of several steps, any number of apps created and added, 2 failures | holds |
| `jobs` | Is a job or one-off pod created with the environment its binds give it, does the run that was answered last, and only it, run, and is a job only stopped when told so, by a request or a deadline? | 2 handlers, 1 name with jobs, 2 sets, 2 services, 3 variables, 2 values, 3 requests (changes of tables included), 1 failure, 2 tables at the start | holds |
| `deployments_v2` | Does what was answered run, with the filters that were asked for, does a put of a virtual service change only what it is about, and is a row the last to go? | 2 handlers, 2 deployments of one app at the root and a path of one site, 4 releases (plain, guarded by JWT and CORS, without a port, without container ports), 0 or 1 instances, 3 requests of which 2 deploy, 1 failure or change by others (`MaxWork` 5: beside two deployments either the third request or the failure) | holds |
| `gateway_reconfigures` | Does an install move a domain from its old certificate? | 2 handlers, 2 domains, 2 certificates, 2 tries, 3 versions | violated |
| `mixed_site` | Are internal and external never mixed? | 1 site, 2 apps | violated |
| `dns_others` | Does a change of a record leave the other cached ones alone? | 2 names of one type | violated |
| `oneoff_overrides` | Do the variables of a one-off run override those of the app? | as `jobs` | violated |
| `delete_app` | Does the deletion of an app that is answered without errors delete all of it? | 2 deployments of one app | violated |

Why the bounds are enough. Two handlers give every interleaving of two
requests, and each property is about one site (instance, zone) and at most
one other actor; two domains and two certificates are the least for a shared
TLS server and for a certificate that changes. Two tries and two conflicts give
the retry and the giving up (a maintenance page gets two tries in `site_pages`
and one in `site_router`); more tries repeat the same step (the code has 7,
and the proofs are for any number). Six versions are what three requests can
write with two tries each, answers lost or not. Three requests are the least for the hazards of a site (a push, a
maintenance request that reads, a push that overtakes it). One failure, placed
anywhere, is a partial failure; more failures only make an instance suspect.
Instances share nothing, so one is enough. So it is
with apps and spaces, except that a space counts its apps; there two failures
allow one to leave something behind and one more while it is put right, and four
requests a deployment, a failed removal, a repeated one and one beside them.

In `jobs` two sets (the app's own and a shared one) with one variable in common,
an include, and two services that offer the same name are the least at which
every rule of precedence decides something, and the two tables at the start give
rules that copy, delete and rename; the second name lends its set, and with it
its rules, which are found by the set. Three
requests are a run, its rerun or stop, and one beside them. In `deployments_v2`
two deployments, one below the path of the other, are the least for a filter
that reaches routes of others; two deployments of one name are what a filter of
the first needs to be missing in the second. A deployment is by far the longest
request, so there its bound `MaxWork` counts it twice, and lets a deployment that
failed be put right by another one, or by a deletion with one more request beside
them, but not both in one behaviour.

Deadlock is checked except in `mixed_site`, whose handlers stop when nothing is
left to insert, and in `deployments_v2`, which stops when the requests are used
up. `SiteRouter` stutters once all requests are answered.

### Fairness

The site modules, `Apps`, `Jobs` and `DeploymentsV2` state safety only. `ServiceInstances` assumes that a handler
that began goes on (a goroutine is always scheduled again, and the HTTP clients
time out), that a broker ends what it began, and that the controller keeps
polling (it does so for every instance in progress): weak fairness of each.
Failures are no fair steps and are bounded. `DnsCache` assumes strong fairness
of the steps that need the mutex: Go's `sync.Mutex` hands itself over to a
waiter that starves.

## 4. What is violated, and what that means

- **`gateway_reconfigures`**: `RemoveHostsAndServers` drops a server with one
  host only when its certificate is the given one. A site that is pushed,
  gets its own certificate (or a wildcard one) and is pushed again is then
  listed in two TLS servers, although a test says that "Gateway servers
  misconfigured should reconfigure themselves".
- **`mixed_site`**: `HttpAddPath` refuses to mix internal and external;
  `HttpUpdatePath` makes no such check.
- **`dns_others`**: the filter that is to drop the old record from the cache
  drops all of the same type and all of the same name.
- **`oneoff_overrides`**: the loop that is to "Override config vars with any
  one-off env overrides" (`app/oneoff.go:125`) assigns to its own copy of the
  variable, so the app's value stays. `EnvironmentAsBound` therefore says of the
  variables that come with a request only that they are there, and with their value if
  nothing else gives one.
- **`delete_app`**: "This should delete ALL deployments with a given app ID"
  (`deployment/http.go:442`), but an error of the iteration over them ends the loop
  unnoticed (no `rows.Err()`), and the rest stays behind a 200 with those deleted so
  far. `DeletedAppIsGone` therefore speaks of the deployments that were reached.

## 5. What is proved

`SitesGatewayProofs`, for any sets of handlers, domains and certificates and any
bounds (assumptions: there is a domain and a certificate, at least one try):

- `GatewayTypeCorrect`: the type invariant. It is inductive by itself.
- `CopiesStayFresh`: a handler's copy that carries the current version is the
  edit of the current gateway (and no copy is newer than the gateway). Inductive
  with the type invariant: a write raises the version, so every other
  copy becomes old; a new read makes the copy fresh by construction. That copies are
  never newer is what keeps an old copy from becoming current later.
- `RedirectsHaveTls`: each write stores the edit of the current gateway, and
  an edit keeps a TLS server for each redirect: an install adds both, a removal
  takes the redirect and changes the servers of no other domain.
- `GatewayImplementsHosts`: by freshness a write is the edit of the current
  object, hence a step of `GatewayHosts` on the domain of the handler; every
  other step stutters.

`SiteRouterProofs`, for any handlers, domains, paths, apps, certificates and numbers of
tries and requests (assumptions: there is a domain, a path, an app and a certificate, at
least one try; the certificates of domains end in `-tls` and so are never the star
certificate, `router/ingress-istio.go:800-823`; the rows at the start are neither
internal nor in maintenance):

- `SitesFollowProtocol`: each step of the composed system is a step of the gateway's
  protocol or leaves it alone, so that the theorems of `SitesGatewayProofs` carry over.
- `TypeCorrect`: the type invariant, with what a request has at each of its steps
  (`PcOK`), and that gateway and requests name installed certificates only (`CertsOK`).
- `SitesAreServed` and `DeletedSitesAreOffline` rest on `SitesInv`. Requests at one site
  that overlap know of each other (`Apart`), so who is alone is the only one between the
  gateway and the virtual service. Such a request knows what it has reached (`RequestOK`):
  a push that got past the gateway has its redirect there, a deletion that got there has
  no virtual service, no redirect, and no entry under any certificate that could take
  precedence over the one it works on. That last part is needed since a certificate may be
  installed between its choice and the edit. Without a request midway a site is on line
  with all, or off line with nothing (`SiteOK`). That a virtual service is behind the gateway
  (`ServedOK`) needs requests to be alone only: since the gateway is edited before the virtual
  service appears, and after it is gone, a request may fail anywhere.
- `PublishedSitesMatchTable` rests on `TablesInv`. A row is unique by its key; a push that is
  alone holds the rows of the table unless it was marked as changed (`PushOK`); what a
  maintenance request is about to put is the edit of what is there, or is refused by its
  version (`EditOK`). The paths a maintenance request has not come to yet (`Waiting`) all
  have a row it has flagged (`FlagsOK`), and are the only ones on which virtual service and table may
  differ (`TableOK`): when none is waiting they are the same.
- `MaintenanceKeepsThePaths`: by `EditOK`, a put that is accepted maps the routes that are
  there, and `WithPage` keeps the path of each route.

`ServiceInstancesProofs`, for any sets of handlers, instances and plans and any
bounds (assumptions: there is an instance and a plan):

- `InstancesTypeCorrect`: the type invariant. It is inductive by itself; the
  lemmas before it follow a request through the handler: what it carries after
  the read, after the broker's answer, and what it writes.
- `NothingIsResurrected`: only `WriteRow` touches the rows; of its three
  statements the update writes a row that is there and the removal leaves none,
  so a row can only come out of an insert, which only a provision does. No
  assumption about overlaps or failures is needed.
- `RowsAreLastOperations` and `InstancesAreRecorded` rest on one invariant (`Inv`). Keys
  are given out once (`KeysOK`), so that an operation that ends is nobody else's. What
  changes an instance that is not suspect is the only change at it (`Apart`); polls
  come and go at any of its steps. A change that was accepted carries what is about the last
  operation, or, for a deprovision, comes after the instance is gone or going (`ChangeOK`).
  A poll that is not stale carries the plan and the key of the row as it is now (`PollOK`),
  so what it writes changes the status only: if a change was accepted
  meanwhile and is still to write, that write comes after it and makes the row right; if none
  was, "succeeded" is true of the last operation. A stale poll that finds a row makes the
  instance suspect, and one that finds none writes nothing. Unless a change is still to be written, the row is about the
  last operation, and without a row the broker has nothing (`RowOK`).

`JobsProofs` and `JobsSafety`, for any sets of
handlers, names, sets, services, variables and values and any bounds
(assumptions: there is a name, what is built in and offered are environments, the
constants that bound the model are subsets of their types):

- `JobsTypeCorrect`: the type invariant, with what the loop over the services
  needs: who asks has one left to ask, who creates has none.
- `JobsRunUntilToldSo`: rests on `Ops`, that a request which is at a deletion is one
  that deletes (a plain run never gets there) and that scaling keeps the run and is the
  only step that gives a job a deadline. Pods end by a deletion, by a scaling to nothing
  or at a deadline, and a new job has none.
- `JobsAsAnswered`: inductive is, for every name, the property of names without a
  request that wrote something, together with: a request that is not alone makes its
  name suspect and then none is (`Apart`), and between the deletion of
  the job and the answer a request that is alone has no job, and after the deletion
  of the pods no pods but those that are ending (`Halfway`). The controller cannot start
  pods in between since there is no job to start them for. Of the pods that are ending
  nothing is said: those of the run before may outlive the answer.
- `OneOffsAsAnswered`: likewise for one-off pods. The run is not 0 because requests
  are numbered from 1, and a pod that is there when the next is created makes its
  name suspect, since the answer to the creation is not looked at.
- `JobEnvironmentsAsBound`: the invariant is that a request that is calm holds, for
  each variable, a value of the last source that gives it one among the sources it
  has asked so far (`Partial`), for some result of the first query, and has the variables
  that came with the request besides. A step
  adds a source; the lemmas before say what each operator (`Override`,
  `GetConfigVars`, `ServiceVars`) gives, name by name. Changes of the tables make
  every request not calm, and other steps leave the tables alone.

`DnsCacheProofs`, for any zones, names, types, values and handlers and any bounds
(assumptions: there is a zone and a name, what is wanted and present are records;
fairness is not used):

- `DnsTypeCorrect`: the type invariant, with what the refresh relies on: the cache
  is nil while one runs, and a handler has at most one change that is not cached yet.
- `DnsCachedIsThere` and `DnsRefreshedIsComplete` rest on one invariant per zone. What
  a refresh has listed of a zone is what the zone has, unless it was changed since
  (`ListedOK`): that is what lets a refresh repair a suspect zone. A change that is
  made and not cached yet is the only one of its zone or makes it suspect, and what
  it leaves of the cached records is still there (`OpenOK`); the two properties
  themselves are the third part (`Shows`), since a change relies on what is cached.

`AppsProofs`, for any handlers, spaces, apps, numbers of instances, releases and
ports and any bounds (assumptions: there is a space, an app and a release, and a
number of instances; ports and releases are not the values that stand for none):

- `AppsTypeCorrect`: the type invariant, with the steps each operation knows (`OpOK`).
- `SpacesAreBacked`: per space. A request that is alone, or whose space is not bad,
  is the only one that creates or deletes the space (`SpaceApart`); what it did
  between its statements is there (`Midway`), and without anybody in between row
  and namespace agree (`Agree`).
- `AppsRunAsAnswered` and `AppsDeployedKeepHome`: per app in a space, on top of that. Who
  is alone, or whose pair is not suspect, has nobody beside it but restarts beside a
  restart (`Apart`). What was deployed has its space, app and row (`HomeOK`), since
  deletions that get past their checks found nothing deployed (`VacantOK`) and it
  stays so while they are the only ones. What was deployed runs and what was removed
  has left nothing unless somebody is at it (`RunsOK`, `CleanOK`), and who is at it
  knows what it has seen and done so far: a deployment what exists and what it has
  written (`DeployOK`), a removal what is gone (`RemoveOK`), a scaling the row
  (`ScaleOK`), a restart that its copy is what runs (`RestartOK`). A deployment may
  create in its namespace because the space's invariant gives the namespace
  (`ReadyToDeploy`), and a namespace that goes was nobody's for the same reason
  (`PairGone`).

`DeploymentsV2Proofs`, for any handlers, deployments, apps, paths, numbers of instances and
releases (assumptions: there is a deployment, an app and a release; a
release has at most three filters, in any order, repeated or not: the code takes a list of
any length, but there are three kinds, and so the sequences of tasks are put together without recursion; the objects for tokens are no virtual services;
the value that stands for no virtual service is none):

- `DeploymentsTyped` rests on `Machine`: the types, and for each request what it is about
  (`OpOK`) and that its tasks are about its own objects, with the two objects
  for tokens always in turn (`TodoOK`).
- `FiltersChangeAlone`: a copy is what is there as long as nobody marked it as old
  (`FreshOK`, in `Machine`), for everyone who puts an object marks the copies of all
  others. So what is put differs from what was there by the edit alone.
- `DeployedRuns` and `RowsGoLast` rest on `RowsInv`. Requests that meet at a deployment know
  of it (`Apart`): the deployment is suspect, none of them is alone, and
  if one deletes it is raced. Who is alone, or whose deployment is not suspect, knows what
  it has read and written so far (`DeployOK`, `RowsOK`, `RemoveOK`), and a deployment that is
  neither suspect nor midway runs what was answered (`RunsOK`). The row goes last (`RowLast`)
  because a deletion that is not raced has removed the rest when it gets there, and because a
  deployment that writes has its row (`RowHere`).
- `DeployedIsFiltered`, on top of that: while a request that is alone installs, each filter
  asked for is in place or still to do (`Installing`); what it then removes is what it has
  not found, which is what was not asked for, and nothing of it is left unless it is still to
  do (`Removing`). When no task is left the filters are those of the release (`Filtered`), and
  stay so until the next deployment is at its filters or others remake the virtual service,
  either of which makes the answer void (`GuardOK`).
- `AppsAreGone`: of the deployments listed all those are gone that are neither left nor noted
  as errors, but for the one at hand (`AppOK`), with their objects, since a row goes last;
  rows come back only by a request that was met. That none are left at the answer is not
  so (`delete_app`).

Only model-checked: the two liveness properties (`Settles` of `ServiceInstances` and
`EverythingEnds` of `DnsCache`), which are out of the prover's reach since they need fairness
and ENABLED. Every property of the runs that hold is a theorem.

## 6. Seen while modelling

These came up while the code was translated. The models do what the code does;
no run is about them, because no text of the repository promises otherwise or
because the data is left out.

- `jobs/jobs.go:172` inserts the command as the plan when `UpdateJob` finds no row.
  The command of a job never reaches Kubernetes.
- The error of `GetBindings` is overwritten by the next call (`jobs/jobs.go:279`), so
  that a query of the binds that fails gives a job without its variables, answered
  as created (`ErrorIgnored`).
- `jobs/cronjobs.go:194` looks at the wrong error variable; `DeleteCronJob` and
  `StopCronJob` go on after they answered 404. `deploymentToCronJob` uses a pointer
  nobody set, so no cron job is ever created in Kubernetes (`CreateCronJob`).
- A stop that finds pods but no job answers 404 and leaves them; `CleanJobs` does not.
- The pod of a one-off run is answered as created while the one before is still ending
  and Kubernetes refuses the new one.
- The pods of a job's run before are still ending when the next run starts, since nobody
  waits for them (`runtime/kubernetes.go:1083`).
- A scaling writes the deadline of the request with the number of pods
  (`runtime/kubernetes.go:2018`): a timeout of 0 ends the job's pods at once.
- A provision that the broker finished at once is recorded as in progress
  (`service/open-service-brokers.go:326`; an update is recorded as succeeded, line 360), and
  updates are refused as if it were still in progress until somebody polls.
- A poll that read the row before an update wrote it and writes after it restores the old
  plan and key (`service/open-service-brokers.go:445-472`), and a later poll then asks about
  the old operation.
- A rule that fits no variable of a service is an error, so that a service with two
  variables cannot have a rule about one of them (`Unfit`).
- In the second interface a release without a port is refused after its deployment was
  written (`deployment/deployment.go:582`). Filters of a first deployment find no
  virtual service and are answered as if they were installed.
- A conflict while a filter is installed on the deployment's own virtual service
  makes the same request remove that filter everywhere. An app at the root of a
  site installs and removes filters on all of its routes, and a publication
  of the site sets them back to those of the table.
- The trigger of the view writes the whole old row: an update of the plan that
  overlaps with a scaling takes the scaling back.
- `DeleteAppV2` deletes every row twice and reports an error for a deployment that
  somebody else deleted first; it holds one connection of the pool while each
  deletion takes another.

## 7. The plan

Done: the seven runs that hold and the five that do not, and the 32 theorems
above. Next, in this order:

1. `Catalog` and `RuntimeStacks` for the unlocked caches, with each read of a pointer
   a step of its own.
2. `SetDomainName` and the zones it chooses, on `DnsCache`, and with it the transition
   of an app or a site from one ingress to another.
3. The pool of connections of the database under `DeleteAppV2`.

Not modelled and not planned: certificates (the only kind of ingress installs them
by itself, the handlers create one object and read it), reports (`router/sites.go`, `app/describeapp.go`,
lists), forwarding services (Kafka, InfluxDB, RabbitMQ, the HTTP proxies),
start-up, templates, and the format of anything.
