---------------------------- MODULE DeploymentsV2 ----------------------------
(***************************************************************************)
(* The second interface of the region (deployment/): the deployments of an *)
(* app in a space, each with a row of the view v2.deployments, and in      *)
(* Kubernetes a deployment and perhaps a service; and the HTTP filters of  *)
(* a deployment, which Istio applies: JSON web tokens by two objects, and  *)
(* CORS and CSP by fields of the routes in virtual services.  One virtual  *)
(* service leads to the deployment itself (it is made by others, after the *)
(* service), and that of the site has a route for every path of the site   *)
(* that leads to a deployment.                                             *)
(*                                                                         *)
(* A virtual service is got, edited and put back whole; Kubernetes refuses *)
(* one whose resource version is not the last.  What goes wrong with a     *)
(* filter is a warning in the log, the deployment goes on.                 *)
(*                                                                         *)
(* As in the module Apps, a deployment stands for its replica sets and     *)
(* pods; what is deployed is a release, of which the port and the filters  *)
(* matter.  One space, one site, and at most one path to a deployment.     *)
(***************************************************************************)
EXTENDS Naturals, Sequences

CONSTANTS Handler,      \* the concurrent requests
          Name,         \* the deployments
          AppID, AppOf, \* AppOf[n]: the app the deployment n is of
          Site, Path, NoPath,
          RouteOf,      \* RouteOf[n]: the path of the site that leads to n, or NoPath
          Begins,       \* the pairs of paths the first of which begins the second
          Published,    \* Published[n]: the filters of its path in the table of the site
          Instances,
          Release, NoRelease,
          FirstRelease, \* what is deployed at first
          Port, NoPort, Unset,
          PortOf,       \* PortOf[r]: the port r is deployed with; NoPort (-1) or Unset (0)
          FiltersOf,    \* FiltersOf[r]: the filters r is deployed with, in turn, at most
                        \* three
          NoService, Unknown,
          MaxRequests,  \* bound: the requests
          MaxDeploys,   \* bound: the deployments among them
          MaxTroubles,  \* bound: failed statements and requests to Kubernetes, and
                        \* changes of virtual services by others
          MaxWork       \* bound: all of these together (a deployment counts twice)

Filter == {"jwt", "cors", "csp"}
ASSUME NamesAssumption ==
  /\ Name # {} /\ AppOf \in [Name -> AppID] /\ RouteOf \in [Name -> Path \union {NoPath}]
  /\ Site \notin Name /\ Begins \subseteq Path \X Path
  /\ Published \in [Name -> SUBSET {"cors", "csp"}]
ASSUME ReleasesAssumption ==
  /\ Instances \subseteq Nat /\ Instances # {}
  /\ FirstRelease \in Release /\ PortOf[FirstRelease] \in Port /\ FiltersOf[FirstRelease] = <<>>
  /\ NoRelease \notin Release /\ {NoPort, Unset} \intersect Port = {}
  /\ PortOf \in [Release -> Port \union {NoPort, Unset}]
  /\ FiltersOf \in [Release -> {<<>>} \union [{1} -> Filter] \union [{1, 2} -> Filter]
                                \union [{1, 2, 3} -> Filter]]
ASSUME BoundsAssumption == {MaxRequests, MaxDeploys, MaxTroubles, MaxWork} \subseteq Nat

VARIABLES
  placed, instances,   \* the rows, and their numbers of instances
  deployment, service, \* what is deployed, how often, and the port of the service
  vs,                  \* vs[o][n]: the filters the virtual service o has on the route to n
  jwt,                 \* jwt[n]: which of its two objects for tokens there are
  req,                 \* req[h]: the request the handler h works on
  answered,            \* ghost: the release whose deployment was answered well last
  guarded,             \* ghost: the filters it was answered with, if nothing interfered
  suspect,             \* ghost: deployments with overlapping or failed requests
  raced,               \* ghost: those that were deleted and deployed at the same time
  requests, deploys, troubles

rows == <<placed, instances>>
cluster == <<deployment, service>>
filters == <<vs, jwt>>
ghosts == <<answered, guarded, suspect, raced>>
counters == <<requests, deploys, troubles>>
\* What MaxWork bounds.
work == requests + deploys + troubles
vars == <<rows, cluster, filters, req, ghosts, counters>>

Deployment == [release : Release \union {NoRelease}, replicas : Instances]
NoDeployment == [release |-> NoRelease, replicas |-> CHOOSE n \in Instances : TRUE]
VirtualService == [Name -> SUBSET {"cors", "csp"}]
Bare == [n \in Name |-> {}]
TokenObjects == {"authentication", "policies"}
\* Virtual services and the objects for tokens are of different kinds.
ASSUME ObjectsAssumption ==
  TokenObjects \intersect (Name \union {Site}) = {} /\ NoService \notin VirtualService
Task == [do : {"install", "remove"}, filter : Filter, object : Name \union {Site} \union TokenObjects]

Unbegun == {"check", "insert", "read", "exists", "deploy", "snapshot", "setinstances",
            "info", "count", "list"}
Begun == {"serviceexists", "service", "filter", "put", "answer", "write", "scale",
          "next", "found", "delservice", "deldeployment", "delrow", "delagain"}
Deleting == {"delete", "deleteapp"}
Request == [pc : {"idle"} \union Unbegun \union Begun,
            op : {"add", "deploy", "scale", "update"} \union Deleting,
            name : Name, app : AppID, release : Release, instances : Instances,
            seen : BOOLEAN, todo : Seq(Task), found : SUBSET Filter,
            copy : VirtualService \union {NoService}, fresh : BOOLEAN,
            left : SUBSET Name, listed : SUBSET Name, errors : SUBSET Name, alone : BOOLEAN]
NoRequest == [pc |-> "idle", op |-> "deploy", name |-> CHOOSE n \in Name : TRUE,
              app |-> CHOOSE a \in AppID : TRUE, release |-> CHOOSE r \in Release : TRUE,
              instances |-> NoDeployment.replicas, seen |-> FALSE, todo |-> <<>>, found |-> {},
              copy |-> NoService, fresh |-> TRUE,
              left |-> {}, listed |-> {}, errors |-> {}, alone |-> TRUE]

-----------------------------------------------------------------------------
(* Requests begin and end. *)

Touches(r) == IF r.op = "deleteapp" THEN {n \in Name : AppOf[n] = r.app} ELSE {r.name}

\* Ghost: requests that overlap make what they share suspect; a deployment whose
\* deletion overlaps with something else may end up without a row.
Arrive(h, r) ==
  LET others == {o \in Handler : req[o].pc # "idle" /\ Touches(req[o]) \intersect Touches(r) # {}}
      shared(os) == UNION {Touches(req[o]) \intersect Touches(r) : o \in os}
  IN  /\ req[h].pc = "idle" /\ requests < MaxRequests /\ work < MaxWork
      /\ requests' = requests + 1
      /\ r.op = "deploy" => deploys < MaxDeploys /\ work + 1 < MaxWork
      /\ deploys' = IF r.op = "deploy" THEN deploys + 1 ELSE deploys
      /\ req' = [o \in Handler |->
                   IF o = h THEN [r EXCEPT !.alone = others = {}]
                   ELSE IF o \in others THEN [req[o] EXCEPT !.alone = FALSE] ELSE req[o]]
      /\ suspect' = suspect \union shared(others)
      /\ raced' = raced \union shared({o \in others : Deleting \intersect {r.op, req[o].op} # {}})
      /\ UNCHANGED <<rows, cluster, filters, answered, guarded, troubles>>

Begin(h, op, pc, n) == Arrive(h, [NoRequest EXCEPT !.pc = pc, !.op = op, !.name = n])
StartAdd(h, n, i) ==
  Arrive(h, [NoRequest EXCEPT !.pc = "check", !.op = "add", !.name = n, !.instances = i])
StartDeployment(h, n, r) == Arrive(h, [NoRequest EXCEPT !.pc = "read", !.name = n, !.release = r])
StartScale(h, n, i) ==
  Arrive(h, [NoRequest EXCEPT !.pc = "setinstances", !.op = "scale", !.name = n, !.instances = i])
StartUpdate(h, n) == Begin(h, "update", "snapshot", n)
StartDelete(h, n) == Begin(h, "delete", "info", n)
StartDeleteApp(h, a) ==
  Arrive(h, [NoRequest EXCEPT !.pc = "count", !.op = "deleteapp", !.app = a])

To(h, pc) == req' = [req EXCEPT ![h].pc = pc] /\ UNCHANGED ghosts
Refuse(h) == req' = [req EXCEPT ![h] = NoRequest] /\ UNCHANGED ghosts

\* The request ends with an error: what it had begun is suspect.
Fail(h) ==
  /\ req' = [req EXCEPT ![h] = NoRequest]
  /\ suspect' = IF req[h].pc \in Begun THEN suspect \union Touches(req[h]) ELSE suspect
  /\ UNCHANGED <<answered, guarded, raced>>

\* One of the deployments of an app that cannot be deleted is noted, and the next is
\* tried.
NoteError(h) ==
  /\ req' = [req EXCEPT ![h].pc = "next", ![h].errors = @ \union {req[h].name}]
  /\ suspect' = suspect \union {req[h].name}
  /\ UNCHANGED <<answered, guarded, raced>>

\* Mutant: it is not noted.
SkipError(h) ==
  /\ req' = [req EXCEPT ![h].pc = "next"]
  /\ suspect' = suspect \union {req[h].name}
  /\ UNCHANGED <<answered, guarded, raced>>

DeletionFailed(h) == NoteError(h)
Error(h) == IF req[h].op = "deleteapp" /\ req[h].pc \notin {"count", "list"}
            THEN DeletionFailed(h) ELSE Fail(h)

-----------------------------------------------------------------------------
(* AddDeploymentV2, and the updates of a row. *)

CheckDeployment(h) ==
  /\ req[h].pc = "check"
  /\ IF req[h].name \in placed THEN Refuse(h) ELSE To(h, "insert")
  /\ UNCHANGED <<rows, cluster, filters>>

\* The primary key of the table behind the view refuses a second row.
InsertDeployment(h) ==
  LET n == req[h].name IN
  /\ req[h].pc = "insert"
  /\ Refuse(h)
  /\ placed' = placed \union {n}
  /\ instances' = IF n \in placed THEN instances ELSE [instances EXCEPT ![n] = req[h].instances]
  /\ UNCHANGED <<cluster, filters>>

\* An update of another column (the plan, the health check): the view has the old row
\* before its trigger writes all of it, the number of instances as well.
SnapshotRow(h) ==
  LET n == req[h].name IN
  /\ req[h].pc = "snapshot"
  /\ IF n \in placed
     THEN req' = [req EXCEPT ![h].pc = "write", ![h].instances = instances[n]] /\ UNCHANGED ghosts
     ELSE Refuse(h)
  /\ UNCHANGED <<rows, cluster, filters>>

UpdateRow(h) ==
  LET n == req[h].name IN
  /\ req[h].pc = "write"
  /\ Refuse(h)
  /\ instances' = IF n \in placed THEN [instances EXCEPT ![n] = req[h].instances] ELSE instances
  /\ UNCHANGED <<placed, cluster, filters>>

\* Mutant: a deployment without a row gets instances.
SetInstancesAnyway(h) ==
  /\ req[h].pc = "setinstances"
  /\ instances' = [instances EXCEPT ![req[h].name] = req[h].instances]
  /\ To(h, "scale")
  /\ UNCHANGED <<placed, cluster, filters>>

\* ScaleDeploymentV2.
SetInstances(h) ==
  LET n == req[h].name IN
  /\ req[h].pc = "setinstances"
  /\ instances' = IF n \in placed THEN [instances EXCEPT ![n] = req[h].instances] ELSE instances
  /\ To(h, "scale")
  /\ UNCHANGED <<placed, cluster, filters>>

\* Whether there was anything to scale does not matter.
Scale(h) ==
  LET n == req[h].name IN
  /\ req[h].pc = "scale"
  /\ deployment' = IF deployment[n].release = NoRelease THEN deployment
                   ELSE [deployment EXCEPT ![n].replicas = req[h].instances]
  /\ Refuse(h)
  /\ UNCHANGED <<rows, service, filters>>

-----------------------------------------------------------------------------
(* DeploymentV2: the deployment, then the service, then the filters. *)

ReadDeployment(h) ==
  LET n == req[h].name IN
  /\ req[h].pc = "read"
  /\ IF n \in placed
     THEN req' = [req EXCEPT ![h].pc = "exists", ![h].instances = instances[n]] /\ UNCHANGED ghosts
     ELSE Refuse(h)
  /\ UNCHANGED <<rows, cluster, filters>>

DeploymentExists(h) ==
  /\ req[h].pc = "exists"
  /\ req' = [req EXCEPT ![h].pc = "deploy",
                        ![h].seen = deployment[req[h].name].release # NoRelease]
  /\ UNCHANGED <<rows, cluster, filters, ghosts>>

\* Mutant: an update leaves the number of replicas alone.
WriteRelease(h) ==
  LET n == req[h].name IN
  /\ req[h].pc = "deploy"
  /\ IF req[h].seen = (deployment[n].release # NoRelease)
     THEN /\ deployment' = [deployment EXCEPT ![n].release = req[h].release]
          /\ To(h, IF PortOf[req[h].release] = NoPort THEN "answer" ELSE "serviceexists")
     ELSE Error(h) /\ UNCHANGED deployment
  /\ UNCHANGED <<rows, service, filters>>

\* CreateDeployment of what is there, UpdateDeployment of what is not, is an error.
WriteDeployment(h) ==
  LET n == req[h].name IN
  /\ req[h].pc = "deploy"
  /\ IF req[h].seen = (deployment[n].release # NoRelease)
     THEN /\ deployment' = [deployment EXCEPT
               ![n] = [release |-> req[h].release, replicas |-> req[h].instances]]
          /\ To(h, IF PortOf[req[h].release] = NoPort THEN "answer" ELSE "serviceexists")
     ELSE Error(h) /\ UNCHANGED deployment
  /\ UNCHANGED <<rows, service, filters>>

ServiceExists(h) ==
  /\ req[h].pc = "serviceexists"
  /\ req' = [req EXCEPT ![h].pc = "service", ![h].seen = service[req[h].name] # NoPort]
  /\ UNCHANGED <<rows, cluster, filters, ghosts>>

\* The objects with a filter of a deployment: its virtual service and that of the site.
Objects(f, n) ==
  IF f = "jwt" THEN <<"authentication", "policies">>
  ELSE IF RouteOf[n] = NoPath THEN <<n>> ELSE <<n, Site>>

\* What there is to do about the filter f.
Tasks(do, f, n) ==
  [i \in DOMAIN Objects(f, n) |-> [do |-> do, filter |-> f, object |-> Objects(f, n)[i]]]

\* The filters asked for are installed in turn.
Installations(fs, n) ==
  LET of(i) == IF i \in DOMAIN fs THEN Tasks("install", fs[i], n) ELSE <<>>
  IN  of(1) \o of(2) \o of(3)

\* Mutant: what is not asked for any more stays.
NothingRemoved(found, n) == <<>>

\* Afterwards the filters that were not found are removed.
Removals(found, n) ==
  LET of(f) == IF f \in found THEN <<>> ELSE Tasks("remove", f, n)
  IN  of("cors") \o of("csp") \o of("jwt")

\* The request r goes on with its next task.
Proceed(r, do) ==
  LET todo == IF r.todo = <<>> /\ do = "install"
              THEN Removals(r.found, r.name) ELSE r.todo
  IN  [r EXCEPT !.pc = IF todo = <<>> THEN "answer" ELSE "filter",
                !.todo = todo, !.copy = NoService, !.fresh = TRUE]

\* The port of the payload, whatever port was found for the deployment: one that is
\* not given is refused here, after the deployment was written.  CreateService and
\* UpdateService do not look at the status of the answer.
WriteService(h) ==
  LET n == req[h].name
      r == req[h].release
  IN  /\ req[h].pc = "service"
      /\ IF PortOf[r] = Unset \/ (req[h].seen /\ service[n] = NoPort)
         THEN Error(h) /\ UNCHANGED service
         ELSE /\ service' = IF req[h].seen \/ service[n] = NoPort
                            THEN [service EXCEPT ![n] = PortOf[r]] ELSE service
              /\ req' = [req EXCEPT ![h] =
                   Proceed([@ EXCEPT !.todo = Installations(FiltersOf[r], n)], "install")]
              /\ guarded' = [guarded EXCEPT ![n] = Unknown]
              /\ UNCHANGED <<answered, suspect, raced>>
      /\ UNCHANGED <<rows, deployment, filters>>

-----------------------------------------------------------------------------
(* The filters. *)

First(h) == Head(req[h].todo)

\* The task is done.  The filters found are those that were installed on the virtual
\* service of the deployment itself, whatever became of the site.
TaskDone(h) ==
  LET t == First(h)
      own == t.do = "install" /\ t.object # Site
  IN  Proceed([req[h] EXCEPT !.todo = Tail(@), !.found = IF own THEN @ \union {t.filter} ELSE @], t.do)

\* The task failed, which is a warning.  Tokens are found all the same, but their
\* second object is not tried; a virtual service to install on that cannot be got
\* passes for one that is not there.
TaskFailed(h) ==
  LET t == First(h)
      left == Tail(req[h].todo)
      passes == t.do = "install" /\ t.object # Site /\ (t.filter = "jwt" \/ req[h].pc = "filter")
  IN  Proceed([req[h] EXCEPT !.alone = FALSE,
                 !.todo = IF t.object = "authentication" THEN Tail(left) ELSE left,
                 !.found = IF passes THEN @ \union {t.filter} ELSE @], t.do)

\* Without a virtual service ("not yet deployed") there is nothing to do.
GetVirtualService(h) ==
  LET o == First(h).object IN
  /\ req[h].pc = "filter" /\ First(h).filter # "jwt"
  /\ req' = [req EXCEPT ![h] = IF vs[o] = NoService THEN TaskDone(h)
                               ELSE [@ EXCEPT !.pc = "put", !.copy = vs[o], !.fresh = TRUE]]
  /\ UNCHANGED <<rows, cluster, filters, ghosts>>

\* The routes a task is about: of the site, all those whose path begins with the path
\* of the deployment, be they to other deployments.
Reached(h) ==
  IF First(h).object = Site
  THEN {e \in Name : RouteOf[e] # NoPath /\ <<RouteOf[req[h].name], RouteOf[e]>> \in Begins}
  ELSE {req[h].name}

Edited(h) ==
  LET t == First(h) IN
  [e \in Name |-> IF e \notin Reached(h) THEN req[h].copy[e]
                  ELSE IF t.do = "install" THEN req[h].copy[e] \union {t.filter}
                  ELSE req[h].copy[e] \ {t.filter}]

\* Mutant: the virtual service is put without its resource version.
PutAnyway(h) == vs[First(h).object] # NoService

\* Only the version that was got is replaced.
VersionIsLast(h) == req[h].fresh

\* Others who have got the object have an old version now.
Outdated(reqs, o) ==
  [g \in Handler |-> IF reqs[g].pc = "put" /\ Head(reqs[g].todo).object = o
                     THEN [reqs[g] EXCEPT !.fresh = FALSE] ELSE reqs[g]]

PutVirtualService(h) ==
  LET o == First(h).object IN
  /\ req[h].pc = "put"
  /\ IF VersionIsLast(h)
     THEN /\ vs' = [vs EXCEPT ![o] = Edited(h)]
          /\ req' = Outdated([req EXCEPT ![h] = TaskDone(h)], o)
     ELSE req' = [req EXCEPT ![h] = TaskFailed(h)] /\ UNCHANGED vs
  /\ UNCHANGED <<rows, cluster, jwt, ghosts>>

\* The two objects for tokens are got and put as well, but for their versions what is
\* put does not depend on what was got.
SetTokenObject(h) ==
  LET t == First(h)
      n == req[h].name
  IN  /\ req[h].pc = "filter" /\ t.filter = "jwt"
      /\ jwt' = [jwt EXCEPT ![n] = IF t.do = "install" THEN @ \union {t.object} ELSE @ \ {t.object}]
      /\ req' = [req EXCEPT ![h] = TaskDone(h)]
      /\ UNCHANGED <<rows, cluster, vs, ghosts>>

Answer(h) ==
  LET n == req[h].name
      r == req[h].release
      fs == {FiltersOf[r][i] : i \in DOMAIN FiltersOf[r]}
  IN  /\ req[h].pc = "answer"
      /\ req' = [req EXCEPT ![h] = NoRequest]
      /\ answered' = [answered EXCEPT ![n] = r]
      /\ guarded' = [guarded EXCEPT ![n] =
           IF PortOf[r] = NoPort THEN @
           ELSE IF req[h].alone /\ vs[n] # NoService THEN fs ELSE Unknown]
      /\ suspect' = IF req[h].alone THEN suspect \ {n} ELSE suspect
      /\ UNCHANGED <<rows, cluster, filters, raced>>

-----------------------------------------------------------------------------
(* DeleteDeploymentV2, for one deployment or for all of an app. *)

DeploymentInfo(h) ==
  /\ req[h].pc = "info"
  /\ IF req[h].name \in placed THEN To(h, "found") ELSE Refuse(h)
  /\ UNCHANGED <<rows, cluster, filters>>

OfApp(a) == {n \in placed : AppOf[n] = a}

CountDeployments(h) ==
  /\ req[h].pc = "count"
  /\ IF OfApp(req[h].app) = {} THEN Refuse(h) ELSE To(h, "list")
  /\ UNCHANGED <<rows, cluster, filters>>

ListDeployments(h) ==
  /\ req[h].pc = "list"
  /\ req' = [req EXCEPT ![h].pc = "next", ![h].left = OfApp(req[h].app),
                        ![h].listed = OfApp(req[h].app)]
  /\ UNCHANGED <<rows, cluster, filters, ghosts>>

NextDeployment(h) ==
  /\ req[h].pc = "next"
  /\ \E n \in req[h].left :
       req' = [req EXCEPT ![h].pc = "found", ![h].name = n, ![h].left = @ \ {n}]
  /\ UNCHANGED <<rows, cluster, filters, ghosts>>

\* After the last row those that were noted are answered as an error, and without any
\* the others as deleted.
DeletionAnswered(h) ==
  /\ req[h].pc = "next" /\ req[h].left = {}
  /\ Refuse(h)
  /\ UNCHANGED <<rows, cluster, filters>>

\* A next row that cannot be had (its connection is open while deployments are deleted)
\* ends the loop like the last one: nobody asks whether there was an error, and those
\* deleted so far are answered.  It is not counted, a request has at most one.
IterationFails(h) ==
  /\ req[h].pc = "next" /\ req[h].left # {}
  /\ Refuse(h)
  /\ UNCHANGED <<rows, cluster, filters>>

\* That somebody else deleted it first is an error.
DeploymentFound(h) ==
  /\ req[h].pc = "found"
  /\ IF req[h].name \in placed THEN To(h, "delservice") ELSE Error(h)
  /\ UNCHANGED <<rows, cluster, filters>>

DeleteService(h) ==
  /\ req[h].pc = "delservice"
  /\ service' = [service EXCEPT ![req[h].name] = NoPort]
  /\ To(h, "deldeployment")
  /\ UNCHANGED <<rows, deployment, filters>>

\* Mutant: the deployment is left to itself.
KeepDeployment(h) ==
  /\ req[h].pc = "deldeployment"
  /\ To(h, "delrow")
  /\ UNCHANGED <<rows, cluster, filters>>

\* With its replica sets and pods, whose removal may fail without an error.
DeleteDeployment(h) ==
  /\ req[h].pc = "deldeployment"
  /\ deployment' = [deployment EXCEPT ![req[h].name] = NoDeployment]
  /\ To(h, "delrow")
  /\ UNCHANGED <<rows, service, filters>>

\* The rows of its binds go first; they are left out here.
RemoveRow(h) ==
  /\ placed' = placed \ {req[h].name}
  /\ instances' = [instances EXCEPT ![req[h].name] = NoDeployment.replicas]

DeleteRow(h) ==
  LET n == req[h].name IN
  /\ req[h].pc = "delrow"
  /\ RemoveRow(h)
  /\ req' = [req EXCEPT ![h] = IF @.op = "delete" THEN NoRequest ELSE [@ EXCEPT !.pc = "delagain"]]
  /\ answered' = [answered EXCEPT ![n] = NoRelease]
  /\ suspect' = IF req[h].alone THEN suspect \ {n} ELSE suspect
  /\ raced' = IF req[h].alone THEN raced \ {n} ELSE raced
  /\ UNCHANGED <<guarded, cluster, filters>>

\* DeleteAppV2 deletes the row once more, also one that was added meanwhile.
DeleteRowAgain(h) ==
  /\ req[h].pc = "delagain"
  /\ RemoveRow(h)
  /\ To(h, "next")
  /\ UNCHANGED <<cluster, filters>>

-----------------------------------------------------------------------------
(* Failures, and what others do to the virtual services. *)

\* A statement or a request to Kubernetes fails; about a filter it is a warning.  One
\* that fails on its way back is the failure of the next one.  (The next row of the
\* deletion of an app fails in IterationFails.)
RequestFailure(h) ==
  /\ req[h].pc \notin {"idle", "next", "answer"} /\ troubles < MaxTroubles /\ work < MaxWork
  /\ troubles' = troubles + 1
  /\ IF req[h].pc \in {"filter", "put"}
     THEN req' = [req EXCEPT ![h] = TaskFailed(h)] /\ UNCHANGED ghosts
     ELSE Error(h)
  /\ UNCHANGED <<rows, cluster, filters, requests, deploys>>

\* One whose status nobody looks at.
Unchecked == [service |-> "filter", scale |-> "idle", delservice |-> "deldeployment",
              deldeployment |-> "delrow"]

ErrorIgnored(h) ==
  LET me == req[h]
      on == [me EXCEPT !.alone = FALSE, !.pc = Unchecked[me.pc]]
  IN  /\ me.pc \in DOMAIN Unchecked /\ troubles < MaxTroubles /\ work < MaxWork
      /\ me.pc = "service" => PortOf[me.release] # Unset
      /\ troubles' = troubles + 1
      /\ req' = [req EXCEPT ![h] =
           CASE me.pc = "service" ->
                  Proceed([on EXCEPT !.todo = Installations(FiltersOf[me.release], me.name)], "install")
             [] me.pc = "scale" -> NoRequest
             [] OTHER           -> on]
      /\ suspect' = suspect \union {me.name}
      /\ raced' = IF me.op \in Deleting THEN raced \union {me.name} ELSE raced
      /\ guarded' = IF me.pc = "service" THEN [guarded EXCEPT ![me.name] = Unknown] ELSE guarded
      /\ UNCHANGED <<rows, cluster, filters, answered, requests, deploys>>

\* The virtual service of a deployment is made, without filters, and removed by others.
Change(o, v) ==
  /\ troubles < MaxTroubles /\ work < MaxWork /\ troubles' = troubles + 1
  /\ vs' = [vs EXCEPT ![o] = v]
  /\ UNCHANGED <<rows, cluster, jwt, answered, suspect, raced, requests, deploys>>

AppVirtualService(n) ==
  /\ (vs[n] = NoService) = (service[n] # NoPort)
  /\ Change(n, IF vs[n] = NoService THEN Bare ELSE NoService)
  /\ guarded' = [guarded EXCEPT ![n] = Unknown]
  /\ req' = Outdated([h \in Handler |-> IF n \in Touches(req[h]) /\ req[h].pc # "idle"
                                        THEN [req[h] EXCEPT !.alone = FALSE] ELSE req[h]], n)

\* The site is published (the module SiteRouter): its routes have the filters of the
\* table again.
PublishSite ==
  /\ Change(Site, Published)
  /\ req' = Outdated(req, Site)
  /\ UNCHANGED guarded

-----------------------------------------------------------------------------
\* None of the deployments are there, or all are and run a release without filters; the site was
\* published.
Init ==
  /\ placed \in {{}, Name} /\ instances = [n \in Name |-> NoDeployment.replicas]
  /\ deployment = [n \in Name |->
       IF n \in placed THEN [NoDeployment EXCEPT !.release = FirstRelease] ELSE NoDeployment]
  /\ service = [n \in Name |-> IF n \in placed THEN PortOf[FirstRelease] ELSE NoPort]
  /\ vs = [o \in Name \union {Site} |->
       IF o = Site THEN Published ELSE IF o \in placed THEN Bare ELSE NoService]
  /\ jwt = [n \in Name |-> {}]
  /\ req = [h \in Handler |-> NoRequest]
  /\ answered = [n \in Name |-> deployment[n].release] /\ guarded = [n \in Name |-> Unknown]
  /\ suspect = {} /\ raced = {}
  /\ requests = 0 /\ deploys = 0 /\ troubles = 0

Start(h) ==
  \/ \E n \in Name :
       \/ StartUpdate(h, n) \/ StartDelete(h, n)
       \/ \E r \in Release : StartDeployment(h, n, r)
       \/ \E i \in Instances : StartAdd(h, n, i) \/ StartScale(h, n, i)
  \/ \E a \in AppID : StartDeleteApp(h, a)

Step(h) ==
  /\ \/ CheckDeployment(h) \/ InsertDeployment(h) \/ SnapshotRow(h) \/ UpdateRow(h)
     \/ SetInstances(h) \/ Scale(h)
     \/ ReadDeployment(h) \/ DeploymentExists(h) \/ WriteDeployment(h)
     \/ ServiceExists(h) \/ WriteService(h)
     \/ GetVirtualService(h) \/ PutVirtualService(h) \/ SetTokenObject(h) \/ Answer(h)
     \/ DeploymentInfo(h) \/ CountDeployments(h) \/ ListDeployments(h)
     \/ NextDeployment(h) \/ DeletionAnswered(h) \/ IterationFails(h)
     \/ DeploymentFound(h) \/ DeleteService(h) \/ DeleteDeployment(h)
     \/ DeleteRow(h) \/ DeleteRowAgain(h)
  /\ UNCHANGED counters

Next ==
  \/ \E h \in Handler : Start(h) \/ Step(h) \/ RequestFailure(h) \/ ErrorIgnored(h)
  \/ \E n \in Name : AppVirtualService(n)
  \/ PublishSite

Spec == Init /\ [][Next]_vars

-----------------------------------------------------------------------------
\* The state is of its type, and there is nothing of a row that is not there.
TypeOK ==
  /\ placed \subseteq Name /\ instances \in [Name -> Instances]
  /\ \A n \in Name \ placed : instances[n] = NoDeployment.replicas
  /\ deployment \in [Name -> Deployment] /\ service \in [Name -> Port \union {NoPort}]
  /\ vs \in [Name \union {Site} -> VirtualService \union {NoService}]
  /\ jwt \in [Name -> SUBSET TokenObjects]
  /\ req \in [Handler -> Request]
  /\ answered \in [Name -> Release \union {NoRelease}]
  /\ guarded \in [Name -> (SUBSET Filter) \union {Unknown}]
  /\ suspect \subseteq Name /\ raced \subseteq Name
  /\ requests \in 0..MaxRequests /\ deploys \in 0..MaxDeploys
  /\ troubles \in 0..MaxTroubles

Settled(n) ==
  n \notin suspect /\ \A h \in Handler : ~(n \in Touches(req[h]) /\ req[h].pc \in Begun)

\* What was deployed last through the second interface runs, as often as its row says
\* and behind a service with its port, and of what was deleted, or never deployed,
\* nothing does: after requests that overlapped or failed halfway (a deployment
\* without a port always does) a deployment or a deletion that was alone puts it
\* right.
RunsAsAnswered ==
  \A n \in Name : Settled(n) =>
    IF answered[n] = NoRelease
    THEN deployment[n].release = NoRelease /\ service[n] = NoPort
    ELSE /\ n \in placed
         /\ deployment[n] = [release |-> answered[n], replicas |-> instances[n]]
         /\ PortOf[answered[n]] = NoPort \/ service[n] = PortOf[answered[n]]

\* The row is deleted last, and not after an error: as long as there is something of a
\* deployment in Kubernetes its row is there, so that a deletion that failed can be
\* repeated.  That is so unless it was deployed while it was deleted, or Kubernetes
\* refused to delete with a status nobody looked at.
RowIsDeletedLast ==
  \A n \in Name \ raced : deployment[n].release # NoRelease \/ service[n] # NoPort => n \in placed

\* A deployment nothing interfered with leaves its virtual service and its objects for
\* tokens with the filters that were asked for, and without those that were not,
\* whatever an earlier one asked for or left behind.
FiltersAsAnswered ==
  \A n \in Name : guarded[n] # Unknown =>
    /\ vs[n] # NoService /\ vs[n][n] = guarded[n] \ {"jwt"}
    /\ jwt[n] = IF "jwt" \in guarded[n] THEN TokenObjects ELSE {}

\* Whoever puts a virtual service back changes nothing in it but the filter it is
\* about, on the routes it is about: what others did to the object since it was got
\* stays.
OnlyItsFilterChanges ==
  [][\A h \in Handler : req[h].pc = "put" /\ req'[h].pc # "put" =>
       \A o \in Name \union {Site}, n \in Name, f \in Filter :
         /\ (vs[o] = NoService) = (vs'[o] = NoService)
         /\ vs[o] # NoService /\ ((f \in vs[o][n]) # (f \in vs'[o][n])) =>
              o = First(h).object /\ n \in Reached(h) /\ f = First(h).filter]_vars

\* "This should delete ALL deployments with a given app ID" (deployment/http.go:442): an
\* app answered to be deleted, without errors, has none left of the deployments it had.
AllDeploymentsDeleted ==
  [][\A h \in Handler :
       req[h].op = "deleteapp" /\ req[h].pc = "next" /\ req'[h].pc = "idle"
         /\ req[h].errors = {} /\ req[h].alone
       => req[h].listed \intersect placed = {}]_vars

\* The deletion of an app answers as deleted those deployments it reached and noted no
\* error of: they are gone, with all there was of them in Kubernetes, whatever failed of
\* the others, and however often it failed before.  (Reached need not be all:
\* AllDeploymentsDeleted.  Something is left of those another request was about, or of
\* which a status was not looked at.)
DeletedAppIsGone ==
  [][\A h \in Handler :
       req[h].op = "deleteapp" /\ req[h].pc = "next" /\ req'[h].pc = "idle" /\ req[h].alone
       => \A n \in req[h].listed \ (req[h].left \union req[h].errors) :
            /\ n \notin placed
            /\ n \notin raced => deployment[n].release = NoRelease /\ service[n] = NoPort]_vars
==============================================================================
