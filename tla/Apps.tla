-------------------------------- MODULE Apps --------------------------------
(***************************************************************************)
(* Spaces, the apps in them and their deployments (space/, app/): rows in  *)
(* the database, and in Kubernetes a namespace per space and, per app in a *)
(* space, a deployment, a service and perhaps an internal service for its  *)
(* container ports.  A request makes its statements and its requests to    *)
(* Kubernetes one by one, without a transaction, and trusts what it read   *)
(* or checked before.                                                      *)
(*                                                                         *)
(* A deployment stands for its replica sets and pods as well.  What is     *)
(* deployed (image, variables, plan, health check) is a release; of it the *)
(* port and whether it has container ports matter here.  Binds and filters *)
(* are left out.                                                           *)
(***************************************************************************)
EXTENDS Naturals

CONSTANTS Handler,        \* the concurrent requests
          Space, App,
          Instances,      \* the numbers of instances an app can be scaled to
          Release, NoRelease,
          Port, NoPort,
          PortOf,         \* PortOf[r]: the port the release r listens on, or NoPort
          WithInner,      \* the releases with container ports
          MaxRequests,    \* bound: the requests of several steps
          MaxFailures     \* bound: failed statements and requests

\* There is a space, an app and a release to begin with.
ASSUME NamesAssumption == Space # {} /\ App # {} /\ Release # {}
ASSUME InstancesAssumption == Instances \subseteq Nat /\ Instances # {}
ASSUME ReleaseAssumption ==
  /\ NoRelease \notin Release /\ NoPort \notin Port
  /\ PortOf \in [Release -> Port \union {NoPort}] /\ WithInner \subseteq Release
ASSUME BoundsAssumption == MaxRequests \in Nat /\ MaxFailures \in Nat

VARIABLES
  spaces, apps,  \* the rows of the tables of these names
  placed,        \* the rows of spacesapps: which app is in which space ...
  instances,     \* ... and with how many instances
  namespaces,    \* namespaces[s]: the namespace; "bare" without the image pull secret
  deployment,    \* deployment[p]: what is deployed (NoRelease if nothing is), how often
  service,       \* service[p]: the port the service leads to; NoPort if there is none
  internal,      \* the apps in spaces with an internal service
  req,           \* req[h]: the request the handler h works on
  answered,      \* ghost: the release whose deployment was answered well last
  suspect,       \* ghost: the apps in spaces with overlapping or failed requests
  badspaces,     \* ghost: the spaces with overlapping or failed creations, deletions
  requests, failures  \* the numbers of them so far

rows == <<spaces, apps, placed, instances>>
cluster == <<namespaces, deployment, service, internal>>
ghosts == <<answered, suspect, badspaces>>
vars == <<rows, cluster, req, ghosts, requests, failures>>

Pair == Space \X App
Deployment == [release : Release \union {NoRelease}, replicas : Instances]
NoDeployment == [release |-> NoRelease, replicas |-> CHOOSE n \in Instances : TRUE]

\* Where a request is: nothing was written yet ...
Unbegun == {"check", "addspace", "pods", "count", "delspace", "spacesof", "delapp",
            "read", "checks", "deploy", "setinstances", "get", "put", "delservice"}
\* ... or something was, and something is still to be.
Begun == {"namespace", "secret", "delnamespace", "service", "internal", "scale",
          "delinternal", "deldeployment", "unplace"}
Op == {"createspace", "deletespace", "dropapp", "deploy", "scale", "restart", "deleteapp"}

Request == [pc : {"idle"} \union Unbegun \union Begun, op : Op, space : Space, app : App,
            release : Release, instances : Instances,
            seen : SUBSET {"deployment", "service", "internal"}, copy : Deployment, alone : BOOLEAN]
NoRequest == [pc |-> "idle", op |-> "deploy", space |-> CHOOSE s \in Space : TRUE,
              app |-> CHOOSE a \in App : TRUE, release |-> CHOOSE r \in Release : TRUE,
              instances |-> NoDeployment.replicas, seen |-> {}, copy |-> NoDeployment, alone |-> TRUE]

TypeOK ==
  /\ spaces \subseteq Space /\ apps \subseteq App
  /\ placed \subseteq Pair /\ instances \in [Pair -> Instances]
  /\ \A p \in Pair \ placed : instances[p] = NoDeployment.replicas
  /\ namespaces \in [Space -> {"none", "bare", "ready", "terminating"}]
  /\ deployment \in [Pair -> Deployment]
  /\ service \in [Pair -> Port \union {NoPort}]
  /\ internal \subseteq Pair
  /\ req \in [Handler -> Request]
  /\ answered \in [Pair -> Release \union {NoRelease}]
  /\ suspect \subseteq Pair /\ badspaces \subseteq Space
  /\ requests \in 0..MaxRequests /\ failures \in 0..MaxFailures

-----------------------------------------------------------------------------
(* Requests begin and end. *)

PairOf(h) == <<req[h].space, req[h].app>>
SpaceOp(r) == r.op \in {"createspace", "deletespace"}

\* The apps in spaces that a request changes or relies on.
Touches(r) ==
  CASE SpaceOp(r)       -> {r.space} \X App
    [] r.op = "dropapp" -> Space \X {r.app}
    [] OTHER            -> {<<r.space, r.app>>}

\* Ghost: requests that overlap, except restarts, make what they share suspect.
Overlap(r, o) ==
  IF r.op = "restart" /\ o.op = "restart" THEN {} ELSE Touches(r) \intersect Touches(o)

Arrive(h, r) ==
  LET active == {o \in Handler : req[o].pc # "idle"}
      others == {o \in active : Overlap(r, req[o]) # {}}
      spacewise == {o \in others : SpaceOp(r) /\ SpaceOp(req[o])}
  IN  /\ req[h].pc = "idle" /\ requests < MaxRequests
      /\ requests' = requests + 1
      /\ req' = [o \in Handler |->
                   IF o = h THEN [r EXCEPT !.alone = others = {}]
                   ELSE IF o \in others THEN [req[o] EXCEPT !.alone = FALSE] ELSE req[o]]
      /\ suspect' = suspect \union UNION {Overlap(r, req[o]) : o \in others}
      /\ badspaces' = IF spacewise # {} THEN badspaces \union {r.space} ELSE badspaces
      /\ UNCHANGED <<rows, cluster, answered, failures>>

Begin(h, op, pc, s, a) ==
  Arrive(h, [NoRequest EXCEPT !.pc = pc, !.op = op, !.space = s, !.app = a])
StartCreatespace(h, s) == Begin(h, "createspace", "check", s, NoRequest.app)
StartDeletespace(h, s) == Begin(h, "deletespace", "pods", s, NoRequest.app)
StartDeleteapp(h, a) == Begin(h, "dropapp", "spacesof", NoRequest.space, a)
StartDeleteApp(h, s, a) == Begin(h, "deleteapp", "delservice", s, a)
StartRestart(h, s, a) == Begin(h, "restart", "get", s, a)
StartDeployment(h, s, a, r) ==
  Arrive(h, [NoRequest EXCEPT !.pc = "read", !.op = "deploy", !.space = s, !.app = a, !.release = r])
StartScaleApp(h, s, a, n) ==
  Arrive(h, [NoRequest EXCEPT !.pc = "setinstances", !.op = "scale", !.space = s, !.app = a,
                              !.instances = n])

To(h, pc) == req' = [req EXCEPT ![h].pc = pc] /\ UNCHANGED ghosts
Idle(h) == req' = [req EXCEPT ![h] = NoRequest]

\* The request is refused, or has nothing to do.
Refuse(h) == Idle(h) /\ UNCHANGED ghosts

\* It ends with an error: if it had begun to write, what it leaves is suspect.
Fail(h) ==
  LET begun == req[h].pc \in Begun IN
  /\ Idle(h)
  /\ suspect' = IF begun /\ ~SpaceOp(req[h]) THEN suspect \union Touches(req[h]) ELSE suspect
  /\ badspaces' = IF begun /\ SpaceOp(req[h]) THEN badspaces \union {req[h].space} ELSE badspaces
  /\ UNCHANGED answered

\* It ends well.  A deployment or a deletion nobody interfered with puts right
\* whatever was suspect.
Finish(h) ==
  /\ Idle(h)
  /\ suspect' = IF req[h].alone /\ req[h].op \in {"deploy", "deleteapp"}
                THEN suspect \ {PairOf(h)} ELSE suspect
  /\ badspaces' = IF req[h].alone /\ req[h].op = "deletespace"
                  THEN badspaces \ {req[h].space} ELSE badspaces
  /\ answered' = CASE req[h].op = "deploy"    -> [answered EXCEPT ![PairOf(h)] = req[h].release]
                   [] req[h].op = "deleteapp" -> [answered EXCEPT ![PairOf(h)] = NoRelease]
                   [] OTHER                   -> answered

-----------------------------------------------------------------------------
(* Handlers of one statement. *)

\* Createapp: the name is unique.
Createapp(a) ==
  /\ apps' = apps \union {a}
  /\ UNCHANGED <<spaces, placed, instances, cluster, req, ghosts, requests, failures>>

\* AddApp: the primary key refuses a second row.  Neither the space nor the app
\* needs to exist.
AddApp(s, a, n) ==
  /\ <<s, a>> \notin placed
  /\ placed' = placed \union {<<s, a>>}
  /\ instances' = [instances EXCEPT ![<<s, a>>] = n]
  /\ UNCHANGED <<spaces, apps, cluster, req, ghosts, requests, failures>>

-----------------------------------------------------------------------------
(* Createspace and Deletespace. *)

CheckSpace(h) ==
  /\ req[h].pc = "check"
  /\ IF req[h].space \in spaces THEN Refuse(h) ELSE To(h, "addspace")
  /\ UNCHANGED <<rows, cluster>>

AddSpace(h) ==
  /\ req[h].pc = "addspace"
  /\ IF req[h].space \in spaces THEN Fail(h) ELSE To(h, "namespace")
  /\ spaces' = spaces \union {req[h].space}
  /\ UNCHANGED <<apps, placed, instances, cluster>>

\* A namespace of the name, be it on its way out, is an error; the row stays.
CreateNamespace(h) ==
  LET s == req[h].space IN
  /\ req[h].pc = "namespace"
  /\ \/ /\ namespaces[s] = "none"
        /\ namespaces' = [namespaces EXCEPT ![s] = "bare"]
        /\ To(h, "secret")
     \/ namespaces[s] # "none" /\ Fail(h) /\ UNCHANGED namespaces
  /\ UNCHANGED <<rows, deployment, service, internal>>

CopySecret(h) ==
  LET s == req[h].space IN
  /\ req[h].pc = "secret"
  /\ \/ /\ namespaces[s] = "bare"
        /\ namespaces' = [namespaces EXCEPT ![s] = "ready"]
        /\ Finish(h)
     \/ namespaces[s] # "bare" /\ Fail(h) /\ UNCHANGED namespaces
  /\ UNCHANGED <<rows, deployment, service, internal>>

\* Pods of a deployment of no instances are none.
HasPods(s) == \E a \in App : deployment[<<s, a>>].release # NoRelease
                             /\ deployment[<<s, a>>].replicas > 0

\* Mutant: the space is deleted with its pods and apps.
CheckNothing(h) ==
  /\ req[h].pc = "pods"
  /\ To(h, "delspace")
  /\ UNCHANGED <<rows, cluster>>

CheckPods(h) ==
  /\ req[h].pc = "pods"
  /\ IF HasPods(req[h].space) THEN Refuse(h) ELSE To(h, "count")
  /\ UNCHANGED <<rows, cluster>>

CountApps(h) ==
  /\ req[h].pc = "count"
  /\ IF \E a \in App : <<req[h].space, a>> \in placed THEN Refuse(h) ELSE To(h, "delspace")
  /\ UNCHANGED <<rows, cluster>>

DeleteSpaceRow(h) ==
  /\ req[h].pc = "delspace"
  /\ spaces' = spaces \ {req[h].space}
  /\ To(h, "delnamespace")
  /\ UNCHANGED <<apps, placed, instances, cluster>>

\* Mutant: the namespace is left alone.
KeepNamespace(h) ==
  /\ req[h].pc = "delnamespace"
  /\ Finish(h)
  /\ UNCHANGED <<rows, cluster>>

\* That there is none is fine.  One on its way out may be refused.
DeleteNamespace(h) ==
  LET s == req[h].space IN
  /\ req[h].pc = "delnamespace"
  /\ namespaces' = [namespaces EXCEPT ![s] = IF @ = "none" THEN @ ELSE "terminating"]
  /\ Finish(h) \/ (namespaces[s] = "terminating" /\ Fail(h))
  /\ UNCHANGED <<rows, deployment, service, internal>>

\* Kubernetes (external) takes its time to remove a namespace with all it has.
NamespaceGone(s) ==
  /\ namespaces[s] = "terminating"
  /\ namespaces' = [namespaces EXCEPT ![s] = "none"]
  /\ deployment' = [p \in Pair |-> IF p[1] = s THEN NoDeployment ELSE deployment[p]]
  /\ service' = [p \in Pair |-> IF p[1] = s THEN NoPort ELSE service[p]]
  /\ internal' = {p \in internal : p[1] # s}
  /\ UNCHANGED <<rows, req, ghosts, requests, failures>>

-----------------------------------------------------------------------------
(* Deleteapp: the app itself, which must be in no space. *)

SpacesOfApp(h) ==
  /\ req[h].pc = "spacesof"
  /\ IF \E s \in Space : <<s, req[h].app>> \in placed THEN Refuse(h) ELSE To(h, "delapp")
  /\ UNCHANGED <<rows, cluster>>

DeleteAppRow(h) ==
  /\ req[h].pc = "delapp"
  /\ apps' = apps \ {req[h].app}
  /\ Finish(h)
  /\ UNCHANGED <<spaces, placed, instances, cluster>>

-----------------------------------------------------------------------------
(* Deployment.  First what is needed is read and checked ... *)

ReadApp(h) ==
  /\ req[h].pc = "read"
  /\ \/ /\ PairOf(h) \in placed /\ req[h].app \in apps /\ req[h].space \in spaces
        /\ req' = [req EXCEPT ![h].pc = "checks", ![h].instances = instances[PairOf(h)]]
        /\ UNCHANGED ghosts
     \/ /\ PairOf(h) \notin placed \/ req[h].app \notin apps \/ req[h].space \notin spaces
        /\ Refuse(h)
  /\ UNCHANGED <<rows, cluster>>

CheckExistence(h) ==
  LET p == PairOf(h) IN
  /\ req[h].pc = "checks"
  /\ req' = [req EXCEPT ![h].pc = "deploy",
       ![h].seen = {o \in {"deployment", "service", "internal"} :
                      CASE o = "deployment" -> deployment[p].release # NoRelease
                        [] o = "service"    -> service[p] # NoPort
                        [] o = "internal"   -> p \in internal}]
  /\ UNCHANGED <<rows, cluster, ghosts>>

\* ... then it is written, in this order.  What was seen is updated, what was not
\* is created, and Kubernetes refuses what does not fit.
CanCreate(s) == namespaces[s] \in {"bare", "ready"}

\* Mutant: an update leaves the number of replicas alone.
WriteRelease(h) ==
  LET p == PairOf(h) IN
  /\ req[h].pc = "deploy"
  /\ \/ /\ IF "deployment" \in req[h].seen THEN deployment[p].release # NoRelease
           ELSE deployment[p].release = NoRelease /\ CanCreate(req[h].space)
        /\ deployment' = [deployment EXCEPT ![p].release = req[h].release]
        /\ To(h, IF PortOf[req[h].release] = NoPort THEN "internal" ELSE "service")
     \/ /\ IF "deployment" \in req[h].seen THEN deployment[p].release = NoRelease
           ELSE deployment[p].release # NoRelease \/ ~CanCreate(req[h].space)
        /\ Fail(h) /\ UNCHANGED deployment
  /\ UNCHANGED <<rows, namespaces, service, internal>>

\* CreateDeployment, UpdateDeployment.
WriteDeployment(h) ==
  LET p == PairOf(h) IN
  /\ req[h].pc = "deploy"
  /\ \/ /\ IF "deployment" \in req[h].seen THEN deployment[p].release # NoRelease
           ELSE deployment[p].release = NoRelease /\ CanCreate(req[h].space)
        /\ deployment' = [deployment EXCEPT
             ![p] = [release |-> req[h].release, replicas |-> req[h].instances]]
        /\ To(h, IF PortOf[req[h].release] = NoPort THEN "internal" ELSE "service")
     \/ /\ IF "deployment" \in req[h].seen THEN deployment[p].release = NoRelease
           ELSE deployment[p].release # NoRelease \/ ~CanCreate(req[h].space)
        /\ Fail(h) /\ UNCHANGED deployment
  /\ UNCHANGED <<rows, namespaces, service, internal>>

\* CreateService does not look at the status of the answer, so what is refused
\* passes; UpdateService needs to get the service first.
WriteService(h) ==
  LET p == PairOf(h)
      port == [service EXCEPT ![p] = PortOf[req[h].release]]
  IN  /\ req[h].pc = "service"
      /\ \/ /\ "service" \notin req[h].seen
            /\ service' = IF service[p] = NoPort /\ CanCreate(req[h].space) THEN port ELSE service
            /\ To(h, "internal")
         \/ /\ "service" \in req[h].seen /\ service[p] # NoPort
            /\ service' = port
            /\ To(h, "internal")
         \/ /\ "service" \in req[h].seen /\ service[p] = NoPort
            /\ Fail(h) /\ UNCHANGED service
      /\ UNCHANGED <<rows, namespaces, deployment, internal>>

\* The internal service, in the same manner; it goes when it is not needed.
WriteInternal(h) ==
  LET p == PairOf(h) IN
  /\ req[h].pc = "internal"
  /\ IF req[h].release \in WithInner
     THEN \/ /\ "internal" \notin req[h].seen
             /\ internal' = IF CanCreate(req[h].space) THEN internal \union {p} ELSE internal
             /\ Finish(h)
          \/ /\ "internal" \in req[h].seen
             /\ IF p \in internal THEN Finish(h) ELSE Fail(h)
             /\ UNCHANGED internal
     ELSE /\ internal' = IF "internal" \in req[h].seen THEN internal \ {p} ELSE internal
          /\ Finish(h)
  /\ UNCHANGED <<rows, namespaces, deployment, service>>

-----------------------------------------------------------------------------
(* ScaleApp, Restart and DeleteApp. *)

\* Mutant: an app that is in no space gets instances there.
SetInstancesAnyway(h) ==
  /\ req[h].pc = "setinstances"
  /\ instances' = [instances EXCEPT ![PairOf(h)] = req[h].instances]
  /\ To(h, "scale")
  /\ UNCHANGED <<spaces, apps, placed, cluster>>

SetInstances(h) ==
  LET p == PairOf(h) IN
  /\ req[h].pc = "setinstances"
  /\ instances' = IF p \in placed THEN [instances EXCEPT ![p] = req[h].instances] ELSE instances
  /\ To(h, "scale")
  /\ UNCHANGED <<spaces, apps, placed, cluster>>

\* Whether there was anything to scale does not matter.
Scale(h) ==
  LET p == PairOf(h) IN
  /\ req[h].pc = "scale"
  /\ deployment' = IF deployment[p].release = NoRelease THEN deployment
                   ELSE [deployment EXCEPT ![p].replicas = req[h].instances]
  /\ Finish(h)
  /\ UNCHANGED <<rows, namespaces, service, internal>>

GetDeployment(h) ==
  LET p == PairOf(h) IN
  /\ req[h].pc = "get"
  /\ IF deployment[p].release = NoRelease THEN Refuse(h)
     ELSE /\ req' = [req EXCEPT ![h].pc = "put", ![h].copy = deployment[p]]
          /\ UNCHANGED ghosts
  /\ UNCHANGED <<rows, cluster>>

\* The whole deployment is put back, without a resource version.
RestartDeployment(h) ==
  LET p == PairOf(h) IN
  /\ req[h].pc = "put"
  /\ deployment' = IF deployment[p].release = NoRelease THEN deployment
                   ELSE [deployment EXCEPT ![p] = req[h].copy]
  /\ Finish(h)
  /\ UNCHANGED <<rows, namespaces, service, internal>>

DeleteService(h) ==
  /\ req[h].pc = "delservice"
  /\ service' = [service EXCEPT ![PairOf(h)] = NoPort]
  /\ To(h, "delinternal")
  /\ UNCHANGED <<rows, namespaces, deployment, internal>>

DeleteInternalService(h) ==
  /\ req[h].pc = "delinternal"
  /\ internal' = internal \ {PairOf(h)}
  /\ To(h, "deldeployment")
  /\ UNCHANGED <<rows, namespaces, deployment, service>>

DeleteDeployment(h) ==
  /\ req[h].pc = "deldeployment"
  /\ deployment' = [deployment EXCEPT ![PairOf(h)] = NoDeployment]
  /\ To(h, "unplace")
  /\ UNCHANGED <<rows, namespaces, service, internal>>

RemoveFromSpace(h) ==
  /\ req[h].pc = "unplace"
  /\ placed' = placed \ {PairOf(h)}
  /\ instances' = [instances EXCEPT ![PairOf(h)] = NoDeployment.replicas]
  /\ Finish(h)
  /\ UNCHANGED <<spaces, apps, cluster>>

-----------------------------------------------------------------------------
(* Failures. *)

\* A statement or a request to Kubernetes fails.  One that fails on its way back is
\* the failure of the next one.
RequestFailure(h) ==
  /\ req[h].pc # "idle" /\ failures < MaxFailures
  /\ failures' = failures + 1
  /\ Fail(h)
  /\ UNCHANGED <<rows, cluster, requests>>

\* An error the handler does not see, or not heed: statuses that are not looked at,
\* checks that take a failed query for a free name, and DeleteApp, which goes on even
\* when it cannot ask for the internal service to go.
Unchecked == [check |-> "addspace", pods |-> "count", spacesof |-> "delapp",
              service |-> "internal", delservice |-> "delinternal",
              delinternal |-> "deldeployment", deldeployment |-> "unplace",
              internal |-> "idle", scale |-> "idle", put |-> "idle"]

ErrorIgnored(h) ==
  LET me == req[h] IN
  /\ me.pc \in DOMAIN Unchecked /\ failures < MaxFailures
  /\ failures' = failures + 1
  /\ req' = [req EXCEPT ![h] = IF Unchecked[me.pc] = "idle" THEN NoRequest
                               ELSE [me EXCEPT !.pc = Unchecked[me.pc], !.alone = FALSE]]
  /\ suspect' = IF me.op = "restart" \/ SpaceOp(me) THEN suspect ELSE suspect \union Touches(me)
  /\ answered' = IF me.pc = "internal" THEN [answered EXCEPT ![PairOf(h)] = me.release] ELSE answered
  /\ UNCHANGED <<rows, cluster, badspaces, requests>>

-----------------------------------------------------------------------------
\* A region at work: its spaces and apps are there, nothing is deployed.
Init ==
  /\ spaces = Space /\ apps = App
  /\ placed = {} /\ instances = [p \in Pair |-> NoDeployment.replicas]
  /\ namespaces = [s \in Space |-> "ready"]
  /\ deployment = [p \in Pair |-> NoDeployment]
  /\ service = [p \in Pair |-> NoPort] /\ internal = {}
  /\ req = [h \in Handler |-> NoRequest]
  /\ answered = [p \in Pair |-> NoRelease]
  /\ suspect = {} /\ badspaces = {}
  /\ requests = 0 /\ failures = 0

Start(h) ==
  \/ \E s \in Space : StartCreatespace(h, s) \/ StartDeletespace(h, s)
  \/ \E a \in App : StartDeleteapp(h, a)
  \/ \E s \in Space, a \in App :
       \/ StartDeleteApp(h, s, a) \/ StartRestart(h, s, a)
       \/ \E r \in Release : StartDeployment(h, s, a, r)
       \/ \E n \in Instances : StartScaleApp(h, s, a, n)

Step(h) ==
  /\ \/ CheckSpace(h) \/ AddSpace(h) \/ CreateNamespace(h) \/ CopySecret(h)
     \/ CheckPods(h) \/ CountApps(h) \/ DeleteSpaceRow(h) \/ DeleteNamespace(h)
     \/ SpacesOfApp(h) \/ DeleteAppRow(h)
     \/ ReadApp(h) \/ CheckExistence(h)
     \/ WriteDeployment(h) \/ WriteService(h) \/ WriteInternal(h)
     \/ SetInstances(h) \/ Scale(h) \/ GetDeployment(h) \/ RestartDeployment(h)
     \/ DeleteService(h) \/ DeleteInternalService(h) \/ DeleteDeployment(h) \/ RemoveFromSpace(h)
  /\ UNCHANGED <<requests, failures>>

Next ==
  \/ \E h \in Handler : Start(h) \/ Step(h) \/ RequestFailure(h) \/ ErrorIgnored(h)
  \/ \E a \in App : Createapp(a)
  \/ \E s \in Space, a \in App, n \in Instances : AddApp(s, a, n)
  \/ \E s \in Space : NamespaceGone(s)

Spec == Init /\ [][Next]_vars

-----------------------------------------------------------------------------
\* Nobody is in the middle of writing, and nothing is suspect.
SettledSpace(s) ==
  s \notin badspaces /\ \A h \in Handler :
    ~(SpaceOp(req[h]) /\ req[h].space = s /\ req[h].pc \in Begun)
Settled(p) ==
  p \notin suspect /\ p[1] \notin badspaces /\ \A h \in Handler :
    ~(p \in Touches(req[h]) /\ req[h].pc \in Begun)

\* Rows and namespaces of spaces agree, and a namespace has what its pods need to
\* pull their images: after a creation that failed halfway, which cannot be repeated
\* (the name is taken then), a deletion puts things right.
SpaceIsBacked ==
  \A s \in Space : SettledSpace(s) =>
    namespaces[s] \in IF s \in spaces THEN {"ready"} ELSE {"none", "terminating"}

\* What was deployed last runs, as often as the app was scaled to and behind services
\* that lead to it; of an app that was never deployed, or was removed, nothing is
\* left.  A deployment refused before it wrote, whatever else was going on, changes
\* nothing ("Do not write to cluster above this line"), and a deployment or a removal
\* that was alone puts right what overlapping and failed requests left.
RunsAsAnswered ==
  \A p \in Pair : Settled(p) =>
    IF answered[p] = NoRelease
    THEN namespaces[p[1]] # "terminating" =>
           deployment[p].release = NoRelease /\ service[p] = NoPort /\ p \notin internal
    ELSE /\ p \in placed
         /\ deployment[p] = [release |-> answered[p], replicas |-> instances[p]]
         /\ PortOf[answered[p]] # NoPort => service[p] = PortOf[answered[p]]
         /\ p \in internal <=> answered[p] \in WithInner

\* A space is not deleted, nor an app, as long as something is deployed of it.
DeployedKeepsHome ==
  \A p \in Pair : Settled(p) /\ answered[p] # NoRelease =>
    p[1] \in spaces /\ p[2] \in apps /\ namespaces[p[1]] \in {"bare", "ready"}
=============================================================================
