------------------------------ MODULE AppsProofs ------------------------------
(***************************************************************************)
(* Proofs about spaces, apps and their deployments, for any number of      *)
(* requests, spaces, apps and releases: however requests overlap and fail, *)
(* what the model calls settled is as it was answered.                     *)
(***************************************************************************)
EXTENDS Apps, TLAPS

-----------------------------------------------------------------------------
(* Types of the parts, and the steps a request knows. *)

\* A request knows only steps of its operation.
OpOK(r) ==
  /\ r.pc \in {"check", "addspace", "namespace", "secret"} => r.op = "createspace"
  /\ r.pc \in {"pods", "count", "delspace", "delnamespace"} => r.op = "deletespace"
  /\ r.pc \in {"spacesof", "delapp"} => r.op = "dropapp"
  /\ r.pc \in {"read", "checks", "deploy", "service", "internal"} => r.op = "deploy"
  /\ r.pc \in {"setinstances", "scale"} => r.op = "scale"
  /\ r.pc \in {"get", "put"} => r.op = "restart"
  /\ r.pc \in {"delservice", "delinternal", "deldeployment", "unplace"} => r.op = "deleteapp"

TablesOK == /\ spaces \subseteq Space /\ apps \subseteq App
            /\ placed \subseteq Pair /\ instances \in [Pair -> Instances]
            /\ \A p \in Pair \ placed : instances[p] = NoDeployment.replicas
ClusterOK == /\ namespaces \in [Space -> {"none", "bare", "ready", "terminating"}]
             /\ deployment \in [Pair -> Deployment]
             /\ service \in [Pair -> Port \union {NoPort}]
             /\ internal \subseteq Pair
RequestsOK == req \in [Handler -> Request] /\ \A h \in Handler : OpOK(req[h])
GhostsOK == /\ answered \in [Pair -> Release \union {NoRelease}]
            /\ suspect \subseteq Pair /\ badspaces \subseteq Space
CountsOK == requests \in 0..MaxRequests /\ failures \in 0..MaxFailures
Parts == TablesOK /\ ClusterOK /\ RequestsOK /\ GhostsOK /\ CountsOK

\* The parts make up the type invariant.
LEMMA PartsType == Parts => TypeOK
BY DEF Parts, TablesOK, ClusterOK, RequestsOK, GhostsOK, CountsOK, TypeOK

\* What stands for nothing has its type.
LEMMA NothingTypes ==
  /\ NoDeployment \in Deployment /\ NoDeployment.release = NoRelease
  /\ NoDeployment.replicas \in Instances
  /\ NoRequest \in Request /\ NoRequest.pc = "idle" /\ OpOK(NoRequest)
  /\ NoRequest.instances = NoDeployment.replicas
<1>1. (CHOOSE n \in Instances : TRUE) \in Instances
  BY InstancesAssumption
<1>2. NoDeployment \in Deployment /\ NoDeployment.replicas \in Instances
  BY <1>1 DEF NoDeployment, Deployment
<1>3. /\ (CHOOSE s \in Space : TRUE) \in Space /\ (CHOOSE a \in App : TRUE) \in App
      /\ (CHOOSE r \in Release : TRUE) \in Release
  BY NamesAssumption
<1>4. NoRequest \in Request
  BY <1>2, <1>3 DEF NoRequest, Request, Op
<1> QED BY <1>2, <1>4 DEF NoRequest, OpOK, NoDeployment

\* The fields of a request.
LEMMA Fields ==
  ASSUME RequestsOK, NEW h \in Handler
  PROVE  /\ req[h] \in Request /\ OpOK(req[h]) /\ req[h].op \in Op
         /\ req[h].space \in Space /\ req[h].app \in App /\ req[h].release \in Release
         /\ req[h].instances \in Instances /\ req[h].copy \in Deployment
         /\ req[h].alone \in BOOLEAN /\ PairOf(h) \in Pair
         /\ req[h].pc \in {"idle"} \union Unbegun \union Begun
BY DEF RequestsOK, Request, PairOf, Pair

\* The apps in spaces that a request touches, in other words.
Near(r, p) == (r.op = "dropapp" \/ r.space = p[1]) /\ (SpaceOp(r) \/ r.app = p[2])

\* They say the same of a pair.
LEMMA NearTouches ==
  ASSUME NEW r \in Request, NEW p \in Pair
  PROVE  p \in Touches(r) <=> Near(r, p)
<1>1. p = <<p[1], p[2]>> /\ p[1] \in Space /\ p[2] \in App
  BY DEF Pair
<1>2. CASE SpaceOp(r)
  BY <1>1, <1>2 DEF Touches, Near, SpaceOp
<1>3. CASE ~SpaceOp(r) /\ r.op = "dropapp"
  BY <1>1, <1>3 DEF Touches, Near
<1>4. CASE ~SpaceOp(r) /\ r.op # "dropapp"
  BY <1>1, <1>4 DEF Touches, Near
<1> QED BY <1>2, <1>3, <1>4

\* ... which are pairs.
LEMMA TouchesType ==
  ASSUME NEW r \in Request
  PROVE  Touches(r) \subseteq Pair
BY DEF Touches, Pair, Request

-----------------------------------------------------------------------------
(* How requests go on. *)

\* The steps a request goes to without an error.
Follows(from, to) ==
  \/ from = "check" /\ to = "addspace"
  \/ from = "addspace" /\ to = "namespace"
  \/ from = "namespace" /\ to = "secret"
  \/ from = "pods" /\ to = "count"
  \/ from = "count" /\ to = "delspace"
  \/ from = "delspace" /\ to = "delnamespace"
  \/ from = "spacesof" /\ to = "delapp"
  \/ from = "read" /\ to = "checks"
  \/ from = "checks" /\ to = "deploy"
  \/ from = "deploy" /\ to \in {"service", "internal"}
  \/ from = "service" /\ to = "internal"
  \/ from = "setinstances" /\ to = "scale"
  \/ from = "get" /\ to = "put"
  \/ from = "delservice" /\ to = "delinternal"
  \/ from = "delinternal" /\ to = "deldeployment"
  \/ from = "deldeployment" /\ to = "unplace"

\* A request that goes on: where it is changes, and what it has read.
GoesOn(h) == \E r \in Request : /\ req' = [req EXCEPT ![h] = r]
                                /\ Follows(req[h].pc, r.pc)
                                /\ r.op = req[h].op /\ r.space = req[h].space /\ r.app = req[h].app
                                /\ r.release = req[h].release /\ r.alone = req[h].alone
                                /\ UNCHANGED ghosts

\* Who goes on is still a request of its operation.
LEMMA FollowsOK ==
  ASSUME NEW r \in Request, NEW q \in Request, OpOK(r), Follows(r.pc, q.pc), q.op = r.op
  PROVE  OpOK(q)
BY DEF OpOK, Follows

\* Most requests only move.
LEMMA ToGoesOn ==
  ASSUME RequestsOK, NEW h \in Handler, NEW pc, To(h, pc), Follows(req[h].pc, pc)
  PROVE  GoesOn(h)
<1> DEFINE r == [req[h] EXCEPT !.pc = pc]
<1>1. req[h] \in Request
  BY Fields
<1>2. pc \in Unbegun \union Begun
  BY DEF Follows, Unbegun, Begun
<1>3. r \in Request /\ r.pc = pc
  BY <1>1, <1>2 DEF Request
<1>4. r.op = req[h].op /\ r.space = req[h].space /\ r.app = req[h].app /\ r.alone = req[h].alone
      /\ r.release = req[h].release
  BY <1>1 DEF Request
<1>5. req' = [req EXCEPT ![h] = r]
  BY DEF To
<1>6. UNCHANGED ghosts
  BY DEF To
<1> HIDE DEF r
<1> QED BY <1>3, <1>4, <1>5, <1>6 DEF GoesOn

\* A step goes on or ends the request.
LEMMA StepEnds ==
  ASSUME RequestsOK, ClusterOK, TablesOK, NEW h \in Handler, Step(h)
  PROVE  /\ GoesOn(h) \/ Refuse(h) \/ Fail(h) \/ Finish(h)
         /\ req[h].pc # "idle"
<1>1. CASE CheckSpace(h) \/ AddSpace(h) \/ CreateNamespace(h) \/ CopySecret(h)
  BY <1>1, ToGoesOn DEF CheckSpace, AddSpace, CreateNamespace, CopySecret, Follows
<1>2. CASE CheckPods(h) \/ CountApps(h) \/ DeleteSpaceRow(h) \/ DeleteNamespace(h)
  BY <1>2, ToGoesOn DEF CheckPods, CountApps, DeleteSpaceRow, DeleteNamespace, Follows
<1>3. CASE SpacesOfApp(h) \/ DeleteAppRow(h)
  BY <1>3, ToGoesOn DEF SpacesOfApp, DeleteAppRow, Follows
<1>4. CASE WriteDeployment(h) \/ WriteService(h) \/ WriteInternal(h)
  BY <1>4, ToGoesOn DEF WriteDeployment, WriteService, WriteInternal, Follows
<1>5. CASE SetInstances(h) \/ Scale(h) \/ RestartDeployment(h)
  BY <1>5, ToGoesOn DEF SetInstances, Scale, RestartDeployment, Follows
<1>6. CASE DeleteService(h) \/ DeleteInternalService(h) \/ DeleteDeployment(h) \/ RemoveFromSpace(h)
  BY <1>6, ToGoesOn DEF DeleteService, DeleteInternalService, DeleteDeployment, RemoveFromSpace, Follows
<1>7. CASE ReadApp(h)
  <2>1. CASE PairOf(h) \in placed /\ req' = [req EXCEPT ![h].pc = "checks", ![h].instances = instances[PairOf(h)]]
             /\ UNCHANGED ghosts
    <3> DEFINE r == [req[h] EXCEPT !.pc = "checks", !.instances = instances[PairOf(h)]]
    <3>1. req[h] \in Request /\ instances[PairOf(h)] \in Instances
      BY Fields DEF TablesOK
    <3>2. r \in Request /\ r.pc = "checks"
      BY <3>1 DEF Request, Unbegun
    <3>3. r.op = req[h].op /\ r.space = req[h].space /\ r.app = req[h].app /\ r.alone = req[h].alone
          /\ r.release = req[h].release
      BY <3>1 DEF Request
    <3>4. req' = [req EXCEPT ![h] = r] /\ req[h].pc = "read"
      BY <1>7, <2>1 DEF ReadApp
    <3> HIDE DEF r
    <3> QED BY <2>1, <3>2, <3>3, <3>4 DEF GoesOn, Follows
  <2> QED BY <1>7, <2>1 DEF ReadApp
<1>8. CASE CheckExistence(h)
  <2>1. PICK seen \in SUBSET {"deployment", "service", "internal"} :
          req' = [req EXCEPT ![h].pc = "deploy", ![h].seen = seen]
    BY <1>8 DEF CheckExistence
  <2> DEFINE r == [req[h] EXCEPT !.pc = "deploy", !.seen = seen]
  <2>2. req[h] \in Request
    BY Fields
  <2>3. r \in Request /\ r.pc = "deploy"
    BY <2>2 DEF Request, Unbegun
  <2>4. r.op = req[h].op /\ r.space = req[h].space /\ r.app = req[h].app /\ r.alone = req[h].alone
        /\ r.release = req[h].release
    BY <2>2 DEF Request
  <2>5. req' = [req EXCEPT ![h] = r] /\ req[h].pc = "checks" /\ UNCHANGED ghosts
    BY <1>8, <2>1 DEF CheckExistence
  <2> HIDE DEF r
  <2> QED BY <2>3, <2>4, <2>5 DEF GoesOn, Follows
<1>9. CASE GetDeployment(h)
  <2>1. CASE req' = [req EXCEPT ![h].pc = "put", ![h].copy = deployment[PairOf(h)]] /\ UNCHANGED ghosts
    <3> DEFINE r == [req[h] EXCEPT !.pc = "put", !.copy = deployment[PairOf(h)]]
    <3>1. req[h] \in Request /\ deployment[PairOf(h)] \in Deployment
      BY Fields DEF ClusterOK
    <3>2. r \in Request /\ r.pc = "put"
      BY <3>1 DEF Request, Unbegun
    <3>3. r.op = req[h].op /\ r.space = req[h].space /\ r.app = req[h].app /\ r.alone = req[h].alone
          /\ r.release = req[h].release
      BY <3>1 DEF Request
    <3>4. req' = [req EXCEPT ![h] = r] /\ req[h].pc = "get"
      BY <1>9, <2>1 DEF GetDeployment
    <3> HIDE DEF r
    <3> QED BY <2>1, <3>2, <3>3, <3>4 DEF GoesOn, Follows
  <2> QED BY <1>9, <2>1 DEF GetDeployment
<1> QED BY <1>1, <1>2, <1>3, <1>4, <1>5, <1>6, <1>7, <1>8, <1>9 DEF Step

-----------------------------------------------------------------------------
(* Each action keeps the types. *)

\* One handler's request changes, and is a request.
LEMMA PutRequest ==
  ASSUME RequestsOK, NEW h \in Handler, NEW r \in Request, OpOK(r), req' = [req EXCEPT ![h] = r]
  PROVE  RequestsOK'
BY DEF RequestsOK

\* Requests that go on or end keep the types of requests and ghosts.
LEMMA EndsType ==
  ASSUME RequestsOK, GhostsOK, NEW h \in Handler,
         GoesOn(h) \/ Refuse(h) \/ Fail(h) \/ Finish(h)
  PROVE  RequestsOK' /\ GhostsOK'
<1>1. /\ req[h] \in Request /\ OpOK(req[h]) /\ req[h].space \in Space /\ req[h].release \in Release
      /\ Touches(req[h]) \subseteq Pair
  BY Fields, TouchesType
<1>2. CASE GoesOn(h)
  <2>1. PICK r \in Request : /\ req' = [req EXCEPT ![h] = r] /\ Follows(req[h].pc, r.pc)
                             /\ r.op = req[h].op
    BY <1>2 DEF GoesOn
  <2>2. RequestsOK'
    BY <1>1, <2>1, FollowsOK, PutRequest
  <2> QED BY <1>2, <2>2 DEF GoesOn, GhostsOK, ghosts
<1>3. CASE Refuse(h) \/ Fail(h) \/ Finish(h)
  <2>1. req' = [req EXCEPT ![h] = NoRequest]
    BY <1>3 DEF Refuse, Fail, Finish, Idle
  <2>2. RequestsOK'
    BY <2>1, NothingTypes, PutRequest
  <2>3. suspect' \subseteq Pair /\ badspaces' \subseteq Space
    BY <1>1, <1>3 DEF Refuse, Fail, Finish, GhostsOK, ghosts
  <2>4. answered' \in [Pair -> Release \union {NoRelease}]
    BY <1>1, <1>3 DEF Refuse, Fail, Finish, GhostsOK, ghosts
  <2> QED BY <2>2, <2>3, <2>4 DEF GhostsOK
<1> QED BY <1>2, <1>3

\* The statements on the tables and the requests to Kubernetes.
LEMMA StepType ==
  ASSUME Parts, NEW h \in Handler, Step(h)
  PROVE  Parts'
<1>1. TablesOK /\ ClusterOK /\ RequestsOK /\ GhostsOK /\ CountsOK
  BY DEF Parts
<1>2. RequestsOK' /\ GhostsOK'
  BY <1>1, StepEnds, EndsType
<1>3. CountsOK'
  BY <1>1 DEF Step, CountsOK
<1>4. /\ req[h].space \in Space /\ req[h].app \in App /\ req[h].release \in Release
      /\ req[h].instances \in Instances /\ req[h].copy \in Deployment /\ PairOf(h) \in Pair
      /\ NoDeployment \in Deployment /\ NoDeployment.replicas \in Instances
      /\ PortOf[req[h].release] \in Port \union {NoPort}
  BY <1>1, Fields, NothingTypes, ReleaseAssumption
<1>5. CASE UNCHANGED <<rows, cluster>>
  BY <1>1, <1>2, <1>3, <1>5 DEF Parts, TablesOK, ClusterOK, rows, cluster
<1>6. CASE AddSpace(h) \/ DeleteSpaceRow(h) \/ DeleteAppRow(h)
  <2>1. UNCHANGED <<placed, instances, cluster>> /\ spaces' \subseteq Space /\ apps' \subseteq App
    BY <1>1, <1>4, <1>6 DEF AddSpace, DeleteSpaceRow, DeleteAppRow, TablesOK
  <2> QED BY <1>1, <1>2, <1>3, <2>1 DEF Parts, TablesOK, ClusterOK, cluster
<1>7. ASSUME UNCHANGED rows, ClusterOK' PROVE Parts'
  BY <1>1, <1>2, <1>3, <1>7 DEF Parts, TablesOK, rows
<1>8. CASE CreateNamespace(h) \/ CopySecret(h) \/ DeleteNamespace(h)
  <2>1. UNCHANGED <<rows, deployment, service, internal>>
    BY <1>8 DEF CreateNamespace, CopySecret, DeleteNamespace
  <2>2. namespaces' \in [Space -> {"none", "bare", "ready", "terminating"}]
    BY <1>1, <1>4, <1>8 DEF CreateNamespace, CopySecret, DeleteNamespace, ClusterOK
  <2> QED BY <1>1, <1>7, <2>1, <2>2 DEF ClusterOK
<1>9. CASE WriteDeployment(h) \/ Scale(h) \/ RestartDeployment(h) \/ DeleteDeployment(h)
  <2>1. UNCHANGED <<rows, namespaces, service, internal>>
    BY <1>9 DEF WriteDeployment, Scale, RestartDeployment, DeleteDeployment
  <2>2. [release |-> req[h].release, replicas |-> req[h].instances] \in Deployment
    BY <1>4 DEF Deployment
  <2>3. [deployment[PairOf(h)] EXCEPT !.replicas = req[h].instances] \in Deployment
    BY <1>1, <1>4 DEF Deployment, ClusterOK
  <2>4. deployment' \in [Pair -> Deployment]
    <3>1. CASE WriteDeployment(h)
      BY <1>1, <1>4, <2>2, <3>1 DEF WriteDeployment, ClusterOK
    <3>2. CASE Scale(h)
      <4>1. deployment' = deployment \/ deployment' = [deployment EXCEPT
                ![PairOf(h)] = [deployment[PairOf(h)] EXCEPT !.replicas = req[h].instances]]
        BY <3>2 DEF Scale
      <4> QED BY <1>1, <1>4, <2>3, <4>1 DEF ClusterOK
    <3>3. CASE RestartDeployment(h) \/ DeleteDeployment(h)
      BY <1>1, <1>4, <3>3 DEF RestartDeployment, DeleteDeployment, ClusterOK
    <3> QED BY <1>9, <3>1, <3>2, <3>3
  <2> QED BY <1>1, <1>7, <2>1, <2>4 DEF ClusterOK
<1>10. CASE WriteService(h) \/ WriteInternal(h) \/ DeleteService(h) \/ DeleteInternalService(h)
  <2>1. UNCHANGED <<rows, namespaces, deployment>>
    BY <1>10 DEF WriteService, WriteInternal, DeleteService, DeleteInternalService
  <2>2. service' \in [Pair -> Port \union {NoPort}]
    BY <1>1, <1>4, <1>10 DEF WriteService, WriteInternal, DeleteService, DeleteInternalService, ClusterOK
  <2>3. internal' \subseteq Pair
    BY <1>1, <1>4, <1>10 DEF WriteService, WriteInternal, DeleteService, DeleteInternalService, ClusterOK
  <2> QED BY <1>1, <1>7, <2>1, <2>2, <2>3 DEF ClusterOK
<1>11. CASE SetInstances(h) \/ RemoveFromSpace(h)
  <2>1. UNCHANGED <<spaces, apps, cluster>>
    BY <1>11 DEF SetInstances, RemoveFromSpace
  <2>2. TablesOK'
    BY <1>1, <1>4, <1>11, <2>1 DEF SetInstances, RemoveFromSpace, TablesOK
  <2> QED BY <1>1, <1>2, <1>3, <2>1, <2>2 DEF Parts, ClusterOK, cluster
<1> QED BY <1>5, <1>6, <1>8, <1>9, <1>10, <1>11
        DEF Step, CheckSpace, CheckPods, CountApps, SpacesOfApp, ReadApp, CheckExistence, GetDeployment

\* What a request that arrives does to the others: some are not alone any more.
LEMMA ArriveRequests ==
  ASSUME RequestsOK, NEW h \in Handler, NEW r \in Request, OpOK(r), Arrive(h, r)
  PROVE  /\ RequestsOK'
         /\ req'[h].pc = r.pc /\ req'[h].op = r.op /\ req'[h].space = r.space /\ req'[h].app = r.app
         /\ \A o \in Handler \ {h} : req'[o] = req[o] \/ req'[o] = [req[o] EXCEPT !.alone = FALSE]
<1>1. PICK others \in SUBSET Handler :
        req' = [o \in Handler |->
                  IF o = h THEN [r EXCEPT !.alone = others = {}]
                  ELSE IF o \in others THEN [req[o] EXCEPT !.alone = FALSE] ELSE req[o]]
  BY DEF Arrive
<1>2. ASSUME NEW q \in Request, OpOK(q), NEW b \in BOOLEAN
      PROVE  /\ [q EXCEPT !.alone = b] \in Request /\ OpOK([q EXCEPT !.alone = b])
             /\ [q EXCEPT !.alone = b].pc = q.pc /\ [q EXCEPT !.alone = b].op = q.op
             /\ [q EXCEPT !.alone = b].space = q.space /\ [q EXCEPT !.alone = b].app = q.app
  BY <1>2 DEF Request, OpOK
<1>3. (others = {}) \in BOOLEAN
  OBVIOUS
<1>4. req'[h] = [r EXCEPT !.alone = others = {}]
  BY <1>1
<1>5. /\ req'[h] \in Request /\ OpOK(req'[h])
      /\ req'[h].pc = r.pc /\ req'[h].op = r.op /\ req'[h].space = r.space /\ req'[h].app = r.app
  BY <1>2, <1>3, <1>4, Zenon
<1>6. ASSUME NEW o \in Handler \ {h}
      PROVE  req'[o] = req[o] \/ req'[o] = [req[o] EXCEPT !.alone = FALSE]
  BY <1>1
<1>7. ASSUME NEW o \in Handler
      PROVE  req'[o] \in Request /\ OpOK(req'[o])
  <2>1. req[o] \in Request /\ OpOK(req[o])
    BY Fields
  <2> QED BY <1>2, <1>5, <1>6, <2>1
<1>8. RequestsOK'
  BY <1>1, <1>7 DEF RequestsOK
<1> QED BY <1>5, <1>6, <1>8

\* Where operations begin.
Begins == {"check", "pods", "spacesof", "delservice", "get", "read", "setinstances"}

\* Each request that arrives begins there, as a request of its operation.
LEMMA StartArrives ==
  ASSUME NEW h \in Handler, Start(h)
  PROVE  \E r \in Request : r.pc \in Begins /\ OpOK(r) /\ Arrive(h, r)
<1>1. NoRequest \in Request /\ OpOK(NoRequest) /\ NoRequest.space \in Space /\ NoRequest.app \in App
  BY NothingTypes DEF Request
<1>2. ASSUME NEW s \in Space, StartCreatespace(h, s)
      PROVE  \E r \in Request : r.pc \in Begins /\ OpOK(r) /\ Arrive(h, r)
  <2> DEFINE r == [NoRequest EXCEPT !.pc = "check", !.op = "createspace", !.space = s, !.app = NoRequest.app]
  <2>1. r \in Request /\ r.pc \in Begins /\ OpOK(r)
    BY <1>1 DEF Request, Op, Unbegun, Begins, OpOK
  <2>2. Arrive(h, r)
    BY <1>2 DEF StartCreatespace, Begin
  <2> HIDE DEF r
  <2> QED BY <2>1, <2>2
<1>3. ASSUME NEW s \in Space, StartDeletespace(h, s)
      PROVE  \E r \in Request : r.pc \in Begins /\ OpOK(r) /\ Arrive(h, r)
  <2> DEFINE r == [NoRequest EXCEPT !.pc = "pods", !.op = "deletespace", !.space = s, !.app = NoRequest.app]
  <2>1. r \in Request /\ r.pc \in Begins /\ OpOK(r)
    BY <1>1 DEF Request, Op, Unbegun, Begins, OpOK
  <2>2. Arrive(h, r)
    BY <1>3 DEF StartDeletespace, Begin
  <2> HIDE DEF r
  <2> QED BY <2>1, <2>2
<1>4. ASSUME NEW a \in App, StartDeleteapp(h, a)
      PROVE  \E r \in Request : r.pc \in Begins /\ OpOK(r) /\ Arrive(h, r)
  <2> DEFINE r == [NoRequest EXCEPT !.pc = "spacesof", !.op = "dropapp", !.space = NoRequest.space, !.app = a]
  <2>1. r \in Request /\ r.pc \in Begins /\ OpOK(r)
    BY <1>1 DEF Request, Op, Unbegun, Begins, OpOK
  <2>2. Arrive(h, r)
    BY <1>4 DEF StartDeleteapp, Begin
  <2> HIDE DEF r
  <2> QED BY <2>1, <2>2
<1>5. ASSUME NEW s \in Space, NEW a \in App, StartDeleteApp(h, s, a)
      PROVE  \E r \in Request : r.pc \in Begins /\ OpOK(r) /\ Arrive(h, r)
  <2> DEFINE r == [NoRequest EXCEPT !.pc = "delservice", !.op = "deleteapp", !.space = s, !.app = a]
  <2>1. r \in Request /\ r.pc \in Begins /\ OpOK(r)
    BY <1>1 DEF Request, Op, Unbegun, Begins, OpOK
  <2>2. Arrive(h, r)
    BY <1>5 DEF StartDeleteApp, Begin
  <2> HIDE DEF r
  <2> QED BY <2>1, <2>2
<1>6. ASSUME NEW s \in Space, NEW a \in App, StartRestart(h, s, a)
      PROVE  \E r \in Request : r.pc \in Begins /\ OpOK(r) /\ Arrive(h, r)
  <2> DEFINE r == [NoRequest EXCEPT !.pc = "get", !.op = "restart", !.space = s, !.app = a]
  <2>1. r \in Request /\ r.pc \in Begins /\ OpOK(r)
    BY <1>1 DEF Request, Op, Unbegun, Begins, OpOK
  <2>2. Arrive(h, r)
    BY <1>6 DEF StartRestart, Begin
  <2> HIDE DEF r
  <2> QED BY <2>1, <2>2
<1>7. ASSUME NEW s \in Space, NEW a \in App, NEW rel \in Release, StartDeployment(h, s, a, rel)
      PROVE  \E r \in Request : r.pc \in Begins /\ OpOK(r) /\ Arrive(h, r)
  <2> DEFINE r == [NoRequest EXCEPT !.pc = "read", !.op = "deploy", !.space = s, !.app = a, !.release = rel]
  <2>1. r \in Request /\ r.pc \in Begins /\ OpOK(r)
    BY <1>1 DEF Request, Op, Unbegun, Begins, OpOK
  <2>2. Arrive(h, r)
    BY <1>7 DEF StartDeployment
  <2> HIDE DEF r
  <2> QED BY <2>1, <2>2
<1>8. ASSUME NEW s \in Space, NEW a \in App, NEW n \in Instances, StartScaleApp(h, s, a, n)
      PROVE  \E r \in Request : r.pc \in Begins /\ OpOK(r) /\ Arrive(h, r)
  <2> DEFINE r == [NoRequest EXCEPT !.pc = "setinstances", !.op = "scale", !.space = s, !.app = a,
                                    !.instances = n]
  <2>1. r \in Request /\ r.pc \in Begins /\ OpOK(r)
    BY <1>1 DEF Request, Op, Unbegun, Begins, OpOK
  <2>2. Arrive(h, r)
    BY <1>8 DEF StartScaleApp
  <2> HIDE DEF r
  <2> QED BY <2>1, <2>2
<1> QED BY <1>2, <1>3, <1>4, <1>5, <1>6, <1>7, <1>8 DEF Start

\* Arrivals ...
LEMMA ArriveType ==
  ASSUME Parts, NEW h \in Handler, NEW r \in Request, OpOK(r), Arrive(h, r)
  PROVE  Parts'
<1>1. TablesOK /\ ClusterOK /\ RequestsOK /\ GhostsOK /\ CountsOK
  BY DEF Parts
<1>2. UNCHANGED <<rows, cluster, answered, failures>> /\ requests' = requests + 1
      /\ requests < MaxRequests
  BY DEF Arrive
<1>3. CountsOK'
  BY <1>1, <1>2, BoundsAssumption DEF CountsOK
<1>4. ASSUME NEW o PROVE Overlap(r, req[o]) \subseteq Pair
  BY TouchesType DEF Overlap
<1>5. suspect' \subseteq Pair
  BY <1>1, <1>4 DEF Arrive, GhostsOK
<1>6. badspaces' \subseteq Space
  <2>1. r.space \in Space
    BY DEF Request
  <2> QED BY <1>1, <2>1 DEF Arrive, GhostsOK
<1>7. RequestsOK'
  BY <1>1, ArriveRequests
<1> QED BY <1>1, <1>2, <1>3, <1>5, <1>6, <1>7 DEF Parts, TablesOK, ClusterOK, GhostsOK, rows, cluster

\* A request whose error is not heeded goes on, or ends as if nothing was, but is not
\* alone any more.
LEMMA IgnoredGoesOn ==
  ASSUME RequestsOK, NEW h \in Handler, ErrorIgnored(h)
  PROVE  \/ req' = [req EXCEPT ![h] = NoRequest] /\ req[h].pc \in {"internal", "scale", "put"}
         \/ \E r \in Request : /\ req' = [req EXCEPT ![h] = r] /\ Follows(req[h].pc, r.pc)
                               /\ r.op = req[h].op /\ r.space = req[h].space /\ r.app = req[h].app
                               /\ r.alone = FALSE
<1>1. req[h] \in Request /\ req[h].pc \in DOMAIN Unchecked
  BY Fields DEF ErrorIgnored
<1>2. CASE Unchecked[req[h].pc] = "idle"
  BY <1>1, <1>2 DEF ErrorIgnored, Unchecked
<1>3. CASE Unchecked[req[h].pc] # "idle"
  <2> DEFINE pc == Unchecked[req[h].pc]
             r == [req[h] EXCEPT !.pc = pc, !.alone = FALSE]
  <2>1. Follows(req[h].pc, pc) /\ pc \in Unbegun \union Begun
    BY <1>1, <1>3 DEF Unchecked, Follows, Unbegun, Begun
  <2>2. req' = [req EXCEPT ![h] = r]
    BY <1>3 DEF ErrorIgnored
  <2> HIDE DEF pc
  <2>3. /\ r \in Request /\ r.pc = pc /\ r.alone = FALSE
        /\ r.op = req[h].op /\ r.space = req[h].space /\ r.app = req[h].app
    BY <1>1, <2>1 DEF Request
  <2> HIDE DEF r
  <2> QED BY <2>1, <2>2, <2>3
<1> QED BY <1>2, <1>3

\* ... failures ...
LEMMA FailureType ==
  ASSUME Parts, NEW h \in Handler, RequestFailure(h) \/ ErrorIgnored(h)
  PROVE  Parts'
<1>1. TablesOK /\ ClusterOK /\ RequestsOK /\ GhostsOK /\ CountsOK
  BY DEF Parts
<1>2. UNCHANGED <<rows, cluster, requests>> /\ failures' = failures + 1 /\ failures < MaxFailures
  BY DEF RequestFailure, ErrorIgnored
<1>3. CountsOK'
  BY <1>1, <1>2, BoundsAssumption DEF CountsOK
<1>4. RequestsOK' /\ GhostsOK'
  <2>1. CASE RequestFailure(h)
    BY <1>1, <2>1, EndsType DEF RequestFailure
  <2>2. CASE ErrorIgnored(h)
    <3>1. req[h] \in Request /\ OpOK(req[h]) /\ req[h].release \in Release
          /\ Touches(req[h]) \subseteq Pair
      BY <1>1, Fields, TouchesType
    <3>2. RequestsOK'
      BY <1>1, <2>2, <3>1, IgnoredGoesOn, FollowsOK, PutRequest, NothingTypes
    <3>3. suspect' \subseteq Pair /\ badspaces' = badspaces
      BY <1>1, <2>2, <3>1 DEF ErrorIgnored, GhostsOK
    <3>4. answered' \in [Pair -> Release \union {NoRelease}]
      BY <1>1, <2>2, <3>1 DEF ErrorIgnored, GhostsOK
    <3> QED BY <1>1, <3>2, <3>3, <3>4 DEF GhostsOK
  <2> QED BY <2>1, <2>2
<1> QED BY <1>1, <1>2, <1>3, <1>4 DEF Parts, TablesOK, ClusterOK, rows, cluster

\* ... and what others do.
LEMMA OthersType ==
  ASSUME Parts,
         \/ \E a \in App : Createapp(a)
         \/ \E s \in Space, a \in App, n \in Instances : AddApp(s, a, n)
         \/ \E s \in Space : NamespaceGone(s)
  PROVE  Parts'
<1>1. TablesOK /\ ClusterOK /\ RequestsOK /\ GhostsOK /\ CountsOK
  BY DEF Parts
<1>2. UNCHANGED <<req, ghosts, requests, failures>>
  BY DEF Createapp, AddApp, NamespaceGone
<1>3. RequestsOK' /\ GhostsOK' /\ CountsOK'
  BY <1>1, <1>2 DEF RequestsOK, GhostsOK, CountsOK, ghosts
<1>4. CASE \E a \in App : Createapp(a)
  BY <1>1, <1>3, <1>4 DEF Createapp, Parts, TablesOK, ClusterOK, cluster
<1>5. ASSUME NEW s \in Space, NEW a \in App, NEW n \in Instances, AddApp(s, a, n)
      PROVE  Parts'
  <2>1. <<s, a>> \in Pair
    BY DEF Pair
  <2>2. TablesOK'
    BY <1>1, <1>5, <2>1 DEF AddApp, TablesOK
  <2> QED BY <1>1, <1>3, <1>5, <2>2 DEF AddApp, Parts, ClusterOK, cluster
<1>6. ASSUME NEW s \in Space, NamespaceGone(s)
      PROVE  Parts'
  <2>1. ClusterOK'
    BY <1>1, <1>6, NothingTypes DEF NamespaceGone, ClusterOK
  <2> QED BY <1>1, <1>3, <1>6, <2>1 DEF NamespaceGone, Parts, TablesOK, rows
<1> QED BY <1>4, <1>5, <1>6

-----------------------------------------------------------------------------
(* Who is busy with what. *)

\* On an app in a space: a request that is alone, or whose pair is not suspect, has no
\* other beside it, but for restarts beside a restart.
Busy(h, p) == req[h].pc # "idle" /\ Near(req[h], p)
Sole(h, p) == Busy(h, p) /\ (req[h].alone \/ p \notin suspect)
Apart(p) == \A h \in Handler : Sole(h, p) => \A g \in Handler \ {h} : Busy(g, p) =>
              req[g].op = "restart" /\ req[h].op = "restart"

\* On a space.
Active(h, s) == req[h].pc # "idle" /\ SpaceOp(req[h]) /\ req[h].space = s
Only(h, s) == Active(h, s) /\ (req[h].alone \/ s \notin badspaces)
SpaceApart(s) == \A h \in Handler : Only(h, s) => \A g \in Handler \ {h} : ~Active(g, s)

\* Whom a request that arrives meets: both are not alone, and what they share is suspect.
LEMMA ArriveMeets ==
  ASSUME RequestsOK, GhostsOK, NEW h \in Handler, NEW r \in Request, OpOK(r), Arrive(h, r)
  PROVE  /\ suspect \subseteq suspect' /\ badspaces \subseteq badspaces'
         /\ \A o \in Handler \ {h} : \A p \in Pair :
              /\ req[o].pc # "idle" /\ Near(r, p) /\ Near(req[o], p)
              /\ ~(r.op = "restart" /\ req[o].op = "restart")
              => p \in suspect' /\ ~req'[o].alone /\ ~req'[h].alone
         /\ \A o \in Handler \ {h} :
              req[o].pc # "idle" /\ SpaceOp(r) /\ SpaceOp(req[o]) /\ req[o].space = r.space
              => r.space \in badspaces' /\ ~req'[o].alone /\ ~req'[h].alone
<1> DEFINE active == {o \in Handler : req[o].pc # "idle"}
           others == {o \in active : Overlap(r, req[o]) # {}}
           spacewise == {o \in others : SpaceOp(r) /\ SpaceOp(req[o])}
<1>1. /\ req' = [o \in Handler |->
                   IF o = h THEN [r EXCEPT !.alone = others = {}]
                   ELSE IF o \in others THEN [req[o] EXCEPT !.alone = FALSE] ELSE req[o]]
      /\ suspect' = suspect \union UNION {Overlap(r, req[o]) : o \in others}
      /\ badspaces' = IF spacewise # {} THEN badspaces \union {r.space} ELSE badspaces
  BY DEF Arrive
<1>2. ASSUME NEW o \in others, o # h
      PROVE  /\ ~req'[o].alone /\ ~req'[h].alone /\ Overlap(r, req[o]) \subseteq suspect'
             /\ SpaceOp(r) /\ SpaceOp(req[o]) => r.space \in badspaces'
  <2>1. req[o] \in Request
    BY Fields
  <2>2. req'[o] = [req[o] EXCEPT !.alone = FALSE]
    BY <1>1, <1>2
  <2>3. ~req'[o].alone
    BY <2>1, <2>2 DEF Request
  <2>4. others # {}
    BY <1>2
  <2>5. req'[h] = [r EXCEPT !.alone = others = {}]
    BY <1>1
  <2>6. ASSUME NEW b, ~b PROVE ~[r EXCEPT !.alone = b].alone
    BY <2>6 DEF Request
  <2>7. ~[r EXCEPT !.alone = others = {}].alone
    BY <2>4, <2>6, Zenon
  <2>8. ~req'[h].alone
    BY <2>5, <2>7, Zenon
  <2>9. Overlap(r, req[o]) \subseteq suspect'
    BY <1>1, <1>2
  <2>10. SpaceOp(r) /\ SpaceOp(req[o]) => r.space \in badspaces'
    BY <1>1, <1>2
  <2> QED BY <2>3, <2>8, <2>9, <2>10
<1>3. ASSUME NEW o \in Handler \ {h}, NEW p \in Pair,
             req[o].pc # "idle", Near(r, p), Near(req[o], p),
             ~(r.op = "restart" /\ req[o].op = "restart")
      PROVE  o \in others /\ p \in Overlap(r, req[o])
  <2>1. req[o] \in Request
    BY Fields
  <2>2. p \in Touches(r) /\ p \in Touches(req[o])
    BY <1>3, <2>1, NearTouches
  <2> QED BY <1>3, <2>2 DEF Overlap
<1>4. ASSUME NEW o \in Handler \ {h}, req[o].pc # "idle", SpaceOp(r), SpaceOp(req[o]),
             req[o].space = r.space
      PROVE  o \in others
  <2>1. PICK a : a \in App
    BY NamesAssumption
  <2>2. <<r.space, a>> \in Pair /\ req[o] \in Request
    BY <2>1, Fields DEF Pair, Request
  <2>3. Near(r, <<r.space, a>>) /\ Near(req[o], <<r.space, a>>)
    BY <1>4 DEF Near
  <2>4. ~(r.op = "restart" /\ req[o].op = "restart")
    BY <1>4 DEF SpaceOp
  <2> QED BY <1>3, <1>4, <2>2, <2>3, <2>4
<1>5. suspect \subseteq suspect' /\ badspaces \subseteq badspaces'
  BY <1>1
<1> HIDE DEF active, others, spacewise
<1> QED BY <1>2, <1>3, <1>4, <1>5

-----------------------------------------------------------------------------
(* Spaces: rows and namespaces agree. *)

Backed(s) == IF s \in spaces THEN namespaces[s] = "ready"
             ELSE namespaces[s] \in {"none", "terminating"}
Agree(s) == SettledSpace(s) => Backed(s)

\* What a request that creates or deletes a space has done so far.
Midway(h, s) ==
  /\ Active(h, s) /\ s \notin badspaces =>
       /\ req[h].pc = "namespace" => s \in spaces /\ namespaces[s] \in {"none", "terminating"}
       /\ req[h].pc = "secret" => s \in spaces /\ namespaces[s] = "bare"
  /\ Only(h, s) /\ req[h].pc = "delnamespace" => s \notin spaces
SpaceOK(s) == SpaceApart(s) /\ Agree(s) /\ \A h \in Handler : Midway(h, s)

\* The steps between the statements of a creation or deletion of a space.
Halfway == {"namespace", "secret", "delnamespace"}

\* A space is settled when it is not bad and nobody is at one of them.
LEMMA SettledHalfway ==
  ASSUME RequestsOK, NEW s
  PROVE  SettledSpace(s) <=> s \notin badspaces /\ \A h \in Handler : Active(h, s) => req[h].pc \notin Halfway
BY DEF RequestsOK, SettledSpace, Active, OpOK, SpaceOp, Begun, Halfway, Request

\* The same after a step.
LEMMA SettledHalfwayNext ==
  ASSUME RequestsOK', NEW s
  PROVE  SettledSpace(s)' <=>
           s \notin badspaces' /\ \A h \in Handler : Active(h, s)' => req'[h].pc \notin Halfway
BY DEF RequestsOK, SettledSpace, Active, OpOK, SpaceOp, Begun, Halfway, Request

\* The request of a handler changes: what it is about stays, and it does not become alone.
Moves(h, r) == /\ req' = [req EXCEPT ![h] = r] /\ req[h].pc # "idle"
               /\ r.pc # "idle" => /\ r.op = req[h].op /\ r.space = req[h].space /\ r.app = req[h].app
                                   /\ r.alone => req[h].alone

\* A step that does not write what belongs to the space.
LEMMA SpaceKept ==
  ASSUME RequestsOK, RequestsOK', NEW s \in Space, SpaceOK(s), NEW h \in Handler, NEW r, Moves(h, r),
         s \in spaces' <=> s \in spaces, namespaces'[s] = namespaces[s],
         s \in badspaces => s \in badspaces',
         Active(h, s) => r.pc \notin Halfway /\ (s \in badspaces' \/ req[h].pc \notin Halfway)
  PROVE  SpaceOK(s)'
<1>1. req'[h] = r /\ \A g \in Handler \ {h} : req'[g] = req[g]
  BY DEF Moves, RequestsOK
<1>2. \A g \in Handler : Active(g, s)' => Active(g, s) /\ (req'[g].alone => req[g].alone)
  BY <1>1 DEF Active, Moves, SpaceOp
<1>3. SpaceApart(s)'
  BY <1>2 DEF SpaceOK, SpaceApart, Only
<1>4. Agree(s)'
  <2>1. ASSUME SettledSpace(s)' PROVE Backed(s)'
    <3>1. s \notin badspaces' /\ \A g \in Handler : Active(g, s)' => req'[g].pc \notin Halfway
      BY <2>1, SettledHalfwayNext
    <3>2. ASSUME Active(h, s) PROVE req[h].pc \notin Halfway
      BY <3>1, <3>2
    <3>3. ASSUME NEW g \in Handler \ {h}, Active(g, s) PROVE req[g].pc \notin Halfway
      BY <1>1, <3>1, <3>3 DEF Active
    <3>4. s \notin badspaces
      BY <3>1
    <3>5. SettledSpace(s)
      BY <3>2, <3>3, <3>4, SettledHalfway
    <3>6. Backed(s)
      BY <3>5 DEF SpaceOK, Agree
    <3> QED BY <3>6 DEF Backed
  <2> QED BY <2>1 DEF Agree
<1>5. ASSUME NEW g \in Handler PROVE Midway(g, s)'
  BY <1>1, <1>2 DEF SpaceOK, Midway, Only, Moves, Halfway, Active
<1> QED BY <1>3, <1>4, <1>5 DEF SpaceOK

\* A request that writes what belongs to the space is the only one, unless the space
\* is and stays bad.
LEMMA SpaceAlone ==
  ASSUME RequestsOK, NEW s \in Space, SpaceOK(s), NEW h \in Handler, NEW r, Moves(h, r), Active(h, s),
         s \in badspaces => s \in badspaces' \/ req[h].alone
  PROVE  /\ SpaceApart(s)' /\ \A g \in Handler \ {h} : Midway(g, s)'
         /\ s \notin badspaces' => \A g \in Handler \ {h} : ~Active(g, s)'
<1>1. req'[h] = r /\ \A g \in Handler \ {h} : req'[g] = req[g]
  BY DEF Moves, RequestsOK
<1>2. \A g \in Handler : Active(g, s)' => Active(g, s) /\ (req'[g].alone => req[g].alone)
  BY <1>1 DEF Active, Moves, SpaceOp
<1>3. ASSUME NEW g \in Handler \ {h}, Only(g, s)' PROVE FALSE
  <2>1. Active(g, s)
    BY <1>2, <1>3 DEF Only
  <2>2. ~Only(h, s)
    BY <2>1 DEF SpaceOK, SpaceApart
  <2>3. ~Only(g, s)
    BY DEF SpaceOK, SpaceApart
  <2> QED BY <1>2, <1>3, <2>1, <2>2, <2>3 DEF Only
<1>4. \A g \in Handler \ {h} : Midway(g, s)'
  BY <1>3 DEF Midway, Only
<1>5. s \notin badspaces' => \A g \in Handler \ {h} : ~Active(g, s)'
  BY <1>3 DEF Only
<1>6. SpaceApart(s)'
  <2>1. ASSUME Only(h, s)', NEW g \in Handler \ {h} PROVE ~Active(g, s)'
    <3>1. Only(h, s)
      BY <1>2, <2>1 DEF Only
    <3> QED BY <1>2, <3>1 DEF SpaceOK, SpaceApart
  <2> QED BY <1>3, <2>1 DEF SpaceApart
<1> QED BY <1>4, <1>5, <1>6

\* Every step moves the request.
LEMMA StepMoves ==
  ASSUME RequestsOK, ClusterOK, TablesOK, NEW h \in Handler, Step(h)
  PROVE  \/ Moves(h, NoRequest) /\ (Refuse(h) \/ Fail(h) \/ Finish(h))
         \/ UNCHANGED ghosts /\ \E r \in Request : Moves(h, r) /\ Follows(req[h].pc, r.pc)
<1>1. CASE GoesOn(h)
  <2>1. PICK r \in Request : /\ req' = [req EXCEPT ![h] = r] /\ Follows(req[h].pc, r.pc)
                             /\ r.op = req[h].op /\ r.space = req[h].space /\ r.app = req[h].app
                             /\ r.alone = req[h].alone
    BY <1>1 DEF GoesOn
  <2>2. Moves(h, r)
    BY <2>1 DEF Moves, Follows
  <2> QED BY <1>1, <2>1, <2>2 DEF GoesOn
<1>2. CASE Refuse(h) \/ Fail(h) \/ Finish(h)
  <2>1. req[h].pc # "idle"
    BY StepEnds
  <2> QED BY <1>2, <2>1, NothingTypes DEF Moves, Refuse, Fail, Finish, Idle
<1> QED BY <1>1, <1>2, StepEnds

\* A request that ends can be one that is idle.
LEMMA NoRequestIdle ==
  /\ NoRequest.pc = "idle" /\ NoRequest.pc \notin Halfway
  /\ NoRequest.pc \notin Begun
BY NothingTypes DEF Halfway, Begun

\* A step of a request about something else.
LEMMA SpaceElsewhere ==
  ASSUME Parts, Parts', NEW s \in Space, SpaceOK(s), NEW h \in Handler, Step(h), ~Active(h, s)
  PROVE  SpaceOK(s)'
<1>1. /\ RequestsOK /\ ClusterOK /\ TablesOK /\ GhostsOK /\ RequestsOK' /\ ClusterOK' /\ TablesOK'
      /\ req[h].space \in Space /\ OpOK(req[h])
  BY Fields DEF Parts
<1>2. PICK r : Moves(h, r)
  BY <1>1, StepMoves
<1>3. req[h].pc # "idle"
  BY <1>1, StepEnds
<1>4. (s \in spaces') <=> (s \in spaces)
  <2>1. CASE AddSpace(h) \/ DeleteSpaceRow(h)
    <3>1. req[h].space # s
      BY <1>1, <1>3, <2>1 DEF Active, SpaceOp, OpOK, AddSpace, DeleteSpaceRow
    <3> QED BY <2>1, <3>1 DEF AddSpace, DeleteSpaceRow
  <2>2. CASE ~(AddSpace(h) \/ DeleteSpaceRow(h))
    BY <2>2 DEF Step, rows, CheckSpace, CreateNamespace, CopySecret, CheckPods, CountApps,
                DeleteNamespace, SpacesOfApp, DeleteAppRow, ReadApp, CheckExistence,
                WriteDeployment, WriteService, WriteInternal, SetInstances, Scale, GetDeployment,
                RestartDeployment, DeleteService, DeleteInternalService, DeleteDeployment,
                RemoveFromSpace
  <2> QED BY <2>1, <2>2
<1>5. namespaces'[s] = namespaces[s]
  <2>1. CASE CreateNamespace(h) \/ CopySecret(h) \/ DeleteNamespace(h)
    <3>1. req[h].space # s
      BY <1>1, <1>3, <2>1 DEF Active, SpaceOp, OpOK, CreateNamespace, CopySecret, DeleteNamespace
    <3> QED BY <1>1, <2>1, <3>1 DEF CreateNamespace, CopySecret, DeleteNamespace, ClusterOK
  <2>2. CASE ~(CreateNamespace(h) \/ CopySecret(h) \/ DeleteNamespace(h))
    BY <2>2 DEF Step, cluster, CheckSpace, AddSpace, DeleteSpaceRow, CheckPods, CountApps,
                SpacesOfApp, DeleteAppRow, ReadApp, CheckExistence,
                WriteDeployment, WriteService, WriteInternal, SetInstances, Scale, GetDeployment,
                RestartDeployment, DeleteService, DeleteInternalService, DeleteDeployment,
                RemoveFromSpace
  <2> QED BY <2>1, <2>2
<1>6. s \in badspaces => s \in badspaces'
  <2>1. CASE Finish(h)
    <3>1. req[h].op = "deletespace" => req[h].space # s
      BY <1>3 DEF Active, SpaceOp
    <3> QED BY <2>1, <3>1 DEF Finish
  <2>2. CASE Refuse(h) \/ Fail(h) \/ UNCHANGED ghosts
    BY <2>2 DEF Refuse, Fail, ghosts
  <2> QED BY <1>1, <2>1, <2>2, StepMoves
<1> QED BY <1>1, <1>2, <1>4, <1>5, <1>6, SpaceKept

\* A step of a request that creates or deletes the space.
LEMMA SpaceWritten ==
  ASSUME Parts, Parts', NEW s \in Space, SpaceOK(s), NEW h \in Handler, Step(h), Active(h, s)
  PROVE  SpaceOK(s)'
<1>1. /\ RequestsOK /\ ClusterOK /\ TablesOK /\ GhostsOK /\ RequestsOK' /\ ClusterOK' /\ TablesOK'
      /\ req[h].space = s /\ SpaceOp(req[h]) /\ OpOK(req[h]) /\ req[h].pc # "idle"
  BY Fields DEF Parts, Active
<1>2. PICK r : /\ Moves(h, r)
               /\ \/ r = NoRequest /\ (Refuse(h) \/ Fail(h) \/ Finish(h))
                  \/ UNCHANGED ghosts /\ Follows(req[h].pc, r.pc)
  BY <1>1, StepMoves
<1>3. req' = [req EXCEPT ![h] = r] /\ req'[h] = r
  BY <1>1, <1>2 DEF Moves, RequestsOK
\* Nothing was or is to be done.
<1>4. CASE /\ UNCHANGED <<spaces, namespaces, badspaces>>
           /\ req[h].pc \notin Halfway /\ r.pc \notin Halfway
  BY <1>1, <1>2, <1>4, SpaceKept
\* It ends with an error, in the middle.
<1>5. CASE UNCHANGED <<spaces, namespaces>> /\ Fail(h) /\ req[h].pc \in Halfway
  <2>1. s \in badspaces' /\ badspaces \subseteq badspaces'
    BY <1>1, <1>5 DEF Fail, Halfway, Begun
  <2>2. r.pc \notin Halfway
    BY <1>2, <1>3, <1>5, NoRequestIdle, NothingTypes DEF Fail, Idle, Follows, Moves, RequestsOK
  <2> QED BY <1>1, <1>2, <1>5, <2>1, <2>2, SpaceKept
\* It writes: then it is the only one, or the space is bad.
<1>6. ASSUME s \in badspaces => s \in badspaces' \/ req[h].alone,
             s \notin badspaces' /\ (~Active(h, s)' \/ r.pc \notin Halfway) => Backed(s)',
             Midway(h, s)'
      PROVE  SpaceOK(s)'
  <2>1. /\ SpaceApart(s)' /\ \A g \in Handler \ {h} : Midway(g, s)'
        /\ s \notin badspaces' => \A g \in Handler \ {h} : ~Active(g, s)'
    BY <1>1, <1>2, <1>6, SpaceAlone
  <2>2. Agree(s)'
    <3>1. ASSUME SettledSpace(s)' PROVE Backed(s)'
      <4>1. s \notin badspaces' /\ \A g \in Handler : Active(g, s)' => req'[g].pc \notin Halfway
        BY <1>1, <3>1, SettledHalfwayNext
      <4> QED BY <1>3, <1>6, <4>1
    <3> QED BY <3>1 DEF Agree
  <2> QED BY <1>6, <2>1, <2>2 DEF SpaceOK
<1>7. s \notin badspaces => \A g \in Handler \ {h} : ~Active(g, s)
  BY DEF SpaceOK, SpaceApart, Only
<1>8. ASSUME s \notin badspaces, req[h].pc \notin Halfway PROVE Backed(s)
  <2>1. \A g \in Handler : Active(g, s) => req[g].pc \notin Halfway
    BY <1>7, <1>8
  <2>2. SettledSpace(s)
    BY <1>1, <1>8, <2>1, SettledHalfway
  <2> QED BY <2>2 DEF SpaceOK, Agree
<1>9. CASE AddSpace(h)
  <2>1. CASE s \in spaces
    <3>1. UNCHANGED <<spaces, namespaces>> /\ Fail(h) /\ req[h].pc = "addspace"
      BY <1>1, <1>9, <2>1 DEF AddSpace, cluster
    <3>2. UNCHANGED badspaces /\ req[h].pc \notin Halfway /\ r.pc \notin Halfway
      <4>1. r = NoRequest
        BY <1>3, <3>1 DEF Fail, Idle, RequestsOK, Parts
      <4> QED BY <3>1, <4>1, NoRequestIdle DEF Fail, Begun, Halfway
    <3> QED BY <1>4, <3>1, <3>2
  <2>2. CASE s \notin spaces
    <3>1. /\ spaces' = spaces \union {s} /\ UNCHANGED <<namespaces, badspaces>>
          /\ req[h].pc = "addspace" /\ r.pc = "namespace"
      BY <1>1, <1>3, <1>9, <2>2 DEF AddSpace, To, cluster, ghosts, RequestsOK, Request
    <3>2. s \notin badspaces => namespaces[s] \in {"none", "terminating"}
      BY <1>8, <2>2, <3>1 DEF Backed, Halfway
    <3>3. Midway(h, s)'
      BY <1>3, <3>1, <3>2 DEF Midway
    <3>4. Active(h, s)' /\ r.pc \in Halfway
      BY <1>1, <1>2, <1>3, <3>1 DEF Active, Moves, SpaceOp, Halfway
    <3> QED BY <1>6, <3>1, <3>3, <3>4
  <2> QED BY <2>1, <2>2
<1>10. CASE CreateNamespace(h)
  <2>1. CASE Fail(h) /\ UNCHANGED namespaces
    BY <1>5, <1>10, <2>1 DEF CreateNamespace, rows, Halfway
  <2>2. CASE ~(Fail(h) /\ UNCHANGED namespaces)
    <3>1. /\ namespaces' = [namespaces EXCEPT ![s] = "bare"] /\ UNCHANGED <<spaces, badspaces>>
          /\ req[h].pc = "namespace" /\ r.pc = "secret"
      BY <1>1, <1>3, <1>10, <2>2 DEF CreateNamespace, To, rows, ghosts, RequestsOK, Request
    <3>2. namespaces'[s] = "bare"
      BY <1>1, <3>1 DEF ClusterOK
    <3>3. s \notin badspaces => s \in spaces
      BY <3>1 DEF SpaceOK, Midway
    <3>4. Midway(h, s)'
      BY <1>3, <3>1, <3>2, <3>3 DEF Midway
    <3>5. Active(h, s)' /\ r.pc \in Halfway
      BY <1>1, <1>2, <1>3, <3>1 DEF Active, Moves, SpaceOp, Halfway
    <3> QED BY <1>6, <3>1, <3>4, <3>5
  <2> QED BY <2>1, <2>2
<1>11. CASE CopySecret(h)
  <2>1. CASE Fail(h) /\ UNCHANGED namespaces
    BY <1>5, <1>11, <2>1 DEF CopySecret, rows, Halfway
  <2>2. CASE ~(Fail(h) /\ UNCHANGED namespaces)
    <3>1. /\ namespaces' = [namespaces EXCEPT ![s] = "ready"] /\ UNCHANGED spaces
          /\ req[h].pc = "secret" /\ Finish(h)
      BY <1>1, <1>11, <2>2 DEF CopySecret, rows
    <3>2. UNCHANGED badspaces
      BY <1>1, <3>1 DEF Finish, OpOK
    <3>3. r = NoRequest
      BY <1>3, <3>1 DEF Finish, Idle, RequestsOK, Parts
    <3>4. s \notin badspaces => s \in spaces
      BY <3>1 DEF SpaceOK, Midway
    <3>5. namespaces'[s] = "ready"
      BY <1>1, <3>1 DEF ClusterOK
    <3>6. Midway(h, s)' /\ ~Active(h, s)'
      BY <1>3, <3>3, NoRequestIdle DEF Midway, Active, Only
    <3> QED BY <1>6, <3>1, <3>2, <3>4, <3>5, <3>6 DEF Backed
  <2> QED BY <2>1, <2>2
<1>12. CASE DeleteSpaceRow(h)
  <2>1. /\ spaces' = spaces \ {s} /\ UNCHANGED <<namespaces, badspaces>>
        /\ req[h].pc = "delspace" /\ r.pc = "delnamespace"
    BY <1>1, <1>3, <1>12 DEF DeleteSpaceRow, To, cluster, ghosts, RequestsOK, Request
  <2>2. Midway(h, s)'
    BY <1>3, <2>1 DEF Midway
  <2>3. Active(h, s)' /\ r.pc \in Halfway
    BY <1>1, <1>2, <1>3, <2>1 DEF Active, Moves, SpaceOp, Halfway
  <2> QED BY <1>6, <2>1, <2>2, <2>3
<1>13. CASE DeleteNamespace(h)
  <2>1. /\ namespaces' = [namespaces EXCEPT ![s] = IF @ = "none" THEN @ ELSE "terminating"]
        /\ UNCHANGED spaces /\ req[h].pc = "delnamespace"
    BY <1>1, <1>13 DEF DeleteNamespace, rows
  <2>2. namespaces'[s] \in {"none", "terminating"}
    BY <1>1, <2>1 DEF ClusterOK
  <2>3. r = NoRequest /\ (Finish(h) \/ Fail(h))
    BY <1>3, <1>13 DEF DeleteNamespace, Fail, Finish, Idle, RequestsOK, Parts
  <2>4. Midway(h, s)' /\ ~Active(h, s)'
    BY <1>3, <2>3, NoRequestIdle DEF Midway, Active, Only
  <2>5. s \in badspaces => s \in badspaces' \/ req[h].alone
    BY <1>1, <2>3 DEF Finish, Fail
  <2>6. s \notin badspaces' => Only(h, s)
    BY <1>1, <2>1, <2>3 DEF Only, Finish, Fail, Begun
  <2>7. s \notin badspaces' => s \notin spaces
    BY <2>1, <2>6 DEF SpaceOK, Midway
  <2> QED BY <1>6, <2>1, <2>2, <2>4, <2>5, <2>7 DEF Backed
<1>14. CASE CheckSpace(h) \/ CheckPods(h) \/ CountApps(h)
  <2>1. /\ UNCHANGED <<spaces, namespaces, badspaces>> /\ req[h].pc \in {"check", "pods", "count"}
        /\ r.pc \in {"idle", "addspace", "count", "delspace"}
    <3>1. /\ UNCHANGED <<rows, cluster, ghosts>> /\ req[h].pc \in {"check", "pods", "count"}
          /\ \/ req' = [req EXCEPT ![h] = NoRequest]
             \/ \E pc \in {"addspace", "count", "delspace"} : req' = [req EXCEPT ![h].pc = pc]
      BY <1>14 DEF CheckSpace, CheckPods, CountApps, To, Refuse, Idle
    <3>2. req'[h].pc \in {"idle", "addspace", "count", "delspace"}
      BY <1>1, <3>1, NothingTypes DEF RequestsOK, Request
    <3> QED BY <1>3, <3>1, <3>2 DEF ghosts, rows, cluster
  <2> QED BY <1>4, <2>1 DEF Halfway
<1> QED BY <1>1, <1>9, <1>10, <1>11, <1>12, <1>13, <1>14
        DEF Step, SpaceOp, OpOK, SpacesOfApp, DeleteAppRow, ReadApp, CheckExistence,
            WriteDeployment, WriteService, WriteInternal, SetInstances, Scale, GetDeployment,
            RestartDeployment, DeleteService, DeleteInternalService, DeleteDeployment,
            RemoveFromSpace

\* Arrivals, failures, and what others do.
LEMMA SpaceOthers ==
  ASSUME Parts, Parts', NEW s \in Space, SpaceOK(s),
         \/ \E h \in Handler : Start(h) \/ RequestFailure(h) \/ ErrorIgnored(h)
         \/ \E a \in App : Createapp(a)
         \/ \E t \in Space, a \in App, n \in Instances : AddApp(t, a, n)
         \/ \E t \in Space : NamespaceGone(t)
  PROVE  SpaceOK(s)'
<1>1. RequestsOK /\ ClusterOK /\ GhostsOK /\ RequestsOK'
  BY DEF Parts
<1>2. ASSUME NEW h \in Handler, Start(h) PROVE SpaceOK(s)'
  <2>1. PICK r \in Request : r.pc \in Begins /\ OpOK(r) /\ Arrive(h, r)
    BY <1>2, StartArrives
  <2>2. /\ req'[h].pc = r.pc /\ req'[h].op = r.op /\ req'[h].space = r.space
        /\ \A o \in Handler \ {h} : /\ req'[o].pc = req[o].pc /\ req'[o].op = req[o].op
                                    /\ req'[o].space = req[o].space
                                    /\ req'[o].alone => req[o].alone
    <3>1. ASSUME NEW o \in Handler, NEW q, q = [req[o] EXCEPT !.alone = FALSE]
          PROVE  q.pc = req[o].pc /\ q.op = req[o].op /\ q.space = req[o].space /\ ~q.alone
      BY <1>1, <3>1, Fields DEF Request
    <3> QED BY <1>1, <2>1, <3>1, ArriveRequests
  <2>3. UNCHANGED <<spaces, namespaces>> /\ badspaces \subseteq badspaces'
    BY <1>1, <2>1, ArriveMeets DEF Arrive, rows, cluster
  <2>4. req[h].pc = "idle" /\ req'[h].pc \notin Halfway
    BY <2>1, <2>2 DEF Arrive, Begins, Halfway
  <2>5. SpaceApart(s)'
    <3>1. ASSUME NEW g \in Handler, NEW o \in Handler \ {g}, Only(g, s)', Active(o, s)'
          PROVE  FALSE
      <4>1. CASE g # h /\ o # h
        BY <2>2, <2>3, <3>1, <4>1 DEF SpaceOK, SpaceApart, Only, Active, SpaceOp
      <4>2. CASE g = h \/ o = h
        <5>1. PICK x \in Handler \ {h} : Active(x, s)' /\ (x = g \/ x = o)
          BY <3>1, <4>2 DEF Only
        <5>2. req[x].pc # "idle" /\ SpaceOp(r) /\ SpaceOp(req[x]) /\ req[x].space = r.space /\ r.space = s
          BY <2>2, <3>1, <4>2, <5>1 DEF Active, SpaceOp, Only
        <5>3. s \in badspaces' /\ ~req'[x].alone /\ ~req'[h].alone
          BY <1>1, <2>1, <5>2, ArriveMeets
        <5> QED BY <3>1, <4>2, <5>1, <5>3 DEF Only
      <4> QED BY <4>1, <4>2
    <3> QED BY <3>1 DEF SpaceApart
  <2>6. Agree(s)'
    <3>1. ASSUME SettledSpace(s)' PROVE Backed(s)'
      <4>1. s \notin badspaces' /\ \A g \in Handler : Active(g, s)' => req'[g].pc \notin Halfway
        BY <1>1, <3>1, SettledHalfwayNext
      <4>2. s \notin badspaces /\ \A g \in Handler : Active(g, s) => req[g].pc \notin Halfway
        BY <2>2, <2>3, <2>4, <4>1 DEF Active, SpaceOp
      <4>3. SettledSpace(s)
        BY <1>1, <4>2, SettledHalfway
      <4> QED BY <2>3, <4>3 DEF SpaceOK, Agree, Backed
    <3> QED BY <3>1 DEF Agree
  <2>7. ASSUME NEW g \in Handler PROVE Midway(g, s)'
    <3>1. CASE g = h
      BY <2>4, <3>1 DEF Midway, Halfway
    <3>2. CASE g # h
      BY <2>2, <2>3, <3>2 DEF SpaceOK, Midway, Only, Active, SpaceOp
    <3> QED BY <3>1, <3>2
  <2> QED BY <2>5, <2>6, <2>7 DEF SpaceOK
<1>3. ASSUME NEW h \in Handler, RequestFailure(h) PROVE SpaceOK(s)'
  <2>1. Moves(h, NoRequest) /\ UNCHANGED <<spaces, namespaces>> /\ badspaces \subseteq badspaces'
    BY <1>3, NothingTypes DEF RequestFailure, Fail, Idle, Moves, rows, cluster
  <2>2. Active(h, s) => s \in badspaces' \/ req[h].pc \notin Halfway
    BY <1>3 DEF RequestFailure, Fail, Active, Halfway, Begun
  <2> QED BY <1>1, <2>1, <2>2, SpaceKept, NoRequestIdle
<1>4. ASSUME NEW h \in Handler, ErrorIgnored(h) PROVE SpaceOK(s)'
  <2>1. UNCHANGED <<spaces, namespaces, badspaces>> /\ req[h].pc \in DOMAIN Unchecked
    BY <1>4 DEF ErrorIgnored, rows, cluster
  <2>2. PICK r \in Request : Moves(h, r) /\ (r = NoRequest \/ Follows(req[h].pc, r.pc))
    <3>1. req[h].pc # "idle"
      BY <2>1 DEF Unchecked
    <3>2. ASSUME NEW r \in Request, req' = [req EXCEPT ![h] = r], Follows(req[h].pc, r.pc),
                 r.op = req[h].op, r.space = req[h].space, r.app = req[h].app, r.alone = FALSE
          PROVE  Moves(h, r)
      BY <3>1, <3>2 DEF Moves
    <3>3. req' = [req EXCEPT ![h] = NoRequest] => Moves(h, NoRequest)
      BY <3>1, NothingTypes DEF Moves
    <3> QED BY <1>1, <1>4, <3>2, <3>3, IgnoredGoesOn, NothingTypes
  <2>3. req[h].pc \notin Halfway /\ r.pc \notin Halfway
    BY <2>1, <2>2, NoRequestIdle DEF Unchecked, Halfway, Follows
  <2> QED BY <1>1, <2>1, <2>2, <2>3, SpaceKept
<1>5. (/\ UNCHANGED <<spaces, req, badspaces>>
       /\ namespaces'[s] = namespaces[s] \/ (namespaces[s] = "terminating" /\ namespaces'[s] = "none"))
      => SpaceOK(s)'
  BY DEF SpaceOK, SpaceApart, Agree, Midway, Only, Active, Backed, SettledSpace
<1>6. CASE (\E a \in App : Createapp(a)) \/ \E t \in Space, a \in App, n \in Instances : AddApp(t, a, n)
  <2>1. UNCHANGED <<spaces, req, badspaces, namespaces>>
    BY <1>6 DEF Createapp, AddApp, cluster, ghosts
  <2> QED BY <1>5, <2>1
<1>7. ASSUME NEW t \in Space, NamespaceGone(t) PROVE SpaceOK(s)'
  <2>1. /\ UNCHANGED <<spaces, req, badspaces>> /\ namespaces[t] = "terminating"
        /\ namespaces' = [namespaces EXCEPT ![t] = "none"]
    BY <1>7 DEF NamespaceGone, rows, ghosts
  <2>2. namespaces'[s] = namespaces[s] \/ (namespaces[s] = "terminating" /\ namespaces'[s] = "none")
    BY <1>1, <2>1 DEF ClusterOK
  <2> QED BY <1>5, <2>1, <2>2
<1> QED BY <1>2, <1>3, <1>4, <1>6, <1>7

-----------------------------------------------------------------------------
(* Apps in spaces: what was answered is there. *)

Home(p) == p[1] \in spaces /\ p[2] \in apps /\ p \in placed
Bare(p) == deployment[p].release = NoRelease /\ service[p] = NoPort /\ p \notin internal
Served(p, r) == /\ PortOf[r] # NoPort => service[p] = PortOf[r]
                /\ (p \in internal) <=> (r \in WithInner)

\* Requests that are writing what belongs to the pair.
Rewriting(h, p) ==
  Busy(h, p) /\ req[h].pc \in {"service", "internal", "delinternal", "deldeployment", "unplace"}
Scaling(h, p) == Busy(h, p) /\ req[h].pc = "scale"

\* What was deployed has its space and app, ...
HomeOK(p) == p \notin suspect /\ answered[p] # NoRelease => Home(p)
\* ... a space without a namespace has nothing, ...
NoneOK(p) == namespaces[p[1]] = "none" => Bare(p)
\* ... nothing is left of what was never deployed or was removed, ...
CleanOK(p) ==
  p \notin suspect /\ answered[p] = NoRelease /\ namespaces[p[1]] # "terminating"
    /\ (\A h \in Handler : ~Rewriting(h, p)) => Bare(p)
\* ... and what was deployed runs.
RunsOK(p) ==
  p \notin suspect /\ p[1] \notin badspaces /\ answered[p] # NoRelease
    /\ (\A h \in Handler : ~Rewriting(h, p)) =>
  /\ deployment[p].release = answered[p] /\ Served(p, answered[p])
  /\ (\A h \in Handler : ~Scaling(h, p)) => deployment[p].replicas = instances[p]

\* What a request has seen or done so far: creations and deletions of spaces, and
\* deletions of apps, found nothing deployed, ...
VacantOK(h, p) ==
  Busy(h, p) /\ p \notin suspect
    /\ req[h].pc \in {"namespace", "secret", "delspace", "delnamespace", "delapp"} =>
  answered[p] = NoRelease
ScaleOK(h, p) ==
  Scaling(h, p) /\ p \notin suspect /\ answered[p] # NoRelease => instances[p] = req[h].instances
RestartOK(h, p) ==
  Busy(h, p) /\ req[h].pc = "put" /\ p \notin suspect /\ p[1] \notin badspaces
    /\ answered[p] # NoRelease =>
  req[h].copy.release = answered[p] /\ req[h].copy.replicas = instances[p]
\* ... a deployment, when it is the only one, knows what there is, ...
SeenOK(h, p) ==
  LET r == req[h] IN
  /\ r.pc = "deploy" => (("deployment" \in r.seen) <=> (deployment[p].release # NoRelease))
  /\ r.pc \in {"deploy", "service"} => (("service" \in r.seen) <=> (service[p] # NoPort))
  /\ r.pc # "checks" => (("internal" \in r.seen) <=> (p \in internal))
WrittenOK(h, p) ==
  LET r == req[h] IN
  /\ r.pc \in {"service", "internal"} =>
       deployment[p].release = r.release /\ deployment[p].replicas = r.instances
  /\ r.pc = "internal" /\ PortOf[r.release] # NoPort => service[p] = PortOf[r.release]
DeployOK(h, p) ==
  Sole(h, p) /\ req[h].pc \in {"checks", "deploy", "service", "internal"} =>
    /\ Home(p) /\ instances[p] = req[h].instances
    /\ p[1] \notin badspaces => SeenOK(h, p) /\ WrittenOK(h, p)
\* ... and a removal has removed what it came by.
RemoveOK(h, p) ==
  Sole(h, p) /\ req[h].pc \in {"delinternal", "deldeployment", "unplace"} =>
    /\ service[p] = NoPort
    /\ req[h].pc # "delinternal" => p \notin internal
    /\ req[h].pc = "unplace" => deployment[p].release = NoRelease
HandlerOK(h, p) == VacantOK(h, p) /\ ScaleOK(h, p) /\ RestartOK(h, p) /\ DeployOK(h, p) /\ RemoveOK(h, p)

PairOK(p) == /\ Apart(p) /\ HomeOK(p) /\ NoneOK(p) /\ CleanOK(p) /\ RunsOK(p)
             /\ \A h \in Handler : HandlerOK(h, p)

\* What belongs to a pair stays.
Kept(p) == /\ (p \in placed') <=> (p \in placed)
           /\ instances'[p] = instances[p] /\ deployment'[p] = deployment[p]
           /\ service'[p] = service[p] /\ ((p \in internal') <=> (p \in internal))
           /\ answered'[p] = answered[p]
HomeKept(p) == /\ (p[1] \in spaces') <=> (p[1] \in spaces)
               /\ (p[2] \in apps') <=> (p[2] \in apps)
               /\ namespaces'[p[1]] = namespaces[p[1]]

\* A step that leaves the pair alone; what was being written is suspect, or nothing was.
LEMMA PairKept ==
  ASSUME RequestsOK, RequestsOK', NEW p \in Pair, PairOK(p), NEW h \in Handler, NEW r, Moves(h, r),
         Kept(p), HomeKept(p),
         p \in suspect => p \in suspect', p[1] \in badspaces => p[1] \in badspaces',
         Busy(h, p) => /\ p \in suspect' \/ ~(Rewriting(h, p) \/ Scaling(h, p))
                       /\ HandlerOK(h, p)'
  PROVE  PairOK(p)'
<1>1. req'[h] = r /\ \A g \in Handler \ {h} : req'[g] = req[g]
  BY DEF Moves, RequestsOK
<1>2. \A g \in Handler : Busy(g, p)' => /\ Busy(g, p) /\ (req'[g].alone => req[g].alone)
                                        /\ req'[g].op = req[g].op
  BY <1>1 DEF Busy, Moves, Near, SpaceOp
<1>3. \A g \in Handler : Sole(g, p)' => Sole(g, p)
  BY <1>2 DEF Sole
<1>4. Apart(p)'
  BY <1>2, <1>3 DEF PairOK, Apart, Sole
<1>5. HomeOK(p)' /\ NoneOK(p)'
  BY DEF PairOK, HomeOK, NoneOK, Home, Bare, Kept, HomeKept
<1>6. ASSUME p \notin suspect'
      PROVE  \A g \in Handler : (Rewriting(g, p) => Rewriting(g, p)') /\ (Scaling(g, p) => Scaling(g, p)')
  <2>1. ASSUME NEW g \in Handler \ {h}
        PROVE  (Rewriting(g, p) => Rewriting(g, p)') /\ (Scaling(g, p) => Scaling(g, p)')
    BY <1>1 DEF Rewriting, Scaling, Busy
  <2>2. ~Rewriting(h, p) /\ ~Scaling(h, p)
    BY <1>6 DEF Rewriting, Scaling
  <2> QED BY <2>1, <2>2
<1>7. CleanOK(p)'
  BY <1>6 DEF PairOK, CleanOK, Bare, Kept, HomeKept
<1>8. RunsOK(p)'
  BY <1>6 DEF PairOK, RunsOK, Served, Kept
<1>9. ASSUME NEW g \in Handler PROVE HandlerOK(g, p)'
  <2>1. CASE g = h /\ Busy(h, p)
    BY <2>1
  <2>2. CASE g = h /\ ~Busy(h, p)
    <3>1. ~Busy(g, p)'
      BY <1>2, <2>2
    <3> QED BY <3>1 DEF HandlerOK, VacantOK, ScaleOK, RestartOK, DeployOK, RemoveOK, Scaling, Sole
  <2>3. CASE g # h
    <3>1. /\ req'[g] = req[g] /\ (Busy(g, p)' => Busy(g, p)) /\ (Sole(g, p)' => Sole(g, p))
          /\ HandlerOK(g, p)
      BY <1>1, <1>2, <1>3, <2>3 DEF PairOK
    <3>2. VacantOK(g, p)' /\ ScaleOK(g, p)' /\ RestartOK(g, p)'
      BY <3>1 DEF HandlerOK, VacantOK, ScaleOK, RestartOK, Scaling, Kept
    <3>3. DeployOK(g, p)' /\ RemoveOK(g, p)'
      BY <3>1 DEF HandlerOK, DeployOK, RemoveOK, SeenOK, WrittenOK, Kept, HomeKept, Home
    <3> QED BY <3>2, <3>3 DEF HandlerOK
  <2> QED BY <2>1, <2>2, <2>3
<1> QED BY <1>4, <1>5, <1>7, <1>8, <1>9 DEF PairOK

\* A request that ends has done nothing.
LEMMA IdleOK ==
  ASSUME NEW h \in Handler, NEW p, req'[h].pc = "idle"
  PROVE  HandlerOK(h, p)' /\ ~Busy(h, p)' /\ ~Rewriting(h, p)' /\ ~Scaling(h, p)'
BY DEF HandlerOK, VacantOK, ScaleOK, RestartOK, DeployOK, RemoveOK, Scaling, Rewriting, Sole, Busy

\* A request that writes, and does not restart, is the only one, unless the pair is and
\* stays suspect.
LEMMA PairAlone ==
  ASSUME RequestsOK, RequestsOK', NEW p \in Pair, PairOK(p), NEW h \in Handler, NEW r, Moves(h, r),
         Busy(h, p), req[h].op # "restart",
         p \in suspect => p \in suspect' \/ req[h].alone
  PROVE  /\ Apart(p)' /\ \A g \in Handler \ {h} : HandlerOK(g, p)'
         /\ p \notin suspect' => \A g \in Handler \ {h} : ~Busy(g, p) /\ ~Busy(g, p)'
<1>1. req'[h] = r /\ \A g \in Handler \ {h} : req'[g] = req[g]
  BY DEF Moves, RequestsOK
<1>2. \A g \in Handler : Busy(g, p)' => /\ Busy(g, p) /\ (req'[g].alone => req[g].alone)
                                        /\ req'[g].op = req[g].op
  BY <1>1 DEF Busy, Moves, Near, SpaceOp
<1>3. ASSUME NEW g \in Handler \ {h}, Busy(g, p), p \notin suspect' \/ req[g].alone PROVE FALSE
  <2>1. CASE req[g].alone
    BY <1>3, <2>1 DEF PairOK, Apart, Sole
  <2>2. CASE p \notin suspect'
    <3>1. Sole(h, p)
      BY <2>2 DEF Sole
    <3> QED BY <1>3, <3>1 DEF PairOK, Apart
  <2> QED BY <1>3, <2>1, <2>2
<1>4. \A g \in Handler \ {h} : ~Sole(g, p)'
  BY <1>2, <1>3 DEF Sole
<1>5. ASSUME NEW g \in Handler \ {h} PROVE HandlerOK(g, p)'
  <2>1. Busy(g, p)' => p \in suspect'
    BY <1>4 DEF Sole
  <2> QED BY <1>4, <2>1 DEF HandlerOK, VacantOK, ScaleOK, RestartOK, DeployOK, RemoveOK, Scaling
<1>6. p \notin suspect' => \A g \in Handler \ {h} : ~Busy(g, p) /\ ~Busy(g, p)'
  BY <1>2, <1>3
<1>7. Apart(p)'
  <2>1. ASSUME Sole(h, p)', NEW g \in Handler \ {h}, Busy(g, p)' PROVE FALSE
    <3>1. Busy(g, p)
      BY <1>2, <2>1
    <3>2. p \in suspect'
      BY <1>3, <3>1
    <3>3. req[h].alone
      BY <1>2, <2>1, <3>2 DEF Sole
    <3>4. Sole(h, p)
      BY <3>3 DEF Sole
    <3> QED BY <3>1, <3>4 DEF PairOK, Apart
  <2> QED BY <1>4, <2>1 DEF Apart
<1> QED BY <1>5, <1>6, <1>7

-----------------------------------------------------------------------------
(* The steps of a request. *)

\* A step about something else.
LEMMA PairElsewhere ==
  ASSUME Parts, Parts', NEW p \in Pair, PairOK(p), NEW h \in Handler, Step(h), ~Busy(h, p)
  PROVE  PairOK(p)'
<1>1. /\ RequestsOK /\ ClusterOK /\ TablesOK /\ GhostsOK /\ RequestsOK' /\ ClusterOK' /\ TablesOK'
      /\ OpOK(req[h]) /\ req[h] \in Request /\ PairOf(h) \in Pair
  BY Fields DEF Parts
<1>2. PICK r : Moves(h, r)
  BY <1>1, StepMoves
<1>3. req[h].pc # "idle" /\ ~Near(req[h], p)
  BY <1>1, StepEnds DEF Busy
<1>4. PairOf(h) = p => SpaceOp(req[h]) \/ req[h].op = "dropapp"
  BY <1>3 DEF Near, PairOf
<1>5. SpaceOp(req[h]) => req[h].space # p[1]
  BY <1>3 DEF Near
<1>6. req[h].op = "dropapp" => req[h].app # p[2]
  BY <1>3 DEF Near
<1>7. /\ (p \in suspect => p \in suspect') /\ (p[1] \in badspaces => p[1] \in badspaces')
      /\ answered'[p] = answered[p]
  <2>1. CASE Finish(h)
    BY <1>1, <1>4, <1>5, <2>1 DEF Finish, SpaceOp, GhostsOK
  <2>2. CASE Refuse(h) \/ Fail(h) \/ UNCHANGED ghosts
    BY <2>2 DEF Refuse, Fail, ghosts
  <2> QED BY <1>1, <2>1, <2>2, StepMoves
<1>8. HomeKept(p)
  <2>1. CASE AddSpace(h) \/ DeleteSpaceRow(h)
    <3>1. req[h].space # p[1]
      BY <1>1, <1>5, <2>1 DEF AddSpace, DeleteSpaceRow, OpOK, SpaceOp
    <3>2. UNCHANGED <<apps, namespaces>>
      BY <2>1 DEF AddSpace, DeleteSpaceRow, cluster
    <3>3. (p[1] \in spaces') <=> (p[1] \in spaces)
      BY <2>1, <3>1 DEF AddSpace, DeleteSpaceRow
    <3> QED BY <3>2, <3>3 DEF HomeKept
  <2>2. CASE DeleteAppRow(h)
    BY <1>1, <1>6, <2>2 DEF DeleteAppRow, cluster, HomeKept, OpOK
  <2>3. CASE CreateNamespace(h) \/ CopySecret(h) \/ DeleteNamespace(h)
    <3>1. req[h].space # p[1]
      BY <1>1, <1>5, <2>3 DEF CreateNamespace, CopySecret, DeleteNamespace, OpOK, SpaceOp
    <3>2. UNCHANGED <<spaces, apps>>
      BY <2>3 DEF CreateNamespace, CopySecret, DeleteNamespace, rows
    <3>3. \E v : namespaces' = [namespaces EXCEPT ![req[h].space] = v] \/ namespaces' = namespaces
      BY <2>3 DEF CreateNamespace, CopySecret, DeleteNamespace
    <3>4. namespaces'[p[1]] = namespaces[p[1]]
      BY <1>1, <3>1, <3>3 DEF ClusterOK, Pair
    <3> QED BY <3>2, <3>4 DEF HomeKept
  <2>4. CASE UNCHANGED <<spaces, apps, namespaces>>
    BY <2>4 DEF HomeKept
  <2> QED BY <2>1, <2>2, <2>3, <2>4
          DEF Step, rows, cluster, CheckSpace, CheckPods, CountApps,
              SpacesOfApp, ReadApp, CheckExistence, WriteDeployment, WriteService, WriteInternal,
              SetInstances, Scale, GetDeployment, RestartDeployment, DeleteService,
              DeleteInternalService, DeleteDeployment, RemoveFromSpace
<1>9. Kept(p)
  <2>1. CASE \/ WriteDeployment(h) \/ Scale(h) \/ RestartDeployment(h) \/ DeleteDeployment(h)
             \/ WriteService(h) \/ WriteInternal(h) \/ DeleteService(h) \/ DeleteInternalService(h)
             \/ SetInstances(h) \/ RemoveFromSpace(h)
    <3>1. PairOf(h) # p
      BY <1>1, <1>4, <2>1 DEF OpOK, SpaceOp, WriteDeployment, Scale, RestartDeployment,
            DeleteDeployment, WriteService, WriteInternal, DeleteService, DeleteInternalService,
            SetInstances, RemoveFromSpace
    <3>2. deployment'[p] = deployment[p]
      BY <1>1, <2>1, <3>1 DEF ClusterOK, WriteDeployment, Scale, RestartDeployment,
            DeleteDeployment, WriteService, WriteInternal, DeleteService, DeleteInternalService,
            SetInstances, RemoveFromSpace, cluster
    <3>3. service'[p] = service[p] /\ ((p \in internal') <=> (p \in internal))
      BY <1>1, <2>1, <3>1 DEF ClusterOK, WriteDeployment, Scale, RestartDeployment,
            DeleteDeployment, WriteService, WriteInternal, DeleteService, DeleteInternalService,
            SetInstances, RemoveFromSpace, cluster
    <3>4. ((p \in placed') <=> (p \in placed)) /\ instances'[p] = instances[p]
      BY <1>1, <2>1, <3>1 DEF TablesOK, WriteDeployment, Scale, RestartDeployment,
            DeleteDeployment, WriteService, WriteInternal, DeleteService, DeleteInternalService,
            SetInstances, RemoveFromSpace, rows
    <3> QED BY <1>7, <3>2, <3>3, <3>4 DEF Kept
  <2>2. CASE UNCHANGED <<placed, instances, deployment, service, internal>>
    BY <1>7, <2>2 DEF Kept
  <2> QED BY <2>1, <2>2
          DEF Step, rows, cluster, CheckSpace, AddSpace, CreateNamespace, CopySecret, CheckPods,
              CountApps, DeleteSpaceRow, DeleteNamespace, SpacesOfApp, DeleteAppRow, ReadApp,
              CheckExistence, GetDeployment
<1> QED BY <1>1, <1>2, <1>7, <1>8, <1>9, PairKept

\* A request that ends before it wrote, or with an error.
LEMMA PairEnds ==
  ASSUME RequestsOK, RequestsOK', NEW p \in Pair, PairOK(p), NEW h \in Handler, req[h].pc # "idle",
         (Refuse(h) /\ req[h].pc \notin Begun) \/ Fail(h), UNCHANGED <<rows, cluster>>
  PROVE  PairOK(p)'
<1>1. Moves(h, NoRequest) /\ answered' = answered
  BY NothingTypes DEF Moves, Refuse, Fail, Idle, ghosts
<1>2. (p \in suspect => p \in suspect') /\ (p[1] \in badspaces => p[1] \in badspaces')
  BY DEF Refuse, Fail, ghosts
<1>3. Kept(p) /\ HomeKept(p)
  BY <1>1 DEF Kept, HomeKept, rows, cluster
<1>4. HandlerOK(h, p)'
  <2>1. req'[h].pc = "idle"
    BY <1>1, NothingTypes DEF Moves, RequestsOK
  <2> QED BY <2>1, IdleOK
<1>5. Rewriting(h, p) \/ Scaling(h, p) => p \in suspect'
  <2>1. ASSUME Rewriting(h, p) \/ Scaling(h, p) PROVE p \in suspect'
    <3>1. req[h].pc \in Begun /\ ~SpaceOp(req[h]) /\ Near(req[h], p)
      BY <2>1, Fields DEF Rewriting, Scaling, Busy, Begun, OpOK, SpaceOp
    <3>2. p \in Touches(req[h])
      BY <3>1, Fields, NearTouches
    <3> QED BY <3>1, <3>2 DEF Fail
  <2> QED BY <2>1
<1> QED BY <1>1, <1>2, <1>3, <1>4, <1>5, PairKept

\* Requests of a pair alone.
LEMMA PairOfNear ==
  ASSUME RequestsOK, NEW p \in Pair, NEW h \in Handler, Busy(h, p), ~SpaceOp(req[h]),
         req[h].op # "dropapp"
  PROVE  p = PairOf(h)
<1>1. p = <<p[1], p[2]>>
  BY DEF Pair
<1> QED BY <1>1 DEF Busy, Near, PairOf

\* Where a deployment is the only request, and its space is not bad, there is a namespace.
LEMMA ReadyToDeploy ==
  ASSUME RequestsOK, NEW p \in Pair, PairOK(p), SpaceOK(p[1]), NEW h \in Handler, Sole(h, p),
         req[h].pc \in {"checks", "deploy", "service", "internal"}, p[1] \notin badspaces
  PROVE  namespaces[p[1]] = "ready"
<1>1. p[1] \in spaces
  BY DEF PairOK, HandlerOK, DeployOK, Home
<1>2. ASSUME NEW g \in Handler, Active(g, p[1]) PROVE FALSE
  <2>1. Busy(g, p) /\ SpaceOp(req[g])
    BY <1>2 DEF Active, Busy, Near
  <2>2. g # h
    BY <2>1, Fields DEF OpOK, SpaceOp
  <2>3. req[g].op = "restart"
    BY <2>1, <2>2 DEF PairOK, Apart
  <2> QED BY <2>1, <2>3 DEF SpaceOp
<1>3. SettledSpace(p[1])
  BY <1>2, SettledHalfway
<1> QED BY <1>1, <1>3 DEF SpaceOK, Agree, Backed

\* Reading.
LEMMA PairRead ==
  ASSUME Parts, Parts', NEW p \in Pair, PairOK(p), NEW h \in Handler, Step(h), Busy(h, p),
         \/ CheckSpace(h) \/ CheckPods(h) \/ CountApps(h) \/ SpacesOfApp(h)
         \/ ReadApp(h) \/ CheckExistence(h) \/ GetDeployment(h)
  PROVE  PairOK(p)'
<1>1. /\ RequestsOK /\ ClusterOK /\ TablesOK /\ GhostsOK /\ RequestsOK'
      /\ OpOK(req[h]) /\ req[h] \in Request /\ req[h].pc # "idle"
  BY Fields DEF Parts, Busy
<1>2. UNCHANGED <<rows, cluster>> /\ req[h].pc \notin Begun
  BY DEF CheckSpace, CheckPods, CountApps, SpacesOfApp, ReadApp, CheckExistence, GetDeployment, Begun
<1>3. CASE Refuse(h)
  BY <1>1, <1>2, <1>3, PairEnds
<1>4. ~Rewriting(h, p) /\ ~Scaling(h, p)
  BY <1>2 DEF Rewriting, Scaling, Begun
<1>5. CASE ~Refuse(h)
  <2>1. UNCHANGED ghosts /\ \E r \in Request : Moves(h, r) /\ Follows(req[h].pc, r.pc)
    <3>1. ~Fail(h) /\ ~Finish(h)
      BY <1>1, <1>5, NothingTypes DEF CheckSpace, CheckPods, CountApps, SpacesOfApp, ReadApp,
         CheckExistence, GetDeployment, To, Refuse, Fail, Finish, Idle, RequestsOK, Request
    <3> QED BY <1>1, <1>5, <3>1, StepMoves
  <2>2. PICK r \in Request : Moves(h, r) /\ Follows(req[h].pc, r.pc)
    BY <2>1
  <2>3. req'[h] = r /\ UNCHANGED <<rows, cluster, suspect, badspaces, answered>>
    BY <1>1, <1>2, <2>1, <2>2 DEF Moves, RequestsOK, ghosts
  <2>4. Sole(h, p)' => Sole(h, p)
    BY <2>2, <2>3 DEF Sole, Busy, Moves, Near, SpaceOp
  <2>5. ASSUME r.pc \in {"addspace", "count", "delspace", "delapp"} PROVE HandlerOK(h, p)'
    <3>1. VacantOK(h, p)'
      <4>1. p = <<p[1], p[2]>> /\ p[1] \in Space /\ p[2] \in App
        BY DEF Pair
      <4>2. CASE r.pc = "delspace"
        <5>1. CountApps(h) /\ req[h].space = p[1]
          BY <1>1, <2>2, <4>2 DEF Follows, Busy, Near, OpOK, CheckSpace, CheckPods, SpacesOfApp,
                                  ReadApp, CheckExistence, GetDeployment
        <5>2. p \notin placed
          BY <1>5, <4>1, <5>1 DEF CountApps
        <5> QED BY <2>3, <5>2 DEF VacantOK, PairOK, HomeOK, Home
      <4>3. CASE r.pc = "delapp"
        <5>1. SpacesOfApp(h) /\ req[h].app = p[2]
          BY <1>1, <2>2, <4>3 DEF Follows, Busy, Near, OpOK, SpaceOp, CheckSpace, CheckPods, CountApps,
                                  ReadApp, CheckExistence, GetDeployment
        <5>2. p \notin placed
          BY <1>5, <4>1, <5>1 DEF SpacesOfApp
        <5> QED BY <2>3, <5>2 DEF VacantOK, PairOK, HomeOK, Home
      <4>4. CASE r.pc \in {"addspace", "count"}
        BY <2>3, <4>4 DEF VacantOK
      <4> QED BY <2>5, <4>2, <4>3, <4>4
    <3> QED BY <2>3, <2>5, <3>1 DEF HandlerOK, ScaleOK, RestartOK, DeployOK, RemoveOK, Scaling
  <2>6. ASSUME r.pc = "checks" PROVE HandlerOK(h, p)'
    <3>1. ReadApp(h) /\ p = PairOf(h)
      BY <1>1, <2>2, <2>6, PairOfNear DEF Follows, OpOK, SpaceOp, CheckSpace, CheckPods, CountApps, SpacesOfApp,
                              CheckExistence, GetDeployment
    <3>2. /\ p \in placed /\ req[h].app \in apps /\ req[h].space \in spaces
          /\ req' = [req EXCEPT ![h].pc = "checks", ![h].instances = instances[p]]
      BY <1>5, <3>1 DEF ReadApp
    <3>3. req'[h].instances = instances[p] /\ Home(p)
      BY <1>1, <3>1, <3>2 DEF RequestsOK, Request, Home, PairOf
    <3> QED BY <2>3, <2>6, <3>3 DEF HandlerOK, VacantOK, ScaleOK, RestartOK, DeployOK, RemoveOK, Scaling,
                                   Home, SeenOK, WrittenOK, rows
  <2>7. ASSUME r.pc = "deploy" PROVE HandlerOK(h, p)'
    <3>1. CheckExistence(h) /\ p = PairOf(h) /\ req[h].pc = "checks"
      BY <1>1, <2>2, <2>7, PairOfNear DEF Follows, OpOK, SpaceOp, CheckSpace, CheckPods, CountApps, SpacesOfApp,
                              ReadApp, GetDeployment
    <3>2. /\ ("deployment" \in req'[h].seen) <=> (deployment[p].release # NoRelease)
          /\ ("service" \in req'[h].seen) <=> (service[p] # NoPort)
          /\ ("internal" \in req'[h].seen) <=> (p \in internal)
          /\ req'[h].instances = req[h].instances
      BY <1>1, <3>1 DEF CheckExistence, RequestsOK, Request
    <3>3. SeenOK(h, p)'
      BY <2>3, <3>2 DEF SeenOK, cluster
    <3>4. WrittenOK(h, p)'
      BY <2>3, <2>7 DEF WrittenOK
    <3>5. Sole(h, p)' => Home(p)' /\ instances'[p] = req'[h].instances
      BY <2>3, <2>4, <3>1, <3>2 DEF PairOK, HandlerOK, DeployOK, Home, rows
    <3> QED BY <2>3, <2>7, <3>3, <3>4, <3>5
            DEF HandlerOK, VacantOK, ScaleOK, RestartOK, DeployOK, RemoveOK, Scaling
  <2>8. ASSUME r.pc = "put" PROVE HandlerOK(h, p)'
    <3>1. GetDeployment(h) /\ p = PairOf(h) /\ req[h].op = "restart"
      BY <1>1, <2>2, <2>8, PairOfNear DEF Follows, OpOK, SpaceOp, CheckSpace, CheckPods, CountApps, SpacesOfApp,
                              ReadApp, CheckExistence
    <3>2. req'[h].copy = deployment[p]
      BY <1>1, <1>5, <3>1 DEF GetDeployment, RequestsOK, Request
    <3>3. ASSUME p \notin suspect, NEW g \in Handler PROVE ~Rewriting(g, p) /\ ~Scaling(g, p)
      <4>1. Busy(g, p) => req[g].op = "restart"
        BY <3>1, <3>3 DEF PairOK, Apart, Sole
      <4> QED BY <1>1, <4>1 DEF Rewriting, Scaling, RequestsOK, OpOK
    <3>4. RestartOK(h, p)'
      BY <2>3, <3>2, <3>3 DEF RestartOK, PairOK, RunsOK, rows
    <3> QED BY <2>3, <2>8, <3>4 DEF HandlerOK, VacantOK, ScaleOK, DeployOK, RemoveOK, Scaling
  <2>9. HandlerOK(h, p)'
    BY <1>2, <2>2, <2>5, <2>6, <2>7, <2>8 DEF Follows, Begun, CheckSpace, CheckPods, CountApps, SpacesOfApp,
       ReadApp, CheckExistence, GetDeployment
  <2>10. Kept(p) /\ HomeKept(p)
    BY <2>3 DEF Kept, HomeKept, rows, cluster
  <2> QED BY <1>1, <1>4, <2>2, <2>3, <2>9, <2>10, PairKept
<1> QED BY <1>3, <1>5

\* The rest of a step of a request that writes, and does not restart: what holds of the
\* pair, and of the request itself.
LEMMA PairWrites ==
  ASSUME RequestsOK, RequestsOK', NEW p \in Pair, PairOK(p), NEW h \in Handler, NEW r, Moves(h, r),
         Busy(h, p), req[h].op # "restart",
         p \in suspect => p \in suspect' \/ req[h].alone,
         HomeOK(p)', NoneOK(p)', CleanOK(p)', RunsOK(p)', HandlerOK(h, p)'
  PROVE  PairOK(p)'
BY PairAlone DEF PairOK

\* Statements and requests on a space, and on the row of an app.
LEMMA PairOfSpace ==
  ASSUME Parts, Parts', NEW p \in Pair, PairOK(p), NEW h \in Handler, Step(h), Busy(h, p),
         \/ AddSpace(h) \/ CreateNamespace(h) \/ CopySecret(h)
         \/ DeleteSpaceRow(h) \/ DeleteNamespace(h) \/ DeleteAppRow(h)
  PROVE  PairOK(p)'
<1>1. /\ RequestsOK /\ ClusterOK /\ TablesOK /\ GhostsOK /\ RequestsOK'
      /\ OpOK(req[h]) /\ req[h] \in Request /\ req[h].pc # "idle"
  BY Fields DEF Parts, Busy
<1>2. CASE Fail(h) /\ UNCHANGED <<rows, cluster>>
  BY <1>1, <1>2, PairEnds
<1>3. CASE ~(Fail(h) /\ UNCHANGED <<rows, cluster>>)
  <2>1. PICK r : Moves(h, r)
    BY <1>1, StepMoves
  <2>2. req'[h] = r
    BY <1>1, <2>1 DEF Moves, RequestsOK
  <2>3. /\ req[h].op \in {"createspace", "deletespace", "dropapp"}
        /\ ~Rewriting(h, p) /\ ~Scaling(h, p)
        /\ req[h].op # "dropapp" => req[h].space = p[1]
    BY <1>1 DEF AddSpace, CreateNamespace, CopySecret, DeleteSpaceRow, DeleteNamespace, DeleteAppRow,
                OpOK, SpaceOp, Near, Busy, Rewriting, Scaling
  <2>4. suspect' = suspect /\ answered' = answered
    <3>1. CASE Finish(h)
      BY <2>3, <3>1 DEF Finish
    <3>2. CASE Fail(h)
      BY <2>3, <1>1, <3>2 DEF Fail, AddSpace, CreateNamespace, CopySecret, DeleteSpaceRow,
                              DeleteNamespace, DeleteAppRow, OpOK, SpaceOp, Begun
    <3>3. CASE Refuse(h) \/ UNCHANGED ghosts
      BY <3>3 DEF Refuse, ghosts
    <3> QED BY <1>1, <3>1, <3>2, <3>3, StepMoves
  <2>5. UNCHANGED <<placed, instances, deployment, service, internal>>
    BY DEF AddSpace, CreateNamespace, CopySecret, DeleteSpaceRow, DeleteNamespace, DeleteAppRow,
           rows, cluster
  <2>6. p \notin suspect => \A g \in Handler : ~Rewriting(g, p) /\ ~Scaling(g, p)
    <3>1. ASSUME p \notin suspect, NEW g \in Handler, Busy(g, p) PROVE g = h
      BY <2>3, <3>1 DEF PairOK, Apart, Sole
    <3> QED BY <2>3, <3>1 DEF Rewriting, Scaling
  <2>7. ASSUME r.pc \in {"idle", "namespace", "secret", "delnamespace"},
               r.pc = "namespace" => p \in suspect \/ answered[p] = NoRelease,
               r.pc \in {"secret", "delnamespace"} => VacantOK(h, p) /\ req[h].pc \in {"namespace", "delspace"},
               HomeOK(p)', namespaces'[p[1]] = "none" => namespaces[p[1]] = "none",
               namespaces'[p[1]] # "terminating" => namespaces[p[1]] # "terminating",
               p[1] \in badspaces => p[1] \in badspaces' \/ p \in suspect \/ answered[p] = NoRelease
        PROVE  PairOK(p)'
    <3>1. NoneOK(p)' /\ CleanOK(p)'
      BY <2>4, <2>5, <2>6, <2>7 DEF PairOK, NoneOK, CleanOK, Bare
    <3>2. RunsOK(p)'
      <4>1. ASSUME p \notin suspect, p[1] \notin badspaces', answered[p] # NoRelease
            PROVE  /\ deployment[p].release = answered[p] /\ Served(p, answered[p])
                   /\ deployment[p].replicas = instances[p]
        BY <2>6, <2>7, <4>1 DEF PairOK, RunsOK
      <4> QED BY <2>4, <2>5, <4>1 DEF RunsOK, Served
    <3>3. VacantOK(h, p)'
      BY <1>1, <2>2, <2>4, <2>7 DEF VacantOK
    <3>4. HandlerOK(h, p)'
      BY <2>2, <2>7, <3>3 DEF HandlerOK, ScaleOK, RestartOK, DeployOK, RemoveOK, Scaling
    <3> QED BY <1>1, <2>1, <2>3, <2>4, <2>7, <3>1, <3>2, <3>4, PairWrites
  <2>8. VacantOK(h, p)
    BY DEF PairOK, HandlerOK
  <2>9. r.pc = IF AddSpace(h) THEN "namespace" ELSE IF CreateNamespace(h) THEN "secret"
               ELSE IF DeleteSpaceRow(h) THEN "delnamespace" ELSE "idle"
    <3>1. Finish(h) \/ Fail(h) => r.pc = "idle"
      BY <1>1, <2>2, NothingTypes DEF Finish, Fail, Idle, RequestsOK
    <3>2. ASSUME NEW pc, To(h, pc) PROVE r.pc = pc
      BY <1>1, <2>2, <3>2 DEF To, RequestsOK, Request
    <3>3. CASE AddSpace(h)
      <4>1. req[h].space \notin spaces
        BY <1>3, <3>3 DEF AddSpace, rows
      <4>2. To(h, "namespace")
        BY <3>3, <4>1 DEF AddSpace
      <4> QED BY <3>2, <3>3, <4>2
    <3>4. CASE CreateNamespace(h)
      <4>1. To(h, "secret") /\ ~AddSpace(h)
        BY <1>3, <3>4 DEF CreateNamespace, AddSpace, rows, cluster
      <4> QED BY <3>2, <3>4, <4>1
    <3>5. CASE DeleteSpaceRow(h)
      <4>1. To(h, "delnamespace") /\ ~AddSpace(h) /\ ~CreateNamespace(h)
        BY <3>5 DEF DeleteSpaceRow, AddSpace, CreateNamespace
      <4> QED BY <3>2, <3>5, <4>1
    <3>6. CASE CopySecret(h) \/ DeleteNamespace(h) \/ DeleteAppRow(h)
      <4>1. /\ Finish(h) \/ Fail(h)
            /\ ~AddSpace(h) /\ ~CreateNamespace(h) /\ ~DeleteSpaceRow(h)
        BY <3>6 DEF CopySecret, DeleteNamespace, DeleteAppRow, AddSpace, CreateNamespace, DeleteSpaceRow
      <4> QED BY <3>1, <4>1
    <3> QED BY <3>3, <3>4, <3>5, <3>6
  <2>10. CASE AddSpace(h)
    <3>1. /\ req[h].space \notin spaces /\ spaces' = spaces \union {p[1]}
          /\ UNCHANGED <<apps, namespaces, badspaces>> /\ req[h].space = p[1]
      BY <1>1, <1>3, <2>3, <2>10 DEF AddSpace, To, OpOK, rows, cluster, ghosts
    <3>2. HomeOK(p)'
      BY <2>4, <2>5, <3>1 DEF PairOK, HomeOK, Home
    <3>3. p \in suspect \/ answered[p] = NoRelease
      BY <3>1 DEF PairOK, HomeOK, Home
    <3> QED BY <2>7, <2>9, <2>10, <3>1, <3>2, <3>3
  <2>11. CASE CreateNamespace(h) \/ CopySecret(h)
    <3>1. /\ namespaces' = [namespaces EXCEPT ![p[1]] = IF CreateNamespace(h) THEN "bare" ELSE "ready"]
          /\ UNCHANGED <<spaces, apps>> /\ req[h].space = p[1] /\ req[h].op = "createspace"
          /\ namespaces[p[1]] # "terminating"
          /\ req[h].pc = IF CreateNamespace(h) THEN "namespace" ELSE "secret"
      BY <1>1, <1>3, <2>3, <2>11 DEF CreateNamespace, CopySecret, OpOK, rows, cluster
    <3>2. namespaces'[p[1]] \in {"bare", "ready"}
      BY <1>1, <3>1 DEF ClusterOK, Pair
    <3>3. badspaces' = badspaces
      BY <1>1, <1>3, <2>11, <3>1 DEF CreateNamespace, CopySecret, To, Finish, Fail, ghosts, rows, cluster
    <3>4. HomeOK(p)'
      BY <2>4, <2>5, <3>1 DEF PairOK, HomeOK, Home
    <3>5. ~AddSpace(h) /\ ~DeleteSpaceRow(h)
      BY <3>1 DEF AddSpace, DeleteSpaceRow
    <3> QED BY <2>7, <2>8, <2>9, <2>11, <3>1, <3>2, <3>3, <3>4, <3>5
  <2>12. CASE DeleteSpaceRow(h) \/ DeleteAppRow(h)
    <3>1. /\ UNCHANGED <<namespaces, badspaces>> /\ req[h].pc \in {"delspace", "delapp"}
          /\ DeleteSpaceRow(h) => req[h].pc = "delspace"
      BY <1>1, <2>12 DEF DeleteSpaceRow, DeleteAppRow, To, Finish, OpOK, ghosts, cluster
    <3>2. p \in suspect \/ answered[p] = NoRelease
      BY <2>8, <3>1 DEF VacantOK
    <3>3. HomeOK(p)'
      BY <2>4, <3>2 DEF HomeOK
    <3>4. ~AddSpace(h) /\ ~CreateNamespace(h)
      BY <3>1 DEF AddSpace, CreateNamespace
    <3> QED BY <2>7, <2>8, <2>9, <2>12, <3>1, <3>2, <3>3, <3>4
  <2>13. CASE DeleteNamespace(h)
    <3>1. /\ namespaces' = [namespaces EXCEPT ![p[1]] = IF @ = "none" THEN @ ELSE "terminating"]
          /\ UNCHANGED <<spaces, apps>> /\ req[h].pc = "delnamespace" /\ req[h].space = p[1]
      BY <1>1, <2>3, <2>13 DEF DeleteNamespace, OpOK, rows
    <3>2. namespaces'[p[1]] = IF namespaces[p[1]] = "none" THEN "none" ELSE "terminating"
      BY <1>1, <3>1 DEF ClusterOK, Pair
    <3>3. p \in suspect \/ answered[p] = NoRelease
      BY <2>8, <3>1 DEF VacantOK
    <3>4. HomeOK(p)'
      BY <2>4, <3>3 DEF HomeOK
    <3>5. ~AddSpace(h) /\ ~CreateNamespace(h) /\ ~DeleteSpaceRow(h)
      BY <3>1 DEF AddSpace, CreateNamespace, DeleteSpaceRow
    <3> QED BY <2>7, <2>9, <3>2, <3>3, <3>4, <3>5
  <2> QED BY <2>10, <2>11, <2>12, <2>13
<1> QED BY <1>2, <1>3

\* Statements and requests on one app in one space.
LEMMA PairFacts ==
  ASSUME Parts, Parts', NEW p \in Pair, PairOK(p), NEW h \in Handler, Step(h), Busy(h, p),
         req[h].op \in {"deploy", "scale", "deleteapp"}
  PROVE  /\ p = PairOf(h) /\ req' = [req EXCEPT ![h] = req'[h]] /\ Moves(h, req'[h])
         /\ p \in suspect => p \in suspect' \/ req[h].alone
         /\ p \notin suspect' => Sole(h, p) /\ \A g \in Handler \ {h} : ~Busy(g, p) /\ ~Busy(g, p)'
         /\ badspaces' = badspaces
         /\ ~Finish(h) => answered' = answered /\ suspect \subseteq suspect'
<1>1. /\ RequestsOK /\ ClusterOK /\ TablesOK /\ GhostsOK /\ RequestsOK'
      /\ OpOK(req[h]) /\ req[h] \in Request /\ req[h].pc # "idle"
  BY Fields DEF Parts, Busy
<1>2. PICK r : Moves(h, r)
  BY <1>1, StepMoves
<1>3. req' = [req EXCEPT ![h] = r] /\ req'[h] = r
  BY <1>1, <1>2 DEF Moves, RequestsOK
<1>4. p = PairOf(h) /\ ~SpaceOp(req[h])
  BY <1>1, PairOfNear DEF SpaceOp
<1>5. /\ badspaces' = badspaces
      /\ ~Finish(h) => answered' = answered /\ suspect \subseteq suspect'
      /\ p \in suspect => p \in suspect' \/ req[h].alone
  <2>1. CASE Finish(h)
    BY <1>4, <2>1 DEF Finish, SpaceOp
  <2>2. CASE ~Finish(h)
    <3>1. Refuse(h) \/ Fail(h) \/ UNCHANGED ghosts
      BY <1>1, <2>2, StepMoves
    <3> QED BY <1>4, <2>2, <3>1 DEF Refuse, Fail, ghosts
  <2> QED BY <2>1, <2>2
<1>6. p \notin suspect' => \A g \in Handler \ {h} : ~Busy(g, p) /\ ~Busy(g, p)'
  BY <1>1, <1>2, <1>5, PairAlone
<1>7. p \notin suspect' => Sole(h, p)
  BY <1>5 DEF Sole
<1> QED BY <1>2, <1>3, <1>4, <1>5, <1>6, <1>7

\* CreateDeployment, UpdateDeployment.
LEMMA PairDeployed ==
  ASSUME Parts, Parts', NEW p \in Pair, PairOK(p), NEW h \in Handler, Step(h), Busy(h, p),
         WriteDeployment(h)
  PROVE  PairOK(p)'
<1>1. /\ RequestsOK /\ ClusterOK /\ TablesOK /\ GhostsOK /\ RequestsOK'
      /\ OpOK(req[h]) /\ req[h] \in Request /\ req[h].pc = "deploy" /\ req[h].op = "deploy"
  BY Fields DEF Parts, WriteDeployment, OpOK
<1>2. CASE Fail(h) /\ UNCHANGED deployment
  <2>1. UNCHANGED <<rows, cluster>>
    BY <1>2 DEF WriteDeployment, rows, cluster
  <2> QED BY <1>1, <1>2, <2>1, PairEnds
<1>3. CASE ~(Fail(h) /\ UNCHANGED deployment)
  <2> DEFINE r == req'[h]
  <2>1. /\ p = PairOf(h) /\ Moves(h, r)
        /\ p \notin suspect' => Sole(h, p) /\ \A g \in Handler \ {h} : ~Busy(g, p)'
        /\ badspaces' = badspaces
    BY <1>1, PairFacts
  <2>2. /\ IF "deployment" \in req[h].seen THEN deployment[p].release # NoRelease
           ELSE deployment[p].release = NoRelease /\ CanCreate(req[h].space)
        /\ deployment' = [deployment EXCEPT
             ![p] = [release |-> req[h].release, replicas |-> req[h].instances]]
        /\ req' = [req EXCEPT ![h].pc = IF PortOf[req[h].release] = NoPort THEN "internal" ELSE "service"]
        /\ UNCHANGED ghosts
        /\ UNCHANGED <<rows, namespaces, service, internal>>
    BY <1>3, <2>1 DEF WriteDeployment, To
  <2>3. /\ r.pc = IF PortOf[req[h].release] = NoPort THEN "internal" ELSE "service"
        /\ r.release = req[h].release /\ r.instances = req[h].instances /\ r.seen = req[h].seen
        /\ r.op = req[h].op /\ r.space = req[h].space /\ r.app = req[h].app /\ r.alone = req[h].alone
    BY <1>1, <2>2 DEF RequestsOK, Request
  <2>4. deployment'[p].release = req[h].release /\ deployment'[p].replicas = req[h].instances
    BY <1>1, <2>2 DEF ClusterOK
  <2>5. Rewriting(h, p)'
    BY <2>3 DEF Rewriting, Busy, Near, SpaceOp
  <2>6. HomeOK(p)' /\ CleanOK(p)' /\ RunsOK(p)'
    BY <2>2, <2>5 DEF PairOK, HomeOK, Home, CleanOK, RunsOK, rows, ghosts
  <2>7. NoneOK(p)'
    <3>1. req[h].space = p[1]
      BY <1>1 DEF Busy, Near
    <3>2. namespaces[p[1]] # "none"
      BY <2>2, <3>1 DEF PairOK, NoneOK, Bare, CanCreate
    <3> QED BY <2>2, <3>2 DEF NoneOK
  <2>8. Sole(h, p)' => Sole(h, p)
    BY <2>2, <2>3 DEF Sole, Busy, Near, SpaceOp, ghosts
  <2>9. DeployOK(h, p)'
    <3>1. ASSUME Sole(h, p)' PROVE Home(p)' /\ instances'[p] = r.instances
      BY <1>1, <2>2, <2>3, <2>8, <3>1 DEF PairOK, HandlerOK, DeployOK, Home, rows
    <3>2. ASSUME Sole(h, p)', p[1] \notin badspaces PROVE SeenOK(h, p)'
      <4>1. SeenOK(h, p)
        BY <1>1, <2>8, <3>2 DEF PairOK, HandlerOK, DeployOK
      <4> QED BY <1>1, <2>2, <2>3, <4>1 DEF SeenOK
    <3>3. WrittenOK(h, p)'
      BY <2>3, <2>4 DEF WrittenOK
    <3> QED BY <2>1, <3>1, <3>2, <3>3 DEF DeployOK
  <2>10. HandlerOK(h, p)'
    BY <2>3, <2>9 DEF HandlerOK, VacantOK, ScaleOK, RestartOK, RemoveOK, Scaling
  <2>11. p \in suspect => p \in suspect'
    BY <2>2 DEF ghosts
  <2> HIDE DEF r
  <2> QED BY <1>1, <2>1, <2>6, <2>7, <2>10, <2>11, PairWrites
<1> QED BY <1>2, <1>3

\* The service.
LEMMA PairService ==
  ASSUME Parts, Parts', NEW p \in Pair, PairOK(p), SpaceOK(p[1]), NEW h \in Handler, Step(h), Busy(h, p),
         WriteService(h)
  PROVE  PairOK(p)'
<1>1. /\ RequestsOK /\ ClusterOK /\ TablesOK /\ GhostsOK /\ RequestsOK'
      /\ OpOK(req[h]) /\ req[h] \in Request /\ req[h].pc = "service" /\ req[h].op = "deploy"
  BY Fields DEF Parts, WriteService, OpOK
<1>2. CASE Fail(h) /\ UNCHANGED service
  <2>1. UNCHANGED <<rows, cluster>>
    BY <1>2 DEF WriteService, rows, cluster
  <2> QED BY <1>1, <1>2, <2>1, PairEnds
<1>3. CASE ~(Fail(h) /\ UNCHANGED service)
  <2> DEFINE r == req'[h]
  <2>1. /\ p = PairOf(h) /\ Moves(h, r) /\ badspaces' = badspaces
    BY <1>1, PairFacts
  <2>2. /\ \/ /\ "service" \notin req[h].seen
              /\ service' = IF service[p] = NoPort /\ CanCreate(req[h].space)
                            THEN [service EXCEPT ![p] = PortOf[req[h].release]] ELSE service
           \/ /\ "service" \in req[h].seen /\ service[p] # NoPort
              /\ service' = [service EXCEPT ![p] = PortOf[req[h].release]]
        /\ req' = [req EXCEPT ![h].pc = "internal"] /\ UNCHANGED ghosts
        /\ UNCHANGED <<rows, namespaces, deployment, internal>>
    BY <1>3, <2>1 DEF WriteService, To
  <2>3. /\ r.pc = "internal"
        /\ r.release = req[h].release /\ r.instances = req[h].instances /\ r.seen = req[h].seen
        /\ r.op = req[h].op /\ r.space = req[h].space /\ r.app = req[h].app /\ r.alone = req[h].alone
    BY <1>1, <2>2 DEF RequestsOK, Request
  <2>4. Rewriting(h, p)'
    BY <2>3 DEF Rewriting, Busy, Near, SpaceOp
  <2>5. HomeOK(p)' /\ CleanOK(p)' /\ RunsOK(p)'
    BY <2>2, <2>4 DEF PairOK, HomeOK, Home, CleanOK, RunsOK, rows, ghosts
  <2>6. NoneOK(p)'
    <3>1. req[h].space = p[1]
      BY <1>1 DEF Busy, Near
    <3>2. ASSUME namespaces[p[1]] = "none" PROVE Bare(p)'
      <4>1. service' = service /\ Bare(p)
        BY <2>2, <3>1, <3>2 DEF PairOK, NoneOK, Bare, CanCreate
      <4> QED BY <2>2, <4>1 DEF Bare
    <3> QED BY <2>2, <3>2 DEF NoneOK
  <2>7. Sole(h, p)' => Sole(h, p)
    BY <2>2, <2>3 DEF Sole, Busy, Near, SpaceOp, ghosts
  <2>8. DeployOK(h, p)'
    <3>1. ASSUME Sole(h, p)' PROVE Home(p)' /\ instances'[p] = r.instances
      BY <1>1, <2>2, <2>3, <2>7, <3>1 DEF PairOK, HandlerOK, DeployOK, Home, rows
    <3>2. ASSUME Sole(h, p)', p[1] \notin badspaces PROVE SeenOK(h, p)' /\ WrittenOK(h, p)'
      <4>1. SeenOK(h, p) /\ WrittenOK(h, p)
        BY <1>1, <2>7, <3>2 DEF PairOK, HandlerOK, DeployOK
      <4>2. namespaces[p[1]] = "ready" /\ req[h].space = p[1]
        BY <1>1, <2>7, <3>2, ReadyToDeploy DEF Busy, Near
      <4>3. service'[p] = PortOf[req[h].release]
        BY <1>1, <2>2, <4>1, <4>2 DEF SeenOK, CanCreate, ClusterOK
      <4>4. SeenOK(h, p)'
        BY <1>1, <2>2, <2>3, <4>1 DEF SeenOK
      <4>5. WrittenOK(h, p)'
        BY <1>1, <2>2, <2>3, <4>1, <4>3 DEF WrittenOK
      <4> QED BY <4>4, <4>5
    <3> QED BY <2>1, <3>1, <3>2 DEF DeployOK
  <2>9. HandlerOK(h, p)'
    BY <2>3, <2>8 DEF HandlerOK, VacantOK, ScaleOK, RestartOK, RemoveOK, Scaling
  <2>10. p \in suspect => p \in suspect'
    BY <2>2 DEF ghosts
  <2> HIDE DEF r
  <2> QED BY <1>1, <2>1, <2>5, <2>6, <2>9, <2>10, PairWrites
<1> QED BY <1>2, <1>3

\* The internal service, and the answer.
LEMMA PairInternal ==
  ASSUME Parts, Parts', NEW p \in Pair, PairOK(p), SpaceOK(p[1]), NEW h \in Handler, Step(h), Busy(h, p),
         WriteInternal(h)
  PROVE  PairOK(p)'
<1>1. /\ RequestsOK /\ ClusterOK /\ TablesOK /\ GhostsOK /\ RequestsOK'
      /\ OpOK(req[h]) /\ req[h] \in Request /\ req[h].pc = "internal" /\ req[h].op = "deploy"
      /\ req[h].release \in Release
  BY Fields DEF Parts, WriteInternal, OpOK
<1>2. CASE Fail(h) /\ UNCHANGED internal
  <2>1. UNCHANGED <<rows, cluster>>
    BY <1>2 DEF WriteInternal, rows, cluster
  <2> QED BY <1>1, <1>2, <2>1, PairEnds
<1>3. CASE ~(Fail(h) /\ UNCHANGED internal)
  <2>1. /\ p = PairOf(h) /\ Moves(h, req'[h]) /\ badspaces' = badspaces
        /\ p \in suspect => p \in suspect' \/ req[h].alone
        /\ p \notin suspect' => Sole(h, p) /\ \A g \in Handler \ {h} : ~Busy(g, p)'
    BY <1>1, PairFacts
  <2>2. /\ Finish(h) /\ UNCHANGED <<rows, namespaces, deployment, service>>
        /\ internal' = IF req[h].release \in WithInner
                       THEN IF "internal" \notin req[h].seen
                            THEN IF CanCreate(req[h].space) THEN internal \union {p} ELSE internal
                            ELSE internal
                       ELSE IF "internal" \in req[h].seen THEN internal \ {p} ELSE internal
        /\ req[h].release \in WithInner /\ "internal" \in req[h].seen => p \in internal
    BY <1>3, <2>1 DEF WriteInternal
  <2>3. req'[h].pc = "idle" /\ answered'[p] = req[h].release
    BY <1>1, <2>1, <2>2, NothingTypes DEF Finish, Idle, RequestsOK, GhostsOK
  <2>4. HandlerOK(h, p)'
    BY <2>3, IdleOK
  <2>5. answered'[p] # NoRelease
    BY <1>1, <2>3, ReleaseAssumption
  <2>6. ASSUME p \notin suspect' PROVE Home(p)' /\ instances'[p] = req[h].instances
    BY <1>1, <2>1, <2>2, <2>6 DEF PairOK, HandlerOK, DeployOK, Home, rows
  <2>7. HomeOK(p)' /\ CleanOK(p)'
    BY <2>5, <2>6 DEF HomeOK, CleanOK
  <2>8. NoneOK(p)'
    <3>1. req[h].space = p[1]
      BY <1>1 DEF Busy, Near
    <3>2. ASSUME namespaces[p[1]] = "none" PROVE Bare(p)'
      <4>1. Bare(p)
        BY <3>2 DEF PairOK, NoneOK
      <4>2. p \notin internal'
        BY <2>2, <3>1, <3>2, <4>1 DEF Bare, CanCreate
      <4> QED BY <2>2, <4>1, <4>2 DEF Bare
    <3> QED BY <2>2, <3>2 DEF NoneOK
  <2>9. RunsOK(p)'
    <3>1. ASSUME p \notin suspect', p[1] \notin badspaces
          PROVE  /\ deployment'[p].release = answered'[p] /\ Served(p, answered[p])'
                 /\ deployment'[p].replicas = instances'[p]
      <4>1. SeenOK(h, p) /\ WrittenOK(h, p)
        BY <1>1, <2>1, <3>1 DEF PairOK, HandlerOK, DeployOK
      <4>2. namespaces[p[1]] = "ready" /\ req[h].space = p[1]
        BY <1>1, <2>1, <3>1, ReadyToDeploy DEF Busy, Near
      <4>3. (p \in internal') <=> (req[h].release \in WithInner)
        BY <1>1, <2>2, <4>1, <4>2 DEF SeenOK, CanCreate
      <4>4. PortOf[req[h].release] # NoPort => service'[p] = PortOf[req[h].release]
        BY <1>1, <2>2, <4>1 DEF WrittenOK
      <4>5. Served(p, answered[p])'
        BY <2>3, <4>3, <4>4 DEF Served
      <4>6. deployment'[p].release = req[h].release /\ deployment'[p].replicas = req[h].instances
        BY <1>1, <2>2, <4>1 DEF WrittenOK
      <4> QED BY <2>3, <2>6, <3>1, <4>5, <4>6
    <3> QED BY <2>1, <3>1 DEF RunsOK
  <2> QED BY <1>1, <2>1, <2>4, <2>7, <2>8, <2>9, PairWrites
<1> QED BY <1>2, <1>3

\* The number of instances, in the row ...
LEMMA PairCounted ==
  ASSUME Parts, Parts', NEW p \in Pair, PairOK(p), NEW h \in Handler, Step(h), Busy(h, p),
         SetInstances(h)
  PROVE  PairOK(p)'
<1>1. /\ RequestsOK /\ ClusterOK /\ TablesOK /\ GhostsOK /\ RequestsOK'
      /\ OpOK(req[h]) /\ req[h] \in Request /\ req[h].pc = "setinstances" /\ req[h].op = "scale"
  BY Fields DEF Parts, SetInstances, OpOK
<1> DEFINE r == req'[h]
<1>2. /\ p = PairOf(h) /\ Moves(h, r) /\ badspaces' = badspaces
      /\ p \notin suspect' => \A g \in Handler \ {h} : ~Busy(g, p)
  BY <1>1, PairFacts
<1>3. /\ instances' = IF p \in placed THEN [instances EXCEPT ![p] = req[h].instances] ELSE instances
      /\ req' = [req EXCEPT ![h].pc = "scale"] /\ UNCHANGED ghosts
      /\ UNCHANGED <<spaces, apps, placed, cluster>>
  BY <1>2 DEF SetInstances, To
<1>4. /\ r.pc = "scale" /\ r.instances = req[h].instances
      /\ r.op = req[h].op /\ r.space = req[h].space /\ r.app = req[h].app
  BY <1>1, <1>3 DEF RequestsOK, Request
<1>5. Scaling(h, p)'
  BY <1>4 DEF Scaling, Busy, Near, SpaceOp
<1>6. ~Rewriting(h, p)
  BY <1>1 DEF Rewriting
<1>7. p \notin suspect' => \A g \in Handler : ~Rewriting(g, p)
  BY <1>2, <1>6 DEF Rewriting
<1>8. HomeOK(p)' /\ NoneOK(p)'
  BY <1>3 DEF PairOK, HomeOK, Home, NoneOK, Bare, cluster, ghosts
<1>9. CleanOK(p)'
  BY <1>3, <1>7 DEF PairOK, CleanOK, Bare, cluster, ghosts
<1>10. RunsOK(p)'
  BY <1>3, <1>5, <1>7 DEF PairOK, RunsOK, Served, cluster, ghosts
<1>11. ScaleOK(h, p)'
  <2>1. ASSUME p \notin suspect, answered[p] # NoRelease PROVE instances'[p] = req[h].instances
    <3>1. p \in placed
      BY <2>1 DEF PairOK, HomeOK, Home
    <3> QED BY <1>1, <1>3, <3>1 DEF TablesOK
  <2> QED BY <1>3, <1>4, <2>1 DEF ScaleOK, ghosts
<1>12. HandlerOK(h, p)'
  BY <1>4, <1>11 DEF HandlerOK, VacantOK, RestartOK, DeployOK, RemoveOK
<1>13. p \in suspect => p \in suspect'
  BY <1>3 DEF ghosts
<1> HIDE DEF r
<1> QED BY <1>1, <1>2, <1>8, <1>9, <1>10, <1>12, <1>13, PairWrites

\* ... and then in the deployment.
LEMMA PairScaled ==
  ASSUME Parts, Parts', NEW p \in Pair, PairOK(p), NEW h \in Handler, Step(h), Busy(h, p),
         Scale(h)
  PROVE  PairOK(p)'
<1>1. /\ RequestsOK /\ ClusterOK /\ TablesOK /\ GhostsOK /\ RequestsOK'
      /\ OpOK(req[h]) /\ req[h] \in Request /\ req[h].pc = "scale" /\ req[h].op = "scale"
  BY Fields DEF Parts, Scale, OpOK
<1>2. /\ p = PairOf(h) /\ Moves(h, req'[h]) /\ badspaces' = badspaces
      /\ p \notin suspect' => \A g \in Handler \ {h} : ~Busy(g, p)
  BY <1>1, PairFacts
<1>3. /\ deployment' = IF deployment[p].release = NoRelease THEN deployment
                       ELSE [deployment EXCEPT ![p].replicas = req[h].instances]
      /\ Finish(h) /\ UNCHANGED <<rows, namespaces, service, internal>>
  BY <1>2 DEF Scale
<1>4. UNCHANGED <<suspect, answered>> /\ req'[h].pc = "idle"
  BY <1>1, <1>3, NothingTypes DEF Finish, Idle, RequestsOK
<1>5. deployment[p] \in Deployment
  BY <1>1 DEF ClusterOK
<1>6. deployment'[p].release = deployment[p].release
  BY <1>1, <1>3, <1>5 DEF ClusterOK, Deployment
<1>7. deployment[p].release # NoRelease => deployment'[p].replicas = req[h].instances
  BY <1>1, <1>3, <1>5 DEF ClusterOK, Deployment
<1>8. Busy(h, p) /\ Scaling(h, p) /\ ~Rewriting(h, p)
  BY <1>1 DEF Scaling, Rewriting
<1>9. p \notin suspect' => \A g \in Handler : ~Rewriting(g, p)
  BY <1>2, <1>8 DEF Rewriting
<1>10. HomeOK(p)' /\ NoneOK(p)'
  BY <1>3, <1>4, <1>6 DEF PairOK, HomeOK, Home, NoneOK, Bare, rows
<1>11. CleanOK(p)'
  BY <1>3, <1>4, <1>6, <1>9 DEF PairOK, CleanOK, Bare
<1>12. RunsOK(p)'
  <2>1. ASSUME p \notin suspect, p[1] \notin badspaces, answered[p] # NoRelease
        PROVE  /\ deployment'[p].release = answered[p] /\ Served(p, answered[p])
               /\ deployment'[p].replicas = instances[p]
    <3>1. deployment[p].release = answered[p] /\ Served(p, answered[p])
      BY <1>4, <1>9, <2>1 DEF PairOK, RunsOK
    <3>2. instances[p] = req[h].instances
      BY <1>8, <2>1 DEF PairOK, HandlerOK, ScaleOK
    <3> QED BY <1>6, <1>7, <2>1, <3>1, <3>2
  <2> QED BY <1>2, <1>3, <1>4, <2>1 DEF RunsOK, Served, rows
<1>13. HandlerOK(h, p)'
  BY <1>4, IdleOK
<1> QED BY <1>1, <1>2, <1>4, <1>10, <1>11, <1>12, <1>13, PairWrites

\* The removal of an app from a space, up to its row ...
LEMMA PairStripped ==
  ASSUME Parts, Parts', NEW p \in Pair, PairOK(p), NEW h \in Handler, Step(h), Busy(h, p),
         DeleteService(h) \/ DeleteInternalService(h) \/ DeleteDeployment(h)
  PROVE  PairOK(p)'
<1>1. /\ RequestsOK /\ ClusterOK /\ TablesOK /\ GhostsOK /\ RequestsOK'
      /\ OpOK(req[h]) /\ req[h] \in Request /\ req[h].op = "deleteapp"
  BY Fields DEF Parts, DeleteService, DeleteInternalService, DeleteDeployment, OpOK
<1> DEFINE r == req'[h]
<1>2. /\ p = PairOf(h) /\ Moves(h, r) /\ badspaces' = badspaces
  BY <1>1, PairFacts
<1>3. PICK pc \in {"delinternal", "deldeployment", "unplace"} :
        /\ req' = [req EXCEPT ![h].pc = pc] /\ UNCHANGED ghosts /\ UNCHANGED <<rows, namespaces>>
        /\ req[h].pc = CASE pc = "delinternal" -> "delservice" [] pc = "deldeployment" -> "delinternal"
                         [] pc = "unplace" -> "deldeployment"
        /\ service' = IF pc = "delinternal" THEN [service EXCEPT ![p] = NoPort] ELSE service
        /\ internal' = IF pc = "deldeployment" THEN internal \ {p} ELSE internal
        /\ deployment' = IF pc = "unplace" THEN [deployment EXCEPT ![p] = NoDeployment] ELSE deployment
  <2>1. CASE DeleteService(h)
    BY <1>2, <2>1 DEF DeleteService, To
  <2>2. CASE DeleteInternalService(h)
    BY <1>2, <2>2 DEF DeleteInternalService, To
  <2>3. CASE DeleteDeployment(h)
    BY <1>2, <2>3 DEF DeleteDeployment, To
  <2> QED BY <2>1, <2>2, <2>3
<1>4. /\ r.pc = pc /\ r.alone = req[h].alone
      /\ r.op = req[h].op /\ r.space = req[h].space /\ r.app = req[h].app
  BY <1>1, <1>3 DEF RequestsOK, Request
<1>5. /\ service'[p] = IF pc = "delinternal" THEN NoPort ELSE service[p]
      /\ deployment'[p] = IF pc = "unplace" THEN NoDeployment ELSE deployment[p]
      /\ p \in internal' => p \in internal /\ pc # "deldeployment"
  BY <1>1, <1>3 DEF ClusterOK
<1>6. Rewriting(h, p)'
  BY <1>4 DEF Rewriting, Busy, Near, SpaceOp
<1>7. HomeOK(p)' /\ CleanOK(p)' /\ RunsOK(p)'
  BY <1>3, <1>6 DEF PairOK, HomeOK, Home, CleanOK, RunsOK, rows, ghosts
<1>8. NoneOK(p)'
  BY <1>3, <1>5, NothingTypes DEF PairOK, NoneOK, Bare
<1>9. Sole(h, p)' => Sole(h, p)
  BY <1>3, <1>4 DEF Sole, Busy, Near, SpaceOp, ghosts
<1>10. RemoveOK(h, p)'
  <2>1. ASSUME Sole(h, p), pc # "delinternal"
        PROVE  service[p] = NoPort /\ (pc = "unplace" => p \notin internal)
    BY <1>3, <2>1 DEF PairOK, HandlerOK, RemoveOK
  <2> QED BY <1>4, <1>5, <1>9, <2>1, NothingTypes DEF RemoveOK
<1>11. HandlerOK(h, p)'
  BY <1>4, <1>10 DEF HandlerOK, VacantOK, ScaleOK, RestartOK, DeployOK, Scaling
<1>12. p \in suspect => p \in suspect'
  BY <1>3 DEF ghosts
<1> HIDE DEF r
<1> QED BY <1>1, <1>2, <1>7, <1>8, <1>11, <1>12, PairWrites

\* ... with which it ends.
LEMMA PairRemoved ==
  ASSUME Parts, Parts', NEW p \in Pair, PairOK(p), NEW h \in Handler, Step(h), Busy(h, p),
         RemoveFromSpace(h)
  PROVE  PairOK(p)'
<1>1. /\ RequestsOK /\ ClusterOK /\ TablesOK /\ GhostsOK /\ RequestsOK'
      /\ OpOK(req[h]) /\ req[h] \in Request /\ req[h].pc = "unplace" /\ req[h].op = "deleteapp"
  BY Fields DEF Parts, RemoveFromSpace, OpOK
<1>2. /\ p = PairOf(h) /\ Moves(h, req'[h])
      /\ p \in suspect => p \in suspect' \/ req[h].alone
      /\ p \notin suspect' => Sole(h, p)
  BY <1>1, PairFacts
<1>3. Finish(h) /\ UNCHANGED cluster
  BY DEF RemoveFromSpace
<1>4. answered'[p] = NoRelease /\ req'[h].pc = "idle"
  BY <1>1, <1>2, <1>3, NothingTypes DEF Finish, Idle, RequestsOK, GhostsOK
<1>5. p \notin suspect' => Bare(p)
  BY <1>1, <1>2 DEF PairOK, HandlerOK, RemoveOK, Bare
<1>6. HomeOK(p)' /\ RunsOK(p)'
  BY <1>4 DEF HomeOK, RunsOK
<1>7. CleanOK(p)' /\ NoneOK(p)'
  BY <1>3, <1>5 DEF PairOK, CleanOK, NoneOK, Bare, cluster
<1>8. HandlerOK(h, p)'
  BY <1>4, IdleOK
<1> QED BY <1>1, <1>2, <1>6, <1>7, <1>8, PairWrites

\* A restart puts back what it got.  Others may be restarting, too.
LEMMA PairRestarted ==
  ASSUME Parts, Parts', NEW p \in Pair, PairOK(p), NEW h \in Handler, Step(h), Busy(h, p),
         RestartDeployment(h)
  PROVE  PairOK(p)'
<1>1. /\ RequestsOK /\ ClusterOK /\ TablesOK /\ GhostsOK /\ RequestsOK'
      /\ OpOK(req[h]) /\ req[h] \in Request /\ req[h].pc = "put" /\ req[h].op = "restart"
  BY Fields DEF Parts, RestartDeployment, OpOK
<1>2. p = PairOf(h)
  BY <1>1, PairOfNear DEF SpaceOp
<1>3. /\ deployment' = IF deployment[p].release = NoRelease THEN deployment
                       ELSE [deployment EXCEPT ![p] = req[h].copy]
      /\ Finish(h) /\ UNCHANGED <<rows, namespaces, service, internal>>
  BY <1>2 DEF RestartDeployment
<1>4. UNCHANGED ghosts /\ req' = [req EXCEPT ![h] = NoRequest] /\ req'[h].pc = "idle"
  BY <1>1, <1>3, NothingTypes DEF Finish, Idle, RequestsOK, ghosts
<1>5. deployment'[p] = IF deployment[p].release = NoRelease THEN deployment[p] ELSE req[h].copy
  BY <1>1, <1>3 DEF ClusterOK
<1>6. \A g \in Handler \ {h} : req'[g] = req[g]
  BY <1>4 DEF RequestsOK
<1>7. \A g \in Handler : (Busy(g, p)' => g # h /\ Busy(g, p)) /\ (Sole(g, p)' => Sole(g, p))
  BY <1>4, <1>6 DEF Busy, Sole, ghosts
<1>8. Apart(p)'
  BY <1>6, <1>7 DEF PairOK, Apart, Sole
<1>9. ASSUME p \notin suspect, NEW g \in Handler PROVE ~Rewriting(g, p) /\ ~Scaling(g, p)
  <2>1. Busy(g, p) => req[g].op = "restart"
    BY <1>1, <1>9 DEF PairOK, Apart, Sole
  <2> QED BY <1>1, <2>1 DEF Rewriting, Scaling, RequestsOK, OpOK
<1>10. HomeOK(p)' /\ NoneOK(p)'
  BY <1>3, <1>4, <1>5 DEF PairOK, HomeOK, Home, NoneOK, Bare, rows, ghosts
<1>11. CleanOK(p)'
  BY <1>3, <1>4, <1>5, <1>9 DEF PairOK, CleanOK, Bare, ghosts
<1>12. RunsOK(p)'
  <2>1. ASSUME p \notin suspect, p[1] \notin badspaces, answered[p] # NoRelease
        PROVE  /\ deployment'[p].release = answered[p] /\ Served(p, answered[p])
               /\ deployment'[p].replicas = instances[p]
    <3>1. /\ deployment[p].release = answered[p] /\ Served(p, answered[p])
          /\ deployment[p].replicas = instances[p]
      BY <1>9, <2>1 DEF PairOK, RunsOK
    <3>2. req[h].copy.release = answered[p] /\ req[h].copy.replicas = instances[p]
      BY <1>1, <2>1 DEF PairOK, HandlerOK, RestartOK
    <3> QED BY <1>5, <3>1, <3>2
  <2> QED BY <1>3, <1>4, <2>1 DEF RunsOK, Served, rows, ghosts
<1>13. ASSUME NEW g \in Handler PROVE HandlerOK(g, p)'
  <2>1. CASE g = h
    BY <1>4, <2>1, IdleOK
  <2>2. CASE g # h
    <3>1. req'[g] = req[g] /\ (Busy(g, p)' => Busy(g, p)) /\ (Sole(g, p)' => Sole(g, p)) /\ HandlerOK(g, p)
      BY <1>6, <1>7, <2>2 DEF PairOK
    <3>2. VacantOK(g, p)' /\ ScaleOK(g, p)' /\ RestartOK(g, p)'
      BY <1>3, <1>4, <3>1 DEF HandlerOK, VacantOK, ScaleOK, RestartOK, Scaling, rows, ghosts
    <3>3. Sole(g, p) => req[g].op = "restart"
      BY <2>2 DEF PairOK, Apart
    <3>4. Sole(g, p) => req[g].pc \in {"get", "put"}
      <4>1. req[g] \in Request /\ OpOK(req[g])
        BY <1>1, Fields
      <4> QED BY <3>3, <4>1 DEF OpOK, Sole, Busy, Request, Unbegun, Begun
    <3>5. DeployOK(g, p)' /\ RemoveOK(g, p)'
      BY <3>1, <3>4 DEF DeployOK, RemoveOK
    <3> QED BY <3>2, <3>5 DEF HandlerOK
  <2> QED BY <2>1, <2>2
<1> QED BY <1>8, <1>10, <1>11, <1>12, <1>13 DEF PairOK

-----------------------------------------------------------------------------
(* Arrivals, failures, and what others do to an app in a space. *)

\* A request that arrives has done nothing, and makes what it shares with others suspect.
LEMMA PairArrives ==
  ASSUME Parts, Parts', NEW p \in Pair, PairOK(p), NEW h \in Handler, Start(h)
  PROVE  PairOK(p)'
<1>1. RequestsOK /\ GhostsOK
  BY DEF Parts
<1>2. PICK r \in Request : r.pc \in Begins /\ OpOK(r) /\ Arrive(h, r)
  BY StartArrives
<1>3. req'[h].pc = r.pc /\ req'[h].op = r.op /\ req'[h].space = r.space /\ req'[h].app = r.app
  BY <1>1, <1>2, ArriveRequests
<1>4. \A o \in Handler \ {h} : /\ req'[o].pc = req[o].pc /\ req'[o].op = req[o].op
                               /\ req'[o].space = req[o].space /\ req'[o].app = req[o].app
                               /\ req'[o].release = req[o].release
                               /\ req'[o].instances = req[o].instances
                               /\ req'[o].seen = req[o].seen /\ req'[o].copy = req[o].copy
                               /\ (req'[o].alone => req[o].alone)
  <2>1. ASSUME NEW o \in Handler, NEW q, q = [req[o] EXCEPT !.alone = FALSE]
        PROVE  /\ q.pc = req[o].pc /\ q.op = req[o].op /\ q.space = req[o].space /\ q.app = req[o].app
               /\ q.release = req[o].release /\ q.instances = req[o].instances
               /\ q.seen = req[o].seen /\ q.copy = req[o].copy /\ ~q.alone
    BY <1>1, <2>1, Fields DEF Request
  <2>2. ASSUME NEW o \in Handler \ {h}
        PROVE  /\ req'[o].pc = req[o].pc /\ req'[o].op = req[o].op
               /\ req'[o].space = req[o].space /\ req'[o].app = req[o].app
               /\ req'[o].release = req[o].release
               /\ req'[o].instances = req[o].instances
               /\ req'[o].seen = req[o].seen /\ req'[o].copy = req[o].copy
               /\ (req'[o].alone => req[o].alone)
    <3>1. req'[o] = req[o] \/ req'[o] = [req[o] EXCEPT !.alone = FALSE]
      BY <1>1, <1>2, ArriveRequests
    <3>2. CASE req'[o] = [req[o] EXCEPT !.alone = FALSE]
      BY <2>1, <3>2
    <3>3. CASE req'[o] = req[o]
      BY <3>3
    <3> QED BY <3>1, <3>2, <3>3
  <2> QED BY <2>2
<1>5. UNCHANGED <<rows, cluster, answered>> /\ req[h].pc = "idle"
  BY <1>2 DEF Arrive
<1>6. suspect \subseteq suspect' /\ badspaces \subseteq badspaces'
  BY <1>1, <1>2, ArriveMeets
<1>7. \A g \in Handler \ {h} : /\ (Busy(g, p)' <=> Busy(g, p))
                               /\ (Sole(g, p)' => Sole(g, p))
  BY <1>4, <1>6 DEF Busy, Sole, Near, SpaceOp
<1>8. \A g \in Handler : (Rewriting(g, p)' <=> Rewriting(g, p)) /\ (Scaling(g, p)' <=> Scaling(g, p))
  <2>1. ASSUME NEW g \in Handler \ {h}
        PROVE  (Rewriting(g, p)' <=> Rewriting(g, p)) /\ (Scaling(g, p)' <=> Scaling(g, p))
    BY <1>4, <1>7 DEF Rewriting, Scaling
  <2>2. ~Rewriting(h, p) /\ ~Rewriting(h, p)' /\ ~Scaling(h, p) /\ ~Scaling(h, p)'
    BY <1>2, <1>3, <1>5 DEF Rewriting, Scaling, Begins
  <2> QED BY <2>1, <2>2
<1>9. Apart(p)'
  <2>1. ASSUME NEW g \in Handler, Sole(g, p)', NEW o \in Handler \ {g}, Busy(o, p)'
        PROVE  req'[o].op = "restart" /\ req'[g].op = "restart"
    <3>1. CASE g # h /\ o # h
      <4>1. Sole(g, p) /\ Busy(o, p)
        BY <1>7, <2>1, <3>1
      <4>2. req[o].op = "restart" /\ req[g].op = "restart"
        BY <4>1 DEF PairOK, Apart
      <4> QED BY <1>4, <3>1, <4>2
    <3>2. ASSUME NEW x \in Handler \ {h}, Busy(x, p), Near(r, p), p \notin suspect' \/ req'[x].alone \/ req'[h].alone
          PROVE  req'[x].op = "restart" /\ req'[h].op = "restart"
      <4>1. req[x].pc # "idle" /\ Near(req[x], p)
        BY <3>2 DEF Busy
      <4>2. r.op = "restart" /\ req[x].op = "restart"
        BY <1>1, <1>2, <3>2, <4>1, ArriveMeets
      <4> QED BY <1>3, <1>4, <4>2
    <3>3. CASE g = h
      <4>1. Busy(o, p) /\ Near(r, p) /\ (p \notin suspect' \/ req'[h].alone)
        BY <1>3, <1>7, <2>1, <3>3 DEF Sole, Busy, Near, SpaceOp
      <4> QED BY <2>1, <3>2, <3>3, <4>1
    <3>4. CASE o = h
      <4>1. Busy(g, p) /\ Near(r, p) /\ (p \notin suspect' \/ req'[g].alone)
        BY <1>3, <1>7, <2>1, <3>4 DEF Sole, Busy, Near, SpaceOp
      <4> QED BY <2>1, <3>2, <3>4, <4>1
    <3> QED BY <3>1, <3>3, <3>4
  <2> QED BY <2>1 DEF Apart
<1>10. HomeOK(p)' /\ NoneOK(p)'
  BY <1>5, <1>6 DEF PairOK, HomeOK, Home, NoneOK, Bare, rows, cluster
<1>11. CleanOK(p)'
  BY <1>5, <1>6, <1>8 DEF PairOK, CleanOK, Bare, cluster
<1>12. RunsOK(p)'
  BY <1>5, <1>6, <1>8 DEF PairOK, RunsOK, Served, rows, cluster
<1>13. HandlerOK(h, p)'
  BY <1>2, <1>3 DEF HandlerOK, VacantOK, ScaleOK, RestartOK, DeployOK, RemoveOK, Scaling, Begins
<1>14. ASSUME NEW g \in Handler \ {h} PROVE HandlerOK(g, p)'
  <2>1. HandlerOK(g, p)
    BY DEF PairOK
  <2>2. VacantOK(g, p)' /\ ScaleOK(g, p)' /\ RestartOK(g, p)'
    BY <1>4, <1>5, <1>6, <1>7, <2>1 DEF HandlerOK, VacantOK, ScaleOK, RestartOK, Scaling, rows
  <2>3. (SeenOK(g, p) => SeenOK(g, p)') /\ (WrittenOK(g, p) => WrittenOK(g, p)')
    BY <1>4, <1>5 DEF SeenOK, WrittenOK, cluster
  <2>4. DeployOK(g, p)'
    BY <1>4, <1>5, <1>6, <1>7, <2>1, <2>3 DEF HandlerOK, DeployOK, Home, rows
  <2>5. RemoveOK(g, p)'
    BY <1>4, <1>5, <1>7, <2>1 DEF HandlerOK, RemoveOK, cluster
  <2> QED BY <2>2, <2>4, <2>5 DEF HandlerOK
<1> QED BY <1>9, <1>10, <1>11, <1>12, <1>13, <1>14 DEF PairOK

\* A request that fails makes what it was writing suspect.
LEMMA PairFails ==
  ASSUME Parts, Parts', NEW p \in Pair, PairOK(p), NEW h \in Handler, RequestFailure(h)
  PROVE  PairOK(p)'
BY PairEnds DEF RequestFailure, Parts

\* So does one whose error is not heeded, be it that it goes on.
LEMMA PairIgnored ==
  ASSUME Parts, Parts', NEW p \in Pair, PairOK(p), NEW h \in Handler, ErrorIgnored(h)
  PROVE  PairOK(p)'
<1>1. /\ RequestsOK /\ GhostsOK /\ RequestsOK' /\ OpOK(req[h]) /\ req[h] \in Request
      /\ PairOf(h) \in Pair
  BY Fields DEF Parts
<1>2. /\ UNCHANGED <<rows, cluster, badspaces>> /\ req[h].pc \in DOMAIN Unchecked
      /\ suspect' = IF req[h].op = "restart" \/ SpaceOp(req[h]) THEN suspect
                    ELSE suspect \union Touches(req[h])
      /\ answered' = IF req[h].pc = "internal" THEN [answered EXCEPT ![PairOf(h)] = req[h].release]
                     ELSE answered
  BY DEF ErrorIgnored
<1>3. req[h].pc # "idle"
  BY <1>2 DEF Unchecked
<1>4. PICK r \in Request : /\ Moves(h, r)
                           /\ \/ r.pc = "idle"
                              \/ Follows(req[h].pc, r.pc) /\ r.alone = FALSE
  <2>1. ASSUME NEW r \in Request, req' = [req EXCEPT ![h] = r], Follows(req[h].pc, r.pc),
               r.op = req[h].op, r.space = req[h].space, r.app = req[h].app, r.alone = FALSE
        PROVE  Moves(h, r)
    BY <1>3, <2>1 DEF Moves
  <2>2. req' = [req EXCEPT ![h] = NoRequest] => Moves(h, NoRequest)
    BY <1>3, NothingTypes DEF Moves
  <2> QED BY <1>1, <2>1, <2>2, IgnoredGoesOn, NothingTypes
<1>5. req'[h] = r
  BY <1>1, <1>4 DEF Moves, RequestsOK
<1>6. suspect \subseteq suspect'
  BY <1>2
<1>7. HomeKept(p)
  BY <1>2 DEF HomeKept, rows, cluster
<1>8. answered'[p] = answered[p] => Kept(p)
  BY <1>2 DEF Kept, rows, cluster
<1>9. CASE Busy(h, p) /\ req[h].op # "restart" /\ ~SpaceOp(req[h])
  <2>1. p \in suspect'
    BY <1>1, <1>2, <1>9, NearTouches DEF Busy
  <2>2. HomeOK(p)' /\ CleanOK(p)' /\ RunsOK(p)'
    BY <2>1 DEF HomeOK, CleanOK, RunsOK
  <2>3. NoneOK(p)'
    BY <1>2 DEF PairOK, NoneOK, Bare, cluster
  <2>4. ~Sole(h, p)'
    BY <1>4, <1>5, <2>1 DEF Sole, Busy
  <2>5. HandlerOK(h, p)'
    BY <2>1, <2>4 DEF HandlerOK, VacantOK, ScaleOK, RestartOK, DeployOK, RemoveOK
  <2> QED BY <1>1, <1>4, <1>9, <2>1, <2>2, <2>3, <2>5, PairWrites
<1>10. CASE Busy(h, p) /\ (req[h].op = "restart" \/ SpaceOp(req[h]))
  <2>1. req[h].pc \in {"check", "pods", "put"}
    BY <1>1, <1>2, <1>10 DEF Unchecked, OpOK, SpaceOp
  <2>2. Kept(p) /\ ~Rewriting(h, p) /\ ~Scaling(h, p)
    BY <1>2, <1>8, <2>1 DEF Rewriting, Scaling
  <2>3. r.pc \in {"idle", "addspace", "count"}
    BY <1>2, <1>4, <2>1 DEF Follows
  <2>4. HandlerOK(h, p)'
    BY <1>5, <2>3 DEF HandlerOK, VacantOK, ScaleOK, RestartOK, DeployOK, RemoveOK, Scaling
  <2> QED BY <1>1, <1>2, <1>4, <1>6, <1>7, <2>2, <2>4, PairKept
<1>11. CASE ~Busy(h, p)
  <2>1. answered'[p] = answered[p]
    <3>1. CASE req[h].pc = "internal"
      <4>1. p # PairOf(h)
        BY <1>1, <1>3, <1>11, <3>1 DEF Busy, Near, PairOf, OpOK
      <4> QED BY <1>1, <1>2, <4>1 DEF GhostsOK
    <3> QED BY <1>2, <3>1
  <2> QED BY <1>1, <1>2, <1>4, <1>6, <1>7, <1>8, <1>11, <2>1, PairKept
<1> QED BY <1>9, <1>10, <1>11

\* Createapp and AddApp only add.
LEMMA PairAdded ==
  ASSUME Parts, Parts', NEW p \in Pair, PairOK(p),
         \/ \E a \in App : Createapp(a)
         \/ \E s \in Space, a \in App, n \in Instances : AddApp(s, a, n)
  PROVE  PairOK(p)'
<1>1. UNCHANGED <<req, ghosts, cluster, spaces>> /\ apps \subseteq apps' /\ placed \subseteq placed'
      /\ (p \in placed => instances'[p] = instances[p])
  <2>1. CASE \E a \in App : Createapp(a)
    BY <2>1 DEF Createapp
  <2>2. ASSUME NEW s \in Space, NEW a \in App, NEW n \in Instances, AddApp(s, a, n)
        PROVE  /\ UNCHANGED <<req, ghosts, cluster, spaces, apps>> /\ placed \subseteq placed'
               /\ (p \in placed => instances'[p] = instances[p])
    BY <2>2 DEF AddApp, Parts, TablesOK
  <2> QED BY <2>1, <2>2
<1>2. UNCHANGED <<req, answered, suspect, badspaces, namespaces, deployment, service, internal>>
  BY <1>1 DEF ghosts, cluster
<1>3. Home(p) => Home(p)' /\ instances'[p] = instances[p]
  BY <1>1 DEF Home
<1>4. p \notin suspect /\ answered[p] # NoRelease => instances'[p] = instances[p]
  BY <1>3 DEF PairOK, HomeOK
<1>5. \A g \in Handler : /\ (Busy(g, p)' <=> Busy(g, p)) /\ (Sole(g, p)' <=> Sole(g, p))
                         /\ (Rewriting(g, p)' <=> Rewriting(g, p)) /\ (Scaling(g, p)' <=> Scaling(g, p))
  BY <1>2 DEF Busy, Sole, Rewriting, Scaling
<1>6. Apart(p)' /\ HomeOK(p)' /\ NoneOK(p)' /\ CleanOK(p)'
  BY <1>2, <1>3, <1>5 DEF PairOK, Apart, HomeOK, NoneOK, CleanOK, Bare
<1>7. RunsOK(p)'
  BY <1>2, <1>4, <1>5 DEF PairOK, RunsOK, Served
<1>8. ASSUME NEW g \in Handler PROVE HandlerOK(g, p)'
  <2>1. HandlerOK(g, p)
    BY DEF PairOK
  <2>2. VacantOK(g, p)' /\ ScaleOK(g, p)' /\ RestartOK(g, p)'
    BY <1>2, <1>4, <1>5, <2>1 DEF HandlerOK, VacantOK, ScaleOK, RestartOK
  <2>3. DeployOK(g, p)' /\ RemoveOK(g, p)'
    BY <1>2, <1>3, <1>5, <2>1 DEF HandlerOK, DeployOK, RemoveOK, SeenOK, WrittenOK
  <2> QED BY <2>2, <2>3 DEF HandlerOK
<1> QED BY <1>6, <1>7, <1>8 DEF PairOK

\* A namespace goes: of a space that had something deployed it does not.
LEMMA PairGone ==
  ASSUME Parts, Parts', NEW p \in Pair, PairOK(p), SpaceOK(p[1]), NEW s \in Space, NamespaceGone(s)
  PROVE  PairOK(p)'
<1>1. /\ UNCHANGED <<spaces, apps, placed, instances, req, answered, suspect, badspaces>>
      /\ namespaces[s] = "terminating" /\ namespaces' = [namespaces EXCEPT ![s] = "none"]
      /\ deployment' = [q \in Pair |-> IF q[1] = s THEN NoDeployment ELSE deployment[q]]
      /\ service' = [q \in Pair |-> IF q[1] = s THEN NoPort ELSE service[q]]
      /\ internal' = {q \in internal : q[1] # s}
  BY DEF NamespaceGone, rows, ghosts
<1>2. \A g \in Handler : /\ (Busy(g, p)' <=> Busy(g, p)) /\ (Sole(g, p)' <=> Sole(g, p))
                         /\ (Rewriting(g, p)' <=> Rewriting(g, p)) /\ (Scaling(g, p)' <=> Scaling(g, p))
  BY <1>1 DEF Busy, Sole, Rewriting, Scaling
<1>3. Apart(p)' /\ HomeOK(p)' /\ (Home(p)' <=> Home(p))
  BY <1>1, <1>2 DEF PairOK, Apart, HomeOK, Home
<1>4. ASSUME NEW g \in Handler PROVE VacantOK(g, p)' /\ ScaleOK(g, p)' /\ RestartOK(g, p)'
  BY <1>1, <1>2 DEF PairOK, HandlerOK, VacantOK, ScaleOK, RestartOK
<1>5. RequestsOK /\ ClusterOK
  BY DEF Parts
<1>6. CASE p[1] # s
  <2>1. /\ namespaces'[p[1]] = namespaces[p[1]] /\ deployment'[p] = deployment[p]
        /\ service'[p] = service[p] /\ ((p \in internal') <=> (p \in internal))
    BY <1>1, <1>5, <1>6 DEF ClusterOK, Pair
  <2>2. NoneOK(p)' /\ CleanOK(p)'
    BY <1>1, <1>2, <2>1 DEF PairOK, NoneOK, CleanOK, Bare
  <2>3. RunsOK(p)'
    BY <1>1, <1>2, <2>1 DEF PairOK, RunsOK, Served
  <2>4. ASSUME NEW g \in Handler PROVE DeployOK(g, p)' /\ RemoveOK(g, p)'
    BY <1>1, <1>2, <1>3, <2>1 DEF PairOK, HandlerOK, DeployOK, RemoveOK, SeenOK, WrittenOK
  <2> QED BY <1>3, <1>4, <2>2, <2>3, <2>4 DEF PairOK, HandlerOK
<1>7. CASE p[1] = s
  <2>1. Bare(p)'
    BY <1>1, <1>7, NothingTypes DEF Bare
  <2>2. NoneOK(p)' /\ CleanOK(p)'
    BY <2>1 DEF NoneOK, CleanOK
  <2>3. RunsOK(p)'
    <3>1. ASSUME p \notin suspect, s \notin badspaces, answered[p] # NoRelease PROVE FALSE
      <4>1. s \in spaces
        BY <1>7, <3>1 DEF PairOK, HomeOK, Home
      <4>2. ASSUME NEW g \in Handler, Active(g, s) PROVE req[g].pc \notin Halfway
        <5>1. Busy(g, p)
          BY <1>7, <4>2 DEF Active, Busy, Near
        <5> QED BY <3>1, <5>1 DEF PairOK, HandlerOK, VacantOK, Halfway
      <4>3. SettledSpace(s)
        BY <1>5, <3>1, <4>2, SettledHalfway
      <4> QED BY <1>1, <1>7, <4>1, <4>3 DEF SpaceOK, Agree, Backed
    <3> QED BY <1>1, <1>7, <3>1 DEF RunsOK
  <2>4. ASSUME NEW g \in Handler PROVE DeployOK(g, p)'
    <3>1. ASSUME Sole(g, p), req[g].pc \in {"checks", "deploy", "service", "internal"}
          PROVE  p[1] \in badspaces /\ Home(p) /\ instances[p] = req[g].instances
      <4>1. p[1] \in badspaces
        BY <1>1, <1>5, <1>7, <3>1, ReadyToDeploy
      <4> QED BY <3>1, <4>1 DEF PairOK, HandlerOK, DeployOK
    <3> QED BY <1>1, <1>2, <1>3, <3>1 DEF DeployOK
  <2>5. ASSUME NEW g \in Handler PROVE RemoveOK(g, p)'
    BY <2>1 DEF RemoveOK, Bare
  <2> QED BY <1>3, <1>4, <2>2, <2>3, <2>4, <2>5 DEF PairOK, HandlerOK
<1> QED BY <1>6, <1>7

-----------------------------------------------------------------------------
(* All together. *)

\* A step of a request, whatever it is.
LEMMA PairStep ==
  ASSUME Parts, Parts', NEW p \in Pair, PairOK(p), SpaceOK(p[1]), NEW h \in Handler, Step(h)
  PROVE  PairOK(p)'
<1>1. CASE ~Busy(h, p)
  BY <1>1, PairElsewhere
<1>2. CASE Busy(h, p)
  <2>1. CASE \/ CheckSpace(h) \/ CheckPods(h) \/ CountApps(h) \/ SpacesOfApp(h)
             \/ ReadApp(h) \/ CheckExistence(h) \/ GetDeployment(h)
    BY <1>2, <2>1, PairRead
  <2>2. CASE \/ AddSpace(h) \/ CreateNamespace(h) \/ CopySecret(h)
             \/ DeleteSpaceRow(h) \/ DeleteNamespace(h) \/ DeleteAppRow(h)
    BY <1>2, <2>2, PairOfSpace
  <2>3. CASE WriteDeployment(h) \/ WriteService(h) \/ WriteInternal(h)
    BY <1>2, <2>3, PairDeployed, PairService, PairInternal
  <2>4. CASE SetInstances(h) \/ Scale(h) \/ RestartDeployment(h)
    BY <1>2, <2>4, PairCounted, PairScaled, PairRestarted
  <2>5. CASE DeleteService(h) \/ DeleteInternalService(h) \/ DeleteDeployment(h) \/ RemoveFromSpace(h)
    BY <1>2, <2>5, PairStripped, PairRemoved
  <2> QED BY <2>1, <2>2, <2>3, <2>4, <2>5 DEF Step
<1> QED BY <1>1, <1>2

Inv == Parts /\ (\A s \in Space : SpaceOK(s)) /\ (\A p \in Pair : PairOK(p))

\* In the beginning nobody is busy and nothing is deployed.
LEMMA InitInv == Init => Inv
<1> SUFFICES ASSUME Init PROVE Inv
  OBVIOUS
<1>1. \A h \in Handler : req[h] = NoRequest /\ req[h].pc = "idle"
  BY NothingTypes DEF Init
<1>2. Parts
  BY NothingTypes, InstancesAssumption, ReleaseAssumption, BoundsAssumption
  DEF Init, Parts, TablesOK, ClusterOK, RequestsOK, GhostsOK, CountsOK
<1>3. ASSUME NEW s \in Space PROVE SpaceOK(s)
  BY <1>1 DEF Init, SpaceOK, SpaceApart, Only, Active, Agree, Backed, Midway
<1>4. ASSUME NEW p \in Pair PROVE PairOK(p)
  <2>1. \A h \in Handler : ~Busy(h, p) /\ ~Sole(h, p) /\ ~Rewriting(h, p) /\ ~Scaling(h, p)
    BY <1>1 DEF Busy, Sole, Rewriting, Scaling
  <2>2. Bare(p) /\ answered[p] = NoRelease
    BY NothingTypes DEF Init, Bare
  <2>3. Apart(p) /\ HomeOK(p) /\ NoneOK(p) /\ CleanOK(p) /\ RunsOK(p)
    BY <2>1, <2>2 DEF Apart, HomeOK, NoneOK, CleanOK, RunsOK
  <2>4. \A h \in Handler : HandlerOK(h, p)
    BY <2>1 DEF HandlerOK, VacantOK, ScaleOK, RestartOK, DeployOK, RemoveOK
  <2> QED BY <2>3, <2>4 DEF PairOK
<1> QED BY <1>2, <1>3, <1>4 DEF Inv

\* Every step keeps the invariant.
LEMMA NextInv == Inv /\ [Next]_vars => Inv'
<1> SUFFICES ASSUME Inv, [Next]_vars PROVE Inv'
  OBVIOUS
<1>1. Parts /\ (\A s \in Space : SpaceOK(s)) /\ (\A p \in Pair : PairOK(p) /\ SpaceOK(p[1]))
  BY DEF Inv, Pair
<1>2. ASSUME NEW h \in Handler, Start(h) PROVE Inv'
  <2>1. Parts'
    BY <1>1, <1>2, StartArrives, ArriveType
  <2>2. \A s \in Space : SpaceOK(s)'
    BY <1>1, <1>2, <2>1, SpaceOthers
  <2>3. \A p \in Pair : PairOK(p)'
    BY <1>1, <1>2, <2>1, PairArrives
  <2> QED BY <2>1, <2>2, <2>3 DEF Inv
<1>3. ASSUME NEW h \in Handler, Step(h) PROVE Inv'
  <2>1. Parts'
    BY <1>1, <1>3, StepType
  <2>2. \A s \in Space : SpaceOK(s)'
    BY <1>1, <1>3, <2>1, SpaceElsewhere, SpaceWritten
  <2>3. \A p \in Pair : PairOK(p)'
    BY <1>1, <1>3, <2>1, PairStep
  <2> QED BY <2>1, <2>2, <2>3 DEF Inv
<1>4. ASSUME NEW h \in Handler, RequestFailure(h) \/ ErrorIgnored(h) PROVE Inv'
  <2>1. Parts'
    BY <1>1, <1>4, FailureType
  <2>2. \A s \in Space : SpaceOK(s)'
    BY <1>1, <1>4, <2>1, SpaceOthers
  <2>3. \A p \in Pair : PairOK(p)'
    BY <1>1, <1>4, <2>1, PairFails, PairIgnored
  <2> QED BY <2>1, <2>2, <2>3 DEF Inv
<1>5. CASE \/ \E a \in App : Createapp(a)
           \/ \E s \in Space, a \in App, n \in Instances : AddApp(s, a, n)
           \/ \E s \in Space : NamespaceGone(s)
  <2>1. Parts'
    BY <1>1, <1>5, OthersType
  <2>2. \A s \in Space : SpaceOK(s)'
    BY <1>1, <1>5, <2>1, SpaceOthers
  <2>3. \A p \in Pair : PairOK(p)'
    BY <1>1, <1>5, <2>1, PairAdded, PairGone
  <2> QED BY <2>1, <2>2, <2>3 DEF Inv
<1>6. CASE UNCHANGED vars
  <2>1. /\ UNCHANGED <<spaces, apps, placed, instances, namespaces, deployment, service, internal, req>>
        /\ UNCHANGED <<answered, suspect, badspaces, requests, failures>>
    BY <1>6 DEF vars, rows, cluster, ghosts
  <2>2. Parts'
    BY <1>1, <2>1 DEF Parts, TablesOK, ClusterOK, RequestsOK, GhostsOK, CountsOK
  <2>3. \A s \in Space : SpaceOK(s)'
    BY <1>1, <2>1 DEF SpaceOK, SpaceApart, Only, Active, Agree, SettledSpace, Backed, Midway
  <2>4. ASSUME NEW p \in Pair PROVE PairOK(p)'
    <3>1. PairOK(p)
      BY <1>1
    <3>2. /\ Apart(p)' /\ HomeOK(p)' /\ NoneOK(p)' /\ CleanOK(p)' /\ RunsOK(p)'
      BY <2>1, <3>1 DEF PairOK, Apart, Sole, Busy, HomeOK, Home, NoneOK, Bare, CleanOK, RunsOK,
                        Rewriting, Scaling, Served
    <3>3. ASSUME NEW h \in Handler PROVE HandlerOK(h, p)'
      BY <2>1, <3>1 DEF PairOK, HandlerOK, VacantOK, ScaleOK, RestartOK, DeployOK, RemoveOK,
                        SeenOK, WrittenOK, Sole, Busy, Scaling, Home
    <3> QED BY <3>2, <3>3 DEF PairOK
  <2> QED BY <2>2, <2>3, <2>4 DEF Inv
<1> QED BY <1>2, <1>3, <1>4, <1>5, <1>6 DEF Next

\* The invariant holds always.
THEOREM AppsAlways == Spec => []Inv
BY InitInv, NextInv, PTL DEF Spec

\* Every variable has its type, always.
THEOREM AppsTypeCorrect == Spec => []TypeOK
<1>1. Inv => TypeOK
  BY PartsType DEF Inv
<1> QED BY <1>1, AppsAlways, PTL

\* Rows and namespaces of spaces agree, unless creations or deletions of one space
\* overlapped or failed halfway (space.go: Createspace, Deletespace).
THEOREM SpacesAreBacked == Spec => []SpaceIsBacked
<1>1. Inv => SpaceIsBacked
  BY DEF Inv, SpaceOK, Agree, Backed, SpaceIsBacked
<1> QED BY <1>1, AppsAlways, PTL

\* What is settled of a pair: nobody is writing.
LEMMA SettledPair ==
  ASSUME RequestsOK, NEW p \in Pair, Settled(p)
  PROVE  /\ p \notin suspect /\ p[1] \notin badspaces
         /\ \A h \in Handler : ~Rewriting(h, p) /\ ~Scaling(h, p)
         /\ SettledSpace(p[1])
<1>1. p \notin suspect /\ p[1] \notin badspaces
  BY DEF Settled
<1>2. ASSUME NEW h \in Handler, Near(req[h], p) PROVE req[h].pc \notin Begun
  <2>1. p \in Touches(req[h])
    BY <1>2, Fields, NearTouches
  <2> QED BY <2>1 DEF Settled
<1>3. \A h \in Handler : ~Rewriting(h, p) /\ ~Scaling(h, p)
  BY <1>2 DEF Rewriting, Scaling, Busy, Begun
<1>4. \A h \in Handler : Active(h, p[1]) => req[h].pc \notin Halfway
  BY <1>2 DEF Active, Near, Begun, Halfway
<1>5. SettledSpace(p[1])
  BY <1>1, <1>4, SettledHalfway
<1> QED BY <1>1, <1>3, <1>5

\* What was answered to be deployed runs, as often as it was scaled to and behind its
\* services, and of what was removed nothing is left, unless requests for it overlapped
\* or failed while they wrote (deployment.go: Deployment; app.go: DeleteApp, ScaleApp).
THEOREM AppsRunAsAnswered == Spec => []RunsAsAnswered
<1>1. ASSUME Inv PROVE RunsAsAnswered
  <2>1. RequestsOK /\ ClusterOK /\ \A p \in Pair : PairOK(p)
    BY <1>1 DEF Inv, Parts
  <2>2. ASSUME NEW p \in Pair, Settled(p), answered[p] = NoRelease, namespaces[p[1]] # "terminating"
        PROVE  deployment[p].release = NoRelease /\ service[p] = NoPort /\ p \notin internal
    BY <2>1, <2>2, SettledPair DEF PairOK, CleanOK, Bare
  <2>3. ASSUME NEW p \in Pair, Settled(p), answered[p] # NoRelease
        PROVE  /\ p \in placed
               /\ deployment[p] = [release |-> answered[p], replicas |-> instances[p]]
               /\ PortOf[answered[p]] # NoPort => service[p] = PortOf[answered[p]]
               /\ (p \in internal) <=> (answered[p] \in WithInner)
    <3>1. /\ deployment[p].release = answered[p] /\ deployment[p].replicas = instances[p]
          /\ Served(p, answered[p]) /\ Home(p)
      BY <2>1, <2>3, SettledPair DEF PairOK, RunsOK, HomeOK
    <3>2. deployment[p] \in Deployment
      BY <2>1 DEF ClusterOK
    <3>3. deployment[p] = [release |-> answered[p], replicas |-> instances[p]]
      BY <3>1, <3>2 DEF Deployment
    <3> QED BY <3>1, <3>3 DEF Served, Home
  <2> QED BY <2>2, <2>3 DEF RunsAsAnswered
<1>2. Inv => RunsAsAnswered
  BY <1>1
<1> QED BY <1>2, AppsAlways, PTL

\* What is deployed keeps its space, its app and its namespace: deletions of spaces and
\* apps ask first (space.go: Deletespace; app.go: Deleteapp).
THEOREM AppsDeployedKeepHome == Spec => []DeployedKeepsHome
<1>1. ASSUME Inv PROVE DeployedKeepsHome
  <2>1. RequestsOK /\ \A p \in Pair : PairOK(p) /\ SpaceOK(p[1])
    BY <1>1 DEF Inv, Parts, Pair
  <2>2. ASSUME NEW p \in Pair, Settled(p), answered[p] # NoRelease
        PROVE  p[1] \in spaces /\ p[2] \in apps /\ namespaces[p[1]] \in {"bare", "ready"}
    BY <2>1, <2>2, SettledPair DEF PairOK, HomeOK, Home, SpaceOK, Agree, Backed
  <2> QED BY <2>2 DEF DeployedKeepsHome
<1>2. Inv => DeployedKeepsHome
  BY <1>1
<1> QED BY <1>2, AppsAlways, PTL
=============================================================================
