------------------------------ MODULE JobsSafety ------------------------------
(***************************************************************************)
(* What requests leave: jobs run until a request says otherwise, and a     *)
(* name that is not suspect has what was answered last.  Jobs and one-off  *)
(* pods only matter to each other in that they leave each other alone.     *)
(***************************************************************************)
EXTENDS JobsProofs

-----------------------------------------------------------------------------
(* How far a request is tells what it may do. *)

\* Only jobs that are deleted or stopped have their pods deleted, after something was
\* written; a job is scaled in one write, after it was found.
OpsOK(r) ==
  /\ r.begun => r.pc # "idle"
  /\ r.pc \in {"deljobs", "delpods", "podsagain"} => r.op \in {"rerun", "stop", "clean", "stopcron"}
  /\ r.pc \in {"delpods", "podsagain"} => r.begun
  /\ r.pc = "getjob" => r.op = "scale"
  /\ r.pc = "putjob" => r.op = "scale" /\ r.copy.run # 0
  /\ r.op = "scale" => ~r.begun
  /\ r.pc \in {"oneoffexists", "delpod"} => ForPod(r)
Ops == \A h \in Handler : OpsOK(req[h])

\* One handler's request changes.
LEMMA OpsPut ==
  ASSUME RequestsOK, Ops, NEW h \in Handler, NEW r, OpsOK(r), req' = [req EXCEPT ![h] = r]
  PROVE  Ops'
BY DEF Ops, RequestsOK

\* A request ends.
LEMMA OpsIdle ==
  ASSUME RequestsOK, Ops, NEW h \in Handler, Idle(h)
  PROVE  Ops'
<1>1. OpsOK(NoRequest)
  BY DEF OpsOK, NoRequest
<1> QED BY <1>1, OpsPut DEF Idle

\* A request goes on to where its operation may go.
LEMMA OpsTo ==
  ASSUME RequestsOK, Ops, NEW h \in Handler, req[h].pc \notin {"idle", "putjob"},
         NEW pc \in {"exists", "bindings", "deljobs", "delpods", "podsagain", "delpod"}, To(h, pc),
         pc \in {"deljobs", "delpods", "podsagain"} => req[h].op \in {"rerun", "stop", "clean", "stopcron"},
         pc \in {"delpods", "podsagain"} => req[h].pc \in Writing,
         pc = "delpod" => ForPod(req[h])
  PROVE  Ops'
<1> DEFINE b == req[h].begun \/ req[h].pc \in Writing
           r == [req[h] EXCEPT !.pc = pc, !.begun = b]
<1>1. req[h] \in Request /\ OpsOK(req[h])
  BY DEF RequestsOK, Ops
<1>2. req' = [req EXCEPT ![h] = r]
  BY DEF To
<1>3. req[h].pc \in Writing => req[h].op # "scale"
  BY <1>1 DEF OpsOK, Writing, ForPod
<1>4. r.pc = pc /\ r.op = req[h].op /\ (r.begun <=> b)
  BY <1>1 DEF Request
<1>5. OpsOK(r)
  BY <1>1, <1>3, <1>4 DEF OpsOK, ForPod
<1> HIDE DEF r
<1> QED BY <1>2, <1>5, OpsPut

\* Reading the environment changes how far a request is, not what it is for.
LEMMA OpsReading ==
  ASSUME RequestsOK, Ops, NEW h \in Handler, NEW r \in Request, req' = [req EXCEPT ![h] = r],
         r.pc \in {"bindings", "configvars", "services", "create"}, req[h].pc # "idle",
         r.op = req[h].op, r.begun = req[h].begun
  PROVE  Ops'
<1>1. OpsOK(req[h]) /\ req[h] \in Request
  BY DEF Ops, RequestsOK
<1>2. OpsOK(r)
  BY <1>1 DEF OpsOK
<1> QED BY <1>2, OpsPut

\* Assembling the environment leaves the operation, the name and what was written.
LEMMA AssembledFields ==
  ASSUME NEW r \in Request, NEW env, NEW left
  PROVE  /\ Assembled(r, env, left).pc \in {"services", "create"}
         /\ Assembled(r, env, left).op = r.op /\ Assembled(r, env, left).name = r.name
         /\ Assembled(r, env, left).alone = r.alone /\ Assembled(r, env, left).begun = r.begun
BY DEF Assembled, Request

\* Arrivals: the others are as before but for not being alone.
LEMMA OpsArrive ==
  ASSUME RequestsOK, Ops, NEW h \in Handler, NEW r \in Request, OpsOK(r), Arrive(h, r)
  PROVE  Ops'
<1>1. PICK others \in SUBSET Handler :
        req' = [o \in Handler |->
                  IF o = h THEN [r EXCEPT !.id = requests + 1, !.alone = others = {}]
                  ELSE IF o \in others THEN [req[o] EXCEPT !.alone = FALSE] ELSE req[o]]
  BY DEF Arrive
<1>2. ASSUME NEW s \in Request, OpsOK(s), NEW i, NEW b
      PROVE  OpsOK([s EXCEPT !.id = i, !.alone = b]) /\ OpsOK([s EXCEPT !.alone = b])
  BY <1>2 DEF OpsOK, Request, ForPod
<1>3. ASSUME NEW o \in Handler
      PROVE  OpsOK(req'[o])
  <2>1. req[o] \in Request /\ OpsOK(req[o])
    BY DEF RequestsOK, Ops
  <2>2. CASE o = h
    <3>1. req'[o] = [r EXCEPT !.id = requests + 1, !.alone = others = {}]
      BY <1>1, <2>2
    <3>2. ASSUME NEW b PROVE OpsOK([r EXCEPT !.id = requests + 1, !.alone = b])
      BY <1>2
    <3>3. OpsOK([r EXCEPT !.id = requests + 1, !.alone = others = {}])
      BY <3>2, Zenon
    <3> QED BY <3>1, <3>3, Zenon
  <2>3. CASE o # h
    <3>1. req'[o] = [req[o] EXCEPT !.alone = FALSE] \/ req'[o] = req[o]
      BY <1>1, <2>3
    <3> QED BY <2>1, <3>1, <1>2
  <2> QED BY <2>2, <2>3
<1> QED BY <1>3 DEF Ops

\* Every request begins where its operation does.
LEMMA OpsStart ==
  ASSUME NamesAssumption, JobsAssumption, RequestsOK, Ops, NEW h \in Handler, StartRequest(h)
  PROVE  Ops'
<1>1. NoRequest \in Request
  BY EmptyTypes
<1>2. PICK n \in Name :
        \/ \E delete \in BOOLEAN : StartDeployJob(h, n, delete)
        \/ StartDeployCronJob(h, n) \/ StartStopJob(h, n) \/ StartCleanJobs(h, n)
        \/ StartStopCronJob(h, n) \/ StartStopOneOffPod(h, n)
        \/ \E k \in Parallelism : StartScaleJob(h, n, k)
        \/ \E env \in Env : StartOneOff(h, n, env)
  BY DEF StartRequest, JobsAssumption
<1>3. ASSUME NEW op \in Op \ {"scale"}, NEW pc \in {"row", "exists", "deljobs", "oneoffexists"},
             pc = "deljobs" => op \in {"clean", "stopcron"},
             pc = "oneoffexists" => op = "stoponeoff", Begin(h, op, pc, n)
      PROVE  Ops'
  <2> DEFINE r == [NoRequest EXCEPT !.op = op, !.pc = pc, !.name = n]
  <2>1. r \in Request
    BY <1>1 DEF Request, Reading, Writing
  <2>2. r.op = op /\ r.pc = pc /\ r.begun = FALSE
    BY DEF NoRequest
  <2>3. OpsOK(r)
    BY <1>3, <2>2 DEF OpsOK, ForPod
  <2>4. Arrive(h, r)
    BY <1>3 DEF Begin
  <2> HIDE DEF r
  <2> QED BY <2>1, <2>3, <2>4, OpsArrive
<1>4. CASE \E delete \in BOOLEAN : StartDeployJob(h, n, delete)
  <2>1. Begin(h, "run", "row", n) \/ Begin(h, "rerun", "row", n)
    BY <1>4 DEF StartDeployJob
  <2> QED BY <1>3, <2>1 DEF Op
<1>5. CASE StartDeployCronJob(h, n) \/ StartStopJob(h, n) \/ StartStopOneOffPod(h, n)
  BY <1>3, <1>5 DEF StartDeployCronJob, StartStopJob, StartStopOneOffPod, Op
<1>6. CASE StartCleanJobs(h, n) \/ StartStopCronJob(h, n)
  BY <1>3, <1>6 DEF StartCleanJobs, StartStopCronJob, Op
<1>7. ASSUME NEW k \in Parallelism, StartScaleJob(h, n, k)
      PROVE  Ops'
  <2> DEFINE r == [NoRequest EXCEPT !.op = "scale", !.pc = "getjob", !.name = n, !.parallelism = k]
  <2>1. r \in Request
    BY <1>1 DEF Request, Op, Reading
  <2>2. OpsOK(r)
    BY DEF OpsOK, NoRequest
  <2>3. Arrive(h, r)
    BY <1>7 DEF StartScaleJob
  <2> HIDE DEF r
  <2> QED BY <2>1, <2>2, <2>3, OpsArrive
<1>8. ASSUME NEW env \in Env, StartOneOff(h, n, env)
      PROVE  Ops'
  <2> DEFINE r == [NoRequest EXCEPT !.op = "oneoff", !.pc = "oneoffexists", !.name = n, !.extra = env]
  <2>1. r \in Request
    BY <1>1 DEF Request, Op, Reading
  <2>2. OpsOK(r)
    BY DEF OpsOK, NoRequest, ForPod
  <2>3. Arrive(h, r)
    BY <1>8 DEF StartOneOff
  <2> HIDE DEF r
  <2> QED BY <2>1, <2>2, <2>3, OpsArrive
<1> QED BY <1>2, <1>4, <1>5, <1>6, <1>7, <1>8

\* The steps of a request ...
LEMMA OpsStep ==
  ASSUME TypeOK, Ops, NamesAssumption, JobsAssumption, NEW h \in Handler, Step(h)
  PROVE  Ops'
<1>1. RequestsOK /\ ClusterOK /\ req[h] \in Request /\ OpsOK(req[h])
  BY TypeParts DEF RequestsOK, Ops
<1>2. ASSUME Fail(h) \/ Finish(h) PROVE Ops'
  BY <1>1, <1>2, OpsIdle DEF Fail, Finish
<1>3. ASSUME req[h].pc \notin {"idle", "putjob"}, To(h, "bindings") \/ To(h, "exists")
      PROVE  Ops'
  BY <1>1, <1>3, OpsTo
<1>4. CASE ReadRow(h)
  BY <1>2, <1>3, <1>4 DEF ReadRow
<1>5. CASE JobExists(h)
  <2>1. \/ To(h, "deljobs") /\ req[h].op \in {"rerun", "stop"}
        \/ To(h, "bindings") \/ Fail(h)
    BY <1>5 DEF JobExists
  <2>2. req[h].pc = "exists"
    BY <1>5 DEF JobExists
  <2>3. CASE To(h, "deljobs") /\ req[h].op \in {"rerun", "stop"}
    BY <1>1, <2>2, <2>3, OpsTo
  <2> QED BY <1>2, <1>3, <2>1, <2>2, <2>3
<1>6. CASE GetBindings(h)
  <2>1. PICK configset \in ConfigSets(req[h].name) :
          req' = [req EXCEPT ![h].pc = "configvars", ![h].configset = configset,
                             ![h].services = Services(req[h].name), ![h].calm = TRUE]
    BY <1>6 DEF GetBindings
  <2> DEFINE r == [req[h] EXCEPT !.pc = "configvars", !.configset = configset,
                                 !.services = Services(req[h].name), !.calm = TRUE]
  <2>2. req' = [req EXCEPT ![h] = r]
    BY <2>1
  <2>3. r.pc = "configvars" /\ r.op = req[h].op /\ r.begun = req[h].begun
    BY <1>1 DEF Request
  <2>4. configset \in SUBSET Set
    BY ConfigSetsType
  <2>5. Services(req[h].name) \in SUBSET Service
    BY DEF Services
  <2>6. r \in Request
    BY <1>1, <2>4, <2>5 DEF Request, Reading
  <2>7. req[h].pc # "idle"
    BY <1>6 DEF GetBindings
  <2> HIDE DEF r
  <2> QED BY <1>1, <2>2, <2>3, <2>6, <2>7, OpsReading
<1>7. ASSUME NEW env, NEW left, req[h].pc # "idle",
             req' = [req EXCEPT ![h] = Assembled(req[h], env, left)]
      PROVE  Ops'
  <2>1. /\ Assembled(req[h], env, left).pc \in {"services", "create"}
        /\ Assembled(req[h], env, left).op = req[h].op
        /\ Assembled(req[h], env, left).begun = req[h].begun
    BY <1>1, AssembledFields
  <2>2. OpsOK(Assembled(req[h], env, left))
    BY <1>1, <1>7, <2>1 DEF OpsOK
  <2> QED BY <1>1, <1>7, <2>2, OpsPut
<1>8. CASE ReadConfigVars(h)
  BY <1>7, <1>8 DEF ReadConfigVars
<1>9. CASE AskService(h)
  BY <1>2, <1>7, <1>9 DEF AskService
<1>10. CASE CreateJob(h) \/ CreateCronJob(h) \/ PutJob(h) \/ CreateOneOffPod(h)
  BY <1>2, <1>10 DEF CreateJob, CreateCronJob, PutJob, CreateOneOffPod
<1>11. CASE DeleteJobs(h)
  <2>1. To(h, "delpods") /\ req[h].pc = "deljobs"
    BY <1>11 DEF DeleteJobs
  <2>2. req[h].pc \in Writing /\ req[h].op \in {"rerun", "stop", "clean", "stopcron"}
    BY <1>1, <2>1 DEF OpsOK, Writing
  <2> QED BY <1>1, <2>1, <2>2, OpsTo
<1>12. CASE DeletePods(h)
  <2>1. /\ req[h].pc \in {"delpods", "podsagain"}
        /\ To(h, "bindings") \/ To(h, "podsagain") \/ Finish(h)
    BY <1>12 DEF DeletePods
  <2>2. req[h].pc \in Writing /\ req[h].op \in {"rerun", "stop", "clean", "stopcron"}
    BY <1>1, <2>1 DEF OpsOK, Writing
  <2>3. CASE To(h, "podsagain")
    BY <1>1, <2>1, <2>2, <2>3, OpsTo
  <2> QED BY <1>2, <1>3, <2>1, <2>3
<1>13. CASE GetJob(h)
  <2> DEFINE r == [req[h] EXCEPT !.pc = "putjob", !.copy = job[req[h].name]]
  <2>1. \/ req' = [req EXCEPT ![h].pc = "putjob", ![h].copy = job[req[h].name]]
           /\ job[req[h].name].run # 0
        \/ Fail(h)
    BY <1>13 DEF GetJob
  <2>2. req[h].op = "scale"
    BY <1>1, <1>13 DEF GetJob, OpsOK
  <2>3. ASSUME job[req[h].name].run # 0 PROVE OpsOK(r)
    BY <1>1, <2>2, <2>3 DEF OpsOK, Request
  <2>4. ASSUME req' = [req EXCEPT ![h].pc = "putjob", ![h].copy = job[req[h].name]]
        PROVE  req' = [req EXCEPT ![h] = r]
    BY <2>4
  <2> HIDE DEF r
  <2> QED BY <1>1, <1>2, <2>1, <2>3, <2>4, OpsPut
<1>14. CASE OneOffExists(h)
  <2>1. /\ To(h, "delpod") \/ To(h, "bindings") \/ Finish(h)
        /\ req[h].pc = "oneoffexists"
    BY <1>14 DEF OneOffExists
  <2>2. ForPod(req[h])
    BY <1>1, <2>1 DEF OpsOK
  <2>3. CASE To(h, "delpod")
    BY <1>1, <2>1, <2>2, <2>3, OpsTo
  <2> QED BY <1>2, <1>3, <2>1, <2>3
<1>15. CASE DeletePod(h)
  BY <1>2, <1>3, <1>15 DEF DeletePod
<1> QED BY <1>4, <1>5, <1>6, <1>8, <1>9, <1>10, <1>11, <1>12, <1>13, <1>14, <1>15 DEF Step

\* ... and all others keep what its progress tells.
LEMMA OpsNext ==
  ASSUME NamesAssumption, ServicesAssumption, JobsAssumption, TypeOK, Ops, [Next]_vars
  PROVE  Ops'
<1>1. RequestsOK
  BY TypeParts
<1>2. ASSUME NEW h \in Handler, RequestFailure(h) \/ AnswerLost(h)
      PROVE  Ops'
  BY <1>1, <1>2, OpsIdle DEF RequestFailure, AnswerLost, Fail
<1>3. ASSUME NEW h \in Handler, ErrorIgnored(h)
      PROVE  Ops'
  <2>1. req[h] \in Request /\ OpsOK(req[h])
    BY <1>1 DEF RequestsOK, Ops
  <2>2. CASE req[h].pc = "exists" /\ To(h, "bindings")
    BY <1>1, <2>2, OpsTo
  <2>3. CASE req[h].pc = "bindings" /\ req' = [req EXCEPT ![h].pc = "configvars"]
    <3> DEFINE r == [req[h] EXCEPT !.pc = "configvars"]
    <3>1. OpsOK(r)
      BY <2>1, <2>3 DEF OpsOK, Request
    <3>2. req' = [req EXCEPT ![h] = r]
      BY <2>3
    <3> HIDE DEF r
    <3> QED BY <1>1, <3>1, <3>2, OpsPut
  <2>4. CASE req[h].pc # "idle" /\ req' = [req EXCEPT ![h] = [req[h] EXCEPT !.pc = "bindings"]]
    <3>1. OpsOK([req[h] EXCEPT !.pc = "bindings"])
      BY <2>1, <2>4 DEF OpsOK, Request
    <3> QED BY <1>1, <2>4, <3>1, OpsPut
  <2>5. CASE req' = [req EXCEPT ![h] = NoRequest]
    <3>1. Idle(h)
      BY <2>5 DEF Idle
    <3> QED BY <1>1, <3>1, OpsIdle
  <2> QED BY <1>3, <2>2, <2>3, <2>4, <2>5 DEF ErrorIgnored
<1>4. CASE ChangeTables
  <2>1. ASSUME NEW h \in Handler PROVE OpsOK([req[h] EXCEPT !.calm = FALSE])
    BY <1>1 DEF RequestsOK, Ops, OpsOK, Request, ForPod
  <2>2. req' = [h \in Handler |-> [req[h] EXCEPT !.calm = FALSE]]
    BY <1>4 DEF ChangeTables
  <2> QED BY <2>1, <2>2 DEF Ops
<1>5. CASE UNCHANGED req
  BY <1>5 DEF Ops
<1>6. CASE \/ CreateASet \/ ChangeRows \/ UNCHANGED vars
           \/ \E n \in JobName : \/ PodsStart(n) \/ PodsScaledDown(n) \/ DeadlinePasses(n)
                                 \/ PodsEnd(n) \/ PodGone(n)
  BY <1>5, <1>6 DEF CreateASet, ChangeRows, PodsStart, PodsScaledDown, DeadlinePasses, PodsEnd,
                    PodGone, vars
<1> QED BY <1>1, <1>2, <1>3, <1>4, <1>6, OpsStart, OpsStep DEF Next

\* At first there is no request.
LEMMA OpsInit ==
  ASSUME Init
  PROVE  Ops
BY DEF Init, Ops, OpsOK, NoRequest

\* So it always holds, along with the types.
LEMMA OpsAlways == Spec => [](TypeOK /\ Ops)
<1>1. Init => TypeOK /\ Ops
  BY InitType, OpsInit, NamesAssumption, JobsAssumption
<1>2. (TypeOK /\ Ops) /\ [Next]_vars => (TypeOK /\ Ops)'
  BY NextType, OpsNext, NamesAssumption, ServicesAssumption, JobsAssumption
<1> QED BY <1>1, <1>2, PTL DEF Spec

-----------------------------------------------------------------------------
(* What runs, runs until a request says otherwise. *)

\* The only steps that change jobs or their pods.
LEMMA JobSteps ==
  ASSUME [Next]_vars
  PROVE  \/ UNCHANGED <<job, pods>>
         \/ \E h \in Handler : \/ CreateJob(h) \/ DeleteJobs(h) \/ DeletePods(h) \/ PutJob(h)
                               \/ AnswerLost(h)
         \/ \E n \in JobName : PodsStart(n) \/ PodsScaledDown(n) \/ DeadlinePasses(n)
<1>1. ASSUME NEW h \in Handler, Step(h)
      PROVE  \/ UNCHANGED <<job, pods>>
             \/ CreateJob(h) \/ DeleteJobs(h) \/ DeletePods(h) \/ PutJob(h)
  BY <1>1 DEF Step, ReadRow, JobExists, GetBindings, ReadConfigVars, AskService, CreateCronJob,
              GetJob, OneOffExists, DeletePod, CreateOneOffPod, cluster, controlled
<1>2. ASSUME NEW h \in Handler, StartRequest(h)
      PROVE  UNCHANGED <<job, pods>>
  <2>1. ASSUME NEW r, Arrive(h, r) PROVE UNCHANGED <<job, pods>>
    BY <2>1 DEF Arrive, cluster, controlled
  <2>2. ASSUME NEW op, NEW pc, NEW n, Begin(h, op, pc, n) PROVE UNCHANGED <<job, pods>>
    BY <2>1, <2>2 DEF Begin
  <2> QED BY <1>2, <2>1, <2>2
          DEF StartRequest, StartDeployJob, StartDeployCronJob, StartStopJob, StartCleanJobs,
              StartStopCronJob, StartStopOneOffPod, StartScaleJob, StartOneOff
<1>3. ASSUME NEW h \in Handler, RequestFailure(h) \/ ErrorIgnored(h)
      PROVE  UNCHANGED <<job, pods>>
  BY <1>3 DEF RequestFailure, ErrorIgnored, cluster, controlled
<1>4. CASE ChangeTables \/ CreateASet \/ ChangeRows \/ UNCHANGED vars
  BY <1>4 DEF ChangeTables, CreateASet, ChangeRows, vars, cluster, controlled
<1>5. ASSUME NEW n \in JobName, PodsEnd(n) \/ PodGone(n)
      PROVE  UNCHANGED <<job, pods>>
  BY <1>5 DEF PodsEnd, PodGone, controlled
<1> QED BY <1>1, <1>2, <1>3, <1>4, <1>5 DEF Next

\* A scaling leaves the run, and sets a deadline.
LEMMA ScaledFields ==
  ASSUME NEW j \in Job, NEW r
  PROVE  /\ Scaled(j, r).run = j.run /\ Scaled(j, r).parallelism = r.parallelism
         /\ Scaled(j, r).deadline # "none"
BY DEF Scaled, Job

\* A new run has one pod and no deadline.
LEMMA NewFields ==
  ASSUME NEW r
  PROVE  JobOfRun(r).run = r /\ JobOfRun(r).parallelism = 1 /\ JobOfRun(r).deadline = "none"
BY DEF JobOfRun, NoJob

\* Those who write a job either create it where there was none, or scale it.
LEMMA JobWritten ==
  ASSUME TypeOK, Ops, NEW h \in Handler, CreateJob(h) \/ PutJob(h) \/ AnswerLost(h)
  PROVE  /\ pods' = pods /\ req[h].pc # "idle"
         /\ \/ job' = job
            \/ /\ job[req[h].name].run = 0
               /\ job' = [job EXCEPT ![req[h].name] = JobOfRun(req[h].id)]
            \/ /\ req[h].op = "scale"
               /\ job' = [job EXCEPT ![req[h].name] = Scaled(job[req[h].name], req[h])]
<1>1. pods' = pods /\ req[h].pc # "idle"
  BY DEF CreateJob, PutJob, AnswerLost, controlled
<1>2. req[h].pc = "putjob" => req[h].op = "scale"
  BY DEF Ops, OpsOK
<1> QED BY <1>1, <1>2 DEF CreateJob, PutJob, AnswerLost

\* They leave the job of a name, and pods other than those of a job that was scaled,
\* unless they delete those of that name.
LEMMA JobKept ==
  ASSUME TypeOK, Ops, [Next]_vars, NEW n \in Name,
         \A h \in Handler : DeleteJobs(h) \/ DeletePods(h) => req[h].name # n
  PROVE  /\ job[n].run # 0 => job'[n].run = job[n].run
         /\ \A r \in pods[n] \ pods'[n] :
              r = job[n].run /\ (job[n].parallelism = 0 \/ job[n].deadline # "none")
<1>1. ClusterOK /\ RequestsOK /\ job[n] \in Job
  BY TypeParts DEF ClusterOK
<1>2. CASE UNCHANGED <<job, pods>>
  BY <1>2
<1>3. ASSUME NEW h \in Handler, CreateJob(h) \/ PutJob(h) \/ AnswerLost(h)
      PROVE  /\ job[n].run # 0 => job'[n].run = job[n].run
             /\ pods' = pods
  <2>1. req[h].name \in Name
    BY <1>1, Fields DEF RequestsOK
  <2>2. job[req[h].name] \in Job
    BY <1>1, <2>1 DEF ClusterOK
  <2>3. Scaled(job[req[h].name], req[h]).run = job[req[h].name].run
    BY <2>2, ScaledFields
  <2> QED BY <1>1, <1>3, <2>1, <2>3, JobWritten DEF ClusterOK
<1>4. ASSUME NEW h \in Handler, DeleteJobs(h) \/ DeletePods(h)
      PROVE  job'[n] = job[n] /\ pods'[n] = pods[n]
  <2>1. req[h].name # n
    BY <1>4
  <2>2. \/ job' = [job EXCEPT ![req[h].name] = NoJob] /\ pods' = pods
        \/ pods' = [pods EXCEPT ![req[h].name] = @ \ Run] /\ job' = job
    BY <1>4 DEF DeleteJobs, DeletePods, EndPods, controlled
  <2> QED BY <1>1, <2>1, <2>2 DEF ClusterOK
<1>5. ASSUME NEW m \in Name, PodsStart(m)
      PROVE  job' = job /\ pods[n] \subseteq pods'[n]
  BY <1>1, <1>5 DEF PodsStart, ClusterOK
<1>6. ASSUME NEW m \in Name, PodsScaledDown(m) \/ DeadlinePasses(m)
      PROVE  /\ job'[n].run = job[n].run
             /\ \A r \in pods[n] \ pods'[n] :
                  r = job[n].run /\ (job[n].parallelism = 0 \/ job[n].deadline # "none")
  <2>1. /\ pods' = [pods EXCEPT ![m] = @ \ {job[m].run}]
        /\ job[m].parallelism = 0 \/ job[m].deadline # "none"
    BY <1>6 DEF PodsScaledDown, DeadlinePasses, EndPods
  <2>2. job' = job \/ job' = [job EXCEPT ![m].deadline = "over"]
    BY <1>6 DEF PodsScaledDown, DeadlinePasses
  <2> QED BY <1>1, <2>1, <2>2 DEF ClusterOK, Job
<1>7. JobName \subseteq Name
  BY JobsAssumption DEF JobsAssumption
<1> QED BY <1>2, <1>3, <1>4, <1>5, <1>6, <1>7, JobSteps

\* Only scalings set deadlines, and what is created has none.
LEMMA DeadlinesAsked ==
  ASSUME TypeOK, Ops, [Next]_vars, NEW n \in Name
  PROVE  /\ job[n].deadline = "none" /\ job'[n].deadline # "none" =>
              \E h \in Handler : req[h].pc # "idle" /\ req[h].name = n /\ req[h].op = "scale"
         /\ job[n].run = 0 /\ job'[n].run # 0 => job'[n].deadline = "none"
<1>1. ClusterOK /\ RequestsOK /\ job[n] \in Job
  BY TypeParts DEF ClusterOK
<1>2. ASSUME job'[n] = job[n]
      PROVE  /\ ~(job[n].deadline = "none" /\ job'[n].deadline # "none")
             /\ ~(job[n].run = 0 /\ job'[n].run # 0)
  BY <1>2
<1>3. CASE UNCHANGED <<job, pods>>
  BY <1>2, <1>3
<1>4. ASSUME NEW h \in Handler, CreateJob(h) \/ PutJob(h) \/ AnswerLost(h)
      PROVE  /\ job[n].deadline = "none" /\ job'[n].deadline # "none" =>
                  req[h].pc # "idle" /\ req[h].name = n /\ req[h].op = "scale"
             /\ job[n].run = 0 /\ job'[n].run # 0 => job'[n].deadline = "none"
  <2>1. req[h].name \in Name
    BY <1>1, Fields DEF RequestsOK
  <2>2. CASE job' = job \/ req[h].name # n
    <3>1. job'[n] = job[n]
      BY <1>1, <1>4, <2>1, <2>2, JobWritten DEF ClusterOK
    <3> QED BY <1>2, <3>1
  <2>3. CASE req[h].name = n /\ job' = [job EXCEPT ![req[h].name] = JobOfRun(req[h].id)]
    <3>1. job'[n] = JobOfRun(req[h].id)
      BY <1>1, <2>3 DEF ClusterOK
    <3> QED BY <3>1, NewFields
  <2>4. CASE /\ req[h].name = n /\ req[h].op = "scale"
             /\ job' = [job EXCEPT ![req[h].name] = Scaled(job[req[h].name], req[h])]
    <3>1. job'[n] = Scaled(job[n], req[h])
      BY <1>1, <2>4 DEF ClusterOK
    <3>2. job'[n].run = job[n].run
      BY <1>1, <3>1, ScaledFields
    <3>3. req[h].pc # "idle"
      BY <1>4, JobWritten
    <3> QED BY <2>4, <3>2, <3>3
  <2> QED BY <1>4, <2>2, <2>3, <2>4, JobWritten
<1>5. ASSUME NEW h \in Handler, DeleteJobs(h)
      PROVE  /\ ~(job[n].deadline = "none" /\ job'[n].deadline # "none")
             /\ ~(job[n].run = 0 /\ job'[n].run # 0)
  <2>1. job' = [job EXCEPT ![req[h].name] = NoJob] /\ NoJob.deadline = "none" /\ NoJob.run = 0
    BY <1>5 DEF DeleteJobs, NoJob
  <2>2. job'[n] = job[n] \/ job'[n] = NoJob
    BY <1>1, <2>1 DEF ClusterOK
  <2> QED BY <2>1, <2>2
<1>6. ASSUME NEW m \in Name, PodsStart(m) \/ PodsScaledDown(m) \/ DeadlinePasses(m)
      PROVE  /\ ~(job[n].deadline = "none" /\ job'[n].deadline # "none")
             /\ ~(job[n].run = 0 /\ job'[n].run # 0)
  <2>1. \/ job' = job
        \/ job[m].run # 0 /\ job[m].deadline = "set" /\ job' = [job EXCEPT ![m].deadline = "over"]
    BY <1>6 DEF PodsStart, PodsScaledDown, DeadlinePasses
  <2> QED BY <1>1, <2>1 DEF ClusterOK, Job
<1>7. ASSUME NEW h \in Handler, DeletePods(h)
      PROVE  job'[n] = job[n]
  BY <1>7 DEF DeletePods
<1>8. JobName \subseteq Name
  BY JobsAssumption DEF JobsAssumption
<1> QED BY <1>2, <1>3, <1>4, <1>5, <1>6, <1>7, <1>8, JobSteps

\* No failure and no interleaving of any number of requests makes a job that runs go,
\* unless a request at work on that job deletes, stops or runs it again, nor its pods,
\* unless the job was scaled before: to nothing, or with a deadline that passes.  Only
\* a request to scale it sets one, and the next run starts without.
THEOREM JobsRunUntilToldSo == Spec => RunsUntilToldSo
<1> DEFINE asked(m, ops) == \E h \in Handler : /\ req[h].pc # "idle" /\ req[h].name = m
                                               /\ req[h].op \in ops
           scaled(m, i) == i = job[m].run /\ (job[m].parallelism = 0 \/ job[m].deadline # "none")
<1>1. ASSUME TypeOK, Ops, [Next]_vars, NEW n \in Name,
             ~asked(n, {"rerun", "stop", "clean", "stopcron"})
      PROVE  /\ ~(job[n].run # 0 /\ job'[n].run # job[n].run)
             /\ ~\E r \in pods[n] \ pods'[n] : ~scaled(n, r)
  <2>1. ASSUME NEW h \in Handler, DeleteJobs(h) \/ DeletePods(h)
        PROVE  req[h].pc # "idle" /\ req[h].op \in {"rerun", "stop", "clean", "stopcron"}
    BY <1>1, <2>1 DEF Ops, OpsOK, DeleteJobs, DeletePods
  <2> QED BY <1>1, <2>1, JobKept
<1>2. ASSUME TypeOK, Ops, [Next]_vars, NEW n \in Name
      PROVE  /\ job[n].deadline = "none" /\ job'[n].deadline # "none" => asked(n, {"scale"})
             /\ job[n].run = 0 /\ job'[n].run # 0 => job'[n].deadline = "none"
  BY <1>2, DeadlinesAsked
<1>3. TypeOK /\ Ops /\ [Next]_vars =>
        [\A n \in Name :
           /\ \/ job[n].run # 0 /\ job'[n].run # job[n].run
              \/ \E r \in pods[n] \ pods'[n] : ~scaled(n, r)
              => asked(n, {"rerun", "stop", "clean", "stopcron"})
           /\ job[n].deadline = "none" /\ job'[n].deadline # "none" => asked(n, {"scale"})
           /\ job[n].run = 0 /\ job'[n].run # 0 => job'[n].deadline = "none"]_vars
  BY <1>1, <1>2
<1> QED BY <1>3, OpsAlways, PTL DEF Spec, RunsUntilToldSo

-----------------------------------------------------------------------------
(* A job is as it was answered.  The invariant is about one name: its requests *)
(* overlap only when it is suspect, one that was alone and deleted the job has *)
(* left neither job nor pods, and otherwise what runs is what was answered.    *)

On(r, n) == r.pc # "idle" /\ ForJob(r) /\ r.name = n
Apart(n) ==
  \A h \in Handler : On(req[h], n) =>
    /\ ~req[h].alone => n \in suspect
    /\ \A o \in Handler \ {h} : On(req[o], n) => ~req[h].alone
Halfway(n) ==
  \A h \in Handler : On(req[h], n) /\ req[h].alone /\ req[h].begun =>
    job[n].run = 0 /\ (req[h].pc # "delpods" => pods[n] = {})
Answered(n) ==
  IF answered[n] = 0 THEN job[n].run = 0 /\ pods[n] = {}
  ELSE /\ job[n].run = answered[n] /\ job[n].parallelism = wanted[n]
       /\ pods[n] \subseteq {answered[n]}
AsAnswered(n) ==
  n \notin suspect /\ (\A h \in Handler : ~(On(req[h], n) /\ req[h].begun)) => Answered(n)
NameOK(n) == Apart(n) /\ Halfway(n) /\ AsAnswered(n)

\* What the invariant says of a request.
Alike(r, s) ==
  /\ s.pc = "idle" <=> r.pc = "idle"
  /\ s.pc = "delpods" <=> r.pc = "delpods"
  /\ s.op = r.op /\ s.name = r.name /\ s.alone = r.alone /\ s.begun = r.begun

\* What it says of a name, but for its requests.
NameKept(n) ==
  /\ job'[n] = job[n] /\ pods'[n] = pods[n] /\ answered'[n] = answered[n]
  /\ wanted'[n] = wanted[n] /\ (n \in suspect' <=> n \in suspect)

\* Nothing happens to a name and its requests.
LEMMA Untouched ==
  ASSUME NEW n, NameOK(n), NameKept(n),
         \A h \in Handler : \/ Alike(req[h], req'[h])
                            \/ ~On(req[h], n) /\ ~On(req'[h], n)
  PROVE  NameOK(n)'
<1>1. ASSUME NEW h \in Handler
      PROVE  /\ On(req'[h], n) <=> On(req[h], n)
             /\ On(req[h], n) => /\ req'[h].alone = req[h].alone /\ req'[h].begun = req[h].begun
                                 /\ req'[h].pc = "delpods" <=> req[h].pc = "delpods"
  BY DEF On, Alike, ForJob
<1>2. Apart(n)'
  BY <1>1 DEF NameOK, NameKept, Apart
<1>3. Halfway(n)'
  BY <1>1 DEF NameOK, NameKept, Halfway
<1>4. AsAnswered(n)'
  BY <1>1 DEF NameOK, NameKept, AsAnswered, Answered
<1> QED BY <1>2, <1>3, <1>4 DEF NameOK

\* A request of the name ends: what it leaves is as answered, or suspect.
LEMMA Ends ==
  ASSUME NEW n, NameOK(n), NEW h \in Handler, On(req[h], n), ~On(req'[h], n),
         \A o \in Handler \ {h} : req'[o] = req[o],
         n \in suspect /\ ~req[h].alone => n \in suspect',
         n \notin suspect' => Answered(n)'
  PROVE  NameOK(n)'
<1>1. ~req[h].alone => n \in suspect'
  BY DEF NameOK, Apart
<1>2. ASSUME NEW o \in Handler, On(req'[o], n)
      PROVE  On(req[o], n) /\ ~req'[o].alone /\ req'[o] = req[o] /\ o # h /\ ~req[h].alone
  BY <1>2 DEF NameOK, Apart
<1>3. Apart(n)'
  BY <1>1, <1>2 DEF Apart
<1>4. Halfway(n)'
  BY <1>2 DEF Halfway
<1>5. AsAnswered(n)'
  BY DEF AsAnswered
<1> QED BY <1>3, <1>4, <1>5 DEF NameOK

\* A request of the name writes and goes on.
LEMMA GoesOn ==
  ASSUME NEW n, NameOK(n), NEW h \in Handler, On(req[h], n), On(req'[h], n), req'[h].begun,
         req'[h].alone = req[h].alone,
         \A o \in Handler \ {h} : req'[o] = req[o],
         n \in suspect => n \in suspect',
         req[h].alone => job'[n].run = 0 /\ (req'[h].pc # "delpods" => pods'[n] = {})
  PROVE  NameOK(n)'
<1>1. ASSUME NEW o \in Handler \ {h}, On(req'[o], n)
      PROVE  On(req[o], n) /\ ~req'[o].alone /\ req'[o] = req[o] /\ ~req[h].alone
  BY <1>1 DEF NameOK, Apart
<1>2. Apart(n)'
  BY <1>1 DEF NameOK, Apart
<1>3. Halfway(n)'
  BY <1>1 DEF Halfway
<1>4. AsAnswered(n)'
  BY DEF AsAnswered
<1> QED BY <1>2, <1>3, <1>4 DEF NameOK

\* A name that is not suspect has no request but the one, so that before that writes
\* everything is as answered.
LEMMA BeforeWriting ==
  ASSUME NEW n, NameOK(n), NEW h \in Handler, On(req[h], n), ~req[h].begun, n \notin suspect
  PROVE  Answered(n)
<1>1. ASSUME NEW o \in Handler PROVE ~(On(req[o], n) /\ req[o].begun)
  BY DEF NameOK, Apart
<1> QED BY <1>1 DEF NameOK, AsAnswered

\* A request fails.
LEMMA FailAnswered ==
  ASSUME TypeOK, NEW n \in Name, NameOK(n), NEW h \in Handler, req[h].pc # "idle",
         Fail(h), UNCHANGED <<job, pods>>
  PROVE  NameOK(n)'
<1>1. RequestsOK
  BY TypeParts
<1>2. \A o \in Handler \ {h} : req'[o] = req[o]
  BY <1>1 DEF Fail, Idle, RequestsOK
<1>3. ~On(req'[h], n)
  BY <1>1 DEF Fail, Idle, RequestsOK, On, NoRequest
<1>4. UNCHANGED <<answered, wanted>>
  BY DEF Fail
<1>5. CASE On(req[h], n)
  <2>1. n \in suspect => n \in suspect'
    BY DEF Fail
  <2>2. ASSUME n \notin suspect' PROVE Answered(n)'
    <3>1. ~req[h].begun
      BY <1>5, <2>2 DEF Fail, On
    <3>2. Answered(n)
      BY <1>5, <2>1, <2>2, <3>1, BeforeWriting
    <3> QED BY <1>4, <3>2 DEF Answered
  <2> QED BY <1>2, <1>3, <1>5, <2>1, <2>2, Ends
<1>6. CASE ~On(req[h], n)
  <2>1. n \in suspect' <=> n \in suspect
    BY <1>6 DEF Fail, On
  <2>2. NameKept(n)
    BY <1>4, <2>1 DEF NameKept
  <2>3. \A o \in Handler \ {h} : Alike(req[o], req'[o])
    BY <1>2 DEF Alike
  <2> QED BY <1>3, <1>6, <2>2, <2>3, Untouched
<1> QED BY <1>5, <1>6

\* A request ends well, and with it a write: other names are left alone.
LEMMA FinishAnswered ==
  ASSUME TypeOK, NEW n \in Name, NameOK(n), NEW h \in Handler, req[h].pc # "idle", Finish(h),
         ~On(req[h], n) => job'[n] = job[n] /\ pods'[n] = pods[n],
         On(req[h], n) /\ n \notin suspect' => Answered(n)'
  PROVE  NameOK(n)'
<1>1. RequestsOK /\ GhostsOK /\ req[h].name \in Name
  BY TypeParts, Fields DEF RequestsOK
<1>2. \A o \in Handler \ {h} : req'[o] = req[o]
  BY <1>1 DEF Finish, Idle, RequestsOK
<1>3. ~On(req'[h], n)
  BY <1>1 DEF Finish, Idle, RequestsOK, On, NoRequest
<1>4. CASE On(req[h], n)
  <2>1. n \in suspect /\ ~req[h].alone => n \in suspect'
    BY DEF Finish
  <2> QED BY <1>2, <1>3, <1>4, <2>1, Ends
<1>5. CASE ~On(req[h], n)
  <2>1. req[h].name = n => ~ForJob(req[h])
    BY <1>5 DEF On
  <2>2. n \in suspect' <=> n \in suspect
    BY <2>1 DEF Finish
  <2>3. answered'[n] = answered[n]
    BY <1>1, <2>1 DEF Finish, ForJob, GhostsOK
  <2>4. wanted'[n] = wanted[n]
    BY <1>1, <2>1 DEF Finish, ForJob, GhostsOK
  <2>5. NameKept(n)
    BY <1>5, <2>2, <2>3, <2>4 DEF NameKept
  <2>6. \A o \in Handler \ {h} : Alike(req[o], req'[o])
    BY <1>2 DEF Alike
  <2> QED BY <1>3, <1>5, <2>5, <2>6, Untouched
<1> QED BY <1>4, <1>5

\* A request goes on without a write.
LEMMA QuietAnswered ==
  ASSUME RequestsOK, NEW n \in Name, NameOK(n), NEW h \in Handler,
         NEW r, Alike(req[h], r), req' = [req EXCEPT ![h] = r],
         UNCHANGED <<job, pods, answered, wanted, suspect>>
  PROVE  NameOK(n)'
<1>1. \A o \in Handler : Alike(req[o], req'[o])
  BY DEF Alike, RequestsOK
<1>2. NameKept(n)
  BY DEF NameKept
<1> QED BY <1>1, <1>2, Untouched

\* Going on without a write changes nothing the invariant is about.
LEMMA ToAlike ==
  ASSUME RequestsOK, NEW h \in Handler, NEW pc, To(h, pc), pc \notin {"idle", "delpods"},
         req[h].pc \notin {"idle", "delpods"} \union Writing
  PROVE  \E r : Alike(req[h], r) /\ req' = [req EXCEPT ![h] = r]
<1> DEFINE r == [req[h] EXCEPT !.pc = pc, !.begun = req[h].begun \/ req[h].pc \in Writing]
<1>1. req[h] \in Request
  BY DEF RequestsOK
<1>2. (req[h].begun \/ req[h].pc \in Writing) = req[h].begun
  BY <1>1, Fields
<1>3. Alike(req[h], r)
  BY <1>1, <1>2 DEF Alike, Request
<1>4. req' = [req EXCEPT ![h] = r]
  BY DEF To
<1> HIDE DEF r
<1> QED BY <1>3, <1>4

\* A request for a one-off pod, as far as jobs are concerned, does nothing.
LEMMA PodAnswered ==
  ASSUME RequestsOK, NEW n \in Name, NameOK(n), NEW h \in Handler,
         \A o \in Handler \ {h} : req'[o] = req[o],
         ~ForJob(req[h]), req'[h].pc = "idle" \/ ~ForJob(req'[h]),
         UNCHANGED <<job, pods, answered, wanted, suspect>>
  PROVE  NameOK(n)'
<1>1. \A o \in Handler \ {h} : Alike(req[o], req'[o])
  BY DEF Alike
<1>2. ~On(req[h], n) /\ ~On(req'[h], n)
  BY DEF On
<1>3. NameKept(n)
  BY DEF NameKept
<1> QED BY <1>1, <1>2, <1>3, Untouched

\* A request arrives: those it finds at work on the same job are not alone any more.
LEMMA ArriveAnswered ==
  ASSUME TypeOK, NEW n \in Name, NameOK(n), NEW h \in Handler, NEW r \in Request,
         r.pc # "idle", ~r.begun, Arrive(h, r)
  PROVE  NameOK(n)'
<1> DEFINE others == {o \in Handler : /\ req[o].pc # "idle" /\ req[o].name = r.name
                                      /\ \/ ForJob(r) /\ ForJob(req[o])
                                         \/ ForPod(r) /\ ForPod(req[o])}
           alone == others = {}
<1>1. RequestsOK /\ req[h].pc = "idle"
  BY TypeParts DEF Arrive
<1>2. req' = [o \in Handler |->
                IF o = h THEN [r EXCEPT !.id = requests + 1, !.alone = alone]
                ELSE IF o \in others THEN [req[o] EXCEPT !.alone = FALSE] ELSE req[o]]
  BY Zenon DEF Arrive
<1>3. suspect' = IF others # {} /\ ForJob(r) THEN suspect \union {r.name} ELSE suspect
  BY Zenon DEF Arrive
<1>4. UNCHANGED <<job, pods, answered, wanted>>
  BY DEF Arrive, cluster, controlled
<1>5. h \notin others
  BY <1>1
<1>6. alone <=> others = {}
  OBVIOUS
<1> HIDE DEF alone
<1>7. /\ req'[h].begun = r.begun /\ req'[h].alone = alone
      /\ On(req'[h], n) <=> On(r, n)
  BY <1>2 DEF Request, On, ForJob
<1>8. ASSUME NEW o \in Handler \ {h}
      PROVE  /\ o \in others => /\ req'[o].alone = FALSE /\ req'[o].begun = req[o].begun
                                /\ req'[o].pc = req[o].pc /\ (On(req'[o], n) <=> On(req[o], n))
             /\ o \notin others => req'[o] = req[o]
  <2>1. req[o] \in Request
    BY <1>1 DEF RequestsOK
  <2> QED BY <1>2, <2>1 DEF Request, On, ForJob
<1>9. ~On(req[h], n)
  BY <1>1 DEF On
<1>10. ASSUME NEW o \in Handler, On(r, n)
       PROVE  o \in others <=> On(req[o], n)
  BY <1>10 DEF On, ForJob, ForPod
<1>11. ASSUME NEW o \in Handler, ~On(r, n), o \in others
       PROVE  ~On(req[o], n)
  BY <1>11 DEF On, ForJob, ForPod
<1> HIDE DEF others
<1>12. CASE On(r, n) /\ others = {}
  <2>1. suspect' = suspect
    BY <1>3, <1>12
  <2>2. \A o \in Handler \ {h} : req'[o] = req[o] /\ ~On(req[o], n)
    BY <1>8, <1>10, <1>12
  <2>3. /\ req'[h].alone /\ ~req'[h].begun
        /\ \A o \in Handler : ~On(req[o], n)
    BY <1>6, <1>7, <1>9, <1>12, <2>2
  <2>4. Apart(n)'
    BY <2>2, <2>3 DEF Apart
  <2>5. Halfway(n)'
    BY <2>2, <2>3 DEF Halfway
  <2>6. AsAnswered(n)'
    BY <1>4, <2>1, <2>3 DEF NameOK, AsAnswered, Answered
  <2> QED BY <2>4, <2>5, <2>6 DEF NameOK
<1>13. CASE On(r, n) /\ others # {}
  <2>1. n \in suspect'
    BY <1>3, <1>13 DEF On
  <2>2. ASSUME NEW o \in Handler, On(req'[o], n) PROVE ~req'[o].alone
    BY <1>6, <1>7, <1>8, <1>10, <1>13, <2>2
  <2>3. Apart(n)' /\ Halfway(n)' /\ AsAnswered(n)'
    BY <2>1, <2>2 DEF Apart, Halfway, AsAnswered
  <2> QED BY <2>3 DEF NameOK
<1>14. CASE ~On(r, n)
  <2>1. ~On(req'[h], n)
    BY <1>7, <1>14
  <2>2. ASSUME NEW o \in Handler \ {h}
        PROVE  \/ Alike(req[o], req'[o])
               \/ ~On(req[o], n) /\ ~On(req'[o], n)
    BY <1>8, <1>11, <1>14 DEF Alike
  <2>3. n \in suspect' <=> n \in suspect
    BY <1>3, <1>14 DEF On
  <2>4. NameKept(n)
    BY <1>4, <2>3 DEF NameKept
  <2> QED BY <1>9, <2>1, <2>2, <2>4, Untouched
<1> QED BY <1>12, <1>13, <1>14

\* The steps that read ...
LEMMA ReadingAnswered ==
  ASSUME TypeOK, Ops, NEW n \in Name, NameOK(n), NEW h \in Handler,
         \/ ReadRow(h) \/ JobExists(h) \/ GetBindings(h) \/ ReadConfigVars(h) \/ AskService(h)
         \/ GetJob(h) \/ CreateCronJob(h)
  PROVE  NameOK(n)'
<1>1. RequestsOK /\ req[h] \in Request
  BY TypeParts DEF RequestsOK
<1>2. UNCHANGED <<job, pods>>
  BY DEF ReadRow, JobExists, GetBindings, ReadConfigVars, AskService, GetJob, CreateCronJob, cluster, controlled
<1>3. ASSUME req[h].pc # "idle", Fail(h) PROVE NameOK(n)'
  BY <1>2, <1>3, FailAnswered
<1>4. ASSUME UNCHANGED ghosts PROVE UNCHANGED <<job, pods, answered, wanted, suspect>>
  BY <1>2, <1>4 DEF ghosts
<1>5. ASSUME req[h].pc \in {"row", "exists"}, UNCHANGED ghosts,
             To(h, "exists") \/ To(h, "bindings") \/ To(h, "deljobs")
      PROVE  NameOK(n)'
  <2>1. req[h].pc \notin {"idle", "delpods"} \union Writing
    BY <1>5 DEF Writing
  <2>2. \E r : Alike(req[h], r) /\ req' = [req EXCEPT ![h] = r]
    BY <1>1, <1>5, <2>1, ToAlike
  <2> QED BY <1>1, <1>4, <1>5, <2>2, QuietAnswered
<1>6. CASE ReadRow(h)
  BY <1>3, <1>5, <1>6 DEF ReadRow
<1>7. CASE JobExists(h)
  BY <1>3, <1>5, <1>7 DEF JobExists
<1>8. CASE GetBindings(h)
  <2>1. PICK configset \in ConfigSets(req[h].name) :
          req' = [req EXCEPT ![h].pc = "configvars", ![h].configset = configset,
                             ![h].services = Services(req[h].name), ![h].calm = TRUE]
    BY <1>8 DEF GetBindings
  <2> DEFINE r == [req[h] EXCEPT !.pc = "configvars", !.configset = configset,
                                 !.services = Services(req[h].name), !.calm = TRUE]
  <2>2. req' = [req EXCEPT ![h] = r]
    BY <2>1
  <2>3. req[h].pc = "bindings" /\ UNCHANGED ghosts
    BY <1>8 DEF GetBindings
  <2>4. Alike(req[h], r)
    BY <1>1, <2>3 DEF Alike, Request
  <2> HIDE DEF r
  <2> QED BY <1>1, <1>4, <2>2, <2>3, <2>4, QuietAnswered
<1>9. ASSUME NEW env, NEW left, req' = [req EXCEPT ![h] = Assembled(req[h], env, left)],
             req[h].pc \in {"configvars", "services"}, UNCHANGED ghosts
      PROVE  NameOK(n)'
  <2>1. Alike(req[h], Assembled(req[h], env, left))
    BY <1>1, <1>9, AssembledFields DEF Alike
  <2> QED BY <1>1, <1>4, <1>9, <2>1, QuietAnswered
<1>10. CASE ReadConfigVars(h)
  BY <1>9, <1>10 DEF ReadConfigVars
<1>11. CASE AskService(h)
  BY <1>3, <1>9, <1>11 DEF AskService
<1>12. CASE GetJob(h)
  <2> DEFINE r == [req[h] EXCEPT !.pc = "putjob", !.copy = job[req[h].name]]
  <2>1. ASSUME req' = [req EXCEPT ![h].pc = "putjob", ![h].copy = job[req[h].name]]
        PROVE  req' = [req EXCEPT ![h] = r]
    BY <2>1
  <2>2. Alike(req[h], r)
    BY <1>1, <1>12 DEF Alike, Request, GetJob
  <2>3. \/ req' = [req EXCEPT ![h].pc = "putjob", ![h].copy = job[req[h].name]] /\ UNCHANGED ghosts
        \/ Fail(h)
    BY <1>12 DEF GetJob
  <2>4. req[h].pc = "getjob"
    BY <1>12 DEF GetJob
  <2> HIDE DEF r
  <2> QED BY <1>1, <1>3, <1>4, <2>1, <2>2, <2>3, <2>4, QuietAnswered
<1>13. CASE CreateCronJob(h)
  BY <1>3, <1>13 DEF CreateCronJob
<1> QED BY <1>6, <1>7, <1>8, <1>10, <1>11, <1>12, <1>13

\* ... those that write a job: one is created only where there was none, ...
LEMMA FinishAlone ==
  ASSUME NEW n, NameOK(n), NEW h \in Handler, On(req[h], n), Finish(h), n \notin suspect'
  PROVE  req[h].alone
BY DEF NameOK, Apart, Finish

\* ... and with it the name has a new run, and no pods of another, ...
LEMMA CreateJobAnswered ==
  ASSUME TypeOK, Ops, NEW n \in Name, NameOK(n), NEW h \in Handler, CreateJob(h)
  PROVE  NameOK(n)'
<1>1. /\ ClusterOK /\ GhostsOK /\ req[h].name \in Name /\ req[h].begun \in BOOLEAN
      /\ req[h].pc = "create" /\ req[h].op \in {"run", "rerun"} /\ pods' = pods
  BY TypeParts, Fields DEF RequestsOK, CreateJob, controlled
<1>2. CASE Fail(h) /\ UNCHANGED job
  BY <1>1, <1>2, FailAnswered
<1>3. CASE /\ job[req[h].name].run = 0 /\ Finish(h)
           /\ job' = [job EXCEPT ![req[h].name] = JobOfRun(req[h].id)]
  <2>1. req[h].name # n => job'[n] = job[n]
    BY <1>1, <1>3 DEF ClusterOK
  <2>2. ForJob(req[h])
    BY <1>1 DEF ForJob
  <2>3. ASSUME On(req[h], n), n \notin suspect'
        PROVE  Answered(n)'
    <3>1. req[h].name = n /\ job[n].run = 0
      BY <1>3, <2>3 DEF On
    <3>2. pods[n] = {}
      <4>1. CASE req[h].begun
        BY <1>1, <1>3, <2>3, <4>1, FinishAlone DEF NameOK, Halfway
      <4>2. CASE ~req[h].begun
        <5>1. n \notin suspect
          BY <1>1, <1>3, <2>3, <4>2 DEF Finish, Writing
        <5>2. Answered(n)
          BY <2>3, <4>2, <5>1, BeforeWriting
        <5> QED BY <3>1, <5>2 DEF Answered
      <4> QED BY <4>1, <4>2
    <3>3. answered'[n] = req[h].id
      BY <1>1, <1>3, <3>1 DEF Finish, GhostsOK
    <3>4. wanted'[n] = 1
      BY <1>1, <1>3, <3>1 DEF Finish, GhostsOK
    <3>5. job'[n].run = req[h].id /\ job'[n].parallelism = 1
      BY <1>1, <1>3, <3>1, NewFields DEF ClusterOK
    <3> QED BY <1>1, <3>2, <3>3, <3>4, <3>5 DEF Answered
  <2> QED BY <1>1, <1>3, <2>1, <2>2, <2>3, FinishAnswered DEF On
<1> QED BY <1>2, <1>3 DEF CreateJob

\* ... deleting one leaves its pods, ...
LEMMA DeleteJobsAnswered ==
  ASSUME TypeOK, Ops, NEW n \in Name, NameOK(n), NEW h \in Handler, DeleteJobs(h)
  PROVE  NameOK(n)'
<1>1. /\ RequestsOK /\ ClusterOK /\ req[h] \in Request /\ req[h].name \in Name
      /\ req[h].pc = "deljobs"
  BY TypeParts, Fields DEF RequestsOK, DeleteJobs
<1>2. req[h].op \in {"rerun", "stop", "clean", "stopcron"}
  BY <1>1 DEF Ops, OpsOK
<1>3. req' = [req EXCEPT ![h].pc = "delpods", ![h].begun = req[h].begun \/ req[h].pc \in Writing]
  BY DEF DeleteJobs, To
<1>4. \A o \in Handler \ {h} : req'[o] = req[o]
  BY <1>1, <1>3 DEF RequestsOK
<1>5. "deljobs" \in Writing
  BY DEF Writing
<1>6. /\ req'[h].pc = "delpods" /\ req'[h].begun /\ req'[h].alone = req[h].alone
      /\ req'[h].name = req[h].name /\ req'[h].op = req[h].op
  BY <1>1, <1>3, <1>5 DEF RequestsOK, Request
<1>7. UNCHANGED <<pods, answered, wanted, suspect>>
  BY DEF DeleteJobs, controlled, ghosts
<1>8. CASE req[h].name = n
  <2>1. job'[n].run = 0
    BY <1>1, <1>8 DEF DeleteJobs, ClusterOK, NoJob
  <2>2. On(req[h], n) /\ On(req'[h], n)
    BY <1>1, <1>2, <1>6, <1>8 DEF On, ForJob
  <2> QED BY <1>4, <1>6, <1>7, <2>1, <2>2, GoesOn
<1>9. CASE req[h].name # n
  <2>1. job'[n] = job[n]
    BY <1>1, <1>9 DEF DeleteJobs, ClusterOK
  <2>2. NameKept(n)
    BY <1>7, <2>1 DEF NameKept
  <2>3. ~On(req[h], n) /\ ~On(req'[h], n)
    BY <1>6, <1>9 DEF On
  <2>4. \A o \in Handler \ {h} : Alike(req[o], req'[o])
    BY <1>4 DEF Alike
  <2> QED BY <2>2, <2>3, <2>4, Untouched
<1> QED BY <1>8, <1>9

\* ... which are deleted after it, ...
LEMMA DeletePodsAnswered ==
  ASSUME TypeOK, Ops, NEW n \in Name, NameOK(n), NEW h \in Handler, DeletePods(h)
  PROVE  NameOK(n)'
<1>1. /\ RequestsOK /\ ClusterOK /\ GhostsOK /\ req[h] \in Request /\ req[h].name \in Name
      /\ req[h].pc \in {"delpods", "podsagain"}
  BY TypeParts, Fields DEF RequestsOK, DeletePods
<1>2. req[h].op \in {"rerun", "stop", "clean", "stopcron"} /\ req[h].begun
  BY <1>1 DEF Ops, OpsOK
<1>3. ForJob(req[h]) /\ req[h].pc # "idle" /\ req[h].pc \in Writing
  BY <1>1, <1>2 DEF ForJob, Writing
<1>4. /\ job' = job /\ pods' = [pods EXCEPT ![req[h].name] = @ \ Run]
      /\ \/ To(h, "bindings") /\ UNCHANGED ghosts
         \/ To(h, "podsagain") /\ UNCHANGED ghosts
         \/ req[h].op # "rerun" /\ Finish(h)
  BY DEF DeletePods, EndPods
<1>5. /\ pods'[req[h].name] = {}
      /\ n # req[h].name => pods'[n] = pods[n]
  BY <1>1, <1>4 DEF ClusterOK
<1>6. On(req[h], n) /\ req[h].alone => job[n].run = 0
  BY <1>2 DEF NameOK, Halfway
<1>7. ASSUME NEW pc \in {"bindings", "podsagain"}, To(h, pc), UNCHANGED ghosts
      PROVE  NameOK(n)'
  <2>1. req' = [req EXCEPT ![h].pc = pc, ![h].begun = req[h].begun \/ req[h].pc \in Writing]
    BY <1>7 DEF To
  <2>2. \A o \in Handler \ {h} : req'[o] = req[o]
    BY <1>1, <2>1 DEF RequestsOK
  <2>3. /\ req'[h].pc = pc /\ req'[h].begun /\ req'[h].alone = req[h].alone
        /\ req'[h].name = req[h].name /\ req'[h].op = req[h].op
    BY <1>1, <1>3, <2>1 DEF RequestsOK, Request
  <2>4. UNCHANGED <<answered, wanted, suspect>>
    BY <1>7 DEF ghosts
  <2>5. CASE req[h].name = n
    <3>1. On(req[h], n) /\ On(req'[h], n)
      BY <1>3, <1>7, <2>3, <2>5 DEF On, ForJob
    <3> QED BY <1>4, <1>5, <1>6, <2>2, <2>3, <2>4, <2>5, <3>1, GoesOn
  <2>6. CASE req[h].name # n
    <3>1. NameKept(n)
      BY <1>4, <1>5, <2>4, <2>6 DEF NameKept
    <3>2. ~On(req[h], n) /\ ~On(req'[h], n)
      BY <2>3, <2>6 DEF On
    <3>3. \A o \in Handler \ {h} : Alike(req[o], req'[o])
      BY <2>2 DEF Alike
    <3> QED BY <3>1, <3>2, <3>3, Untouched
  <2> QED BY <2>5, <2>6
<1>8. CASE req[h].op # "rerun" /\ Finish(h)
  <2>1. ASSUME On(req[h], n), n \notin suspect'
        PROVE  Answered(n)'
    <3>1. req[h].name = n /\ job[n].run = 0
      BY <1>6, <1>8, <2>1, FinishAlone DEF On
    <3>2. answered'[n] = 0
      BY <1>1, <1>2, <1>8, <3>1 DEF Finish, GhostsOK
    <3> QED BY <1>4, <1>5, <3>1, <3>2 DEF Answered
  <2> QED BY <1>3, <1>4, <1>5, <1>8, <2>1, FinishAnswered DEF On
<1> QED BY <1>4, <1>7, <1>8

\* ... and one is scaled only as it was read.
LEMMA PutJobAnswered ==
  ASSUME TypeOK, Ops, NEW n \in Name, NameOK(n), NEW h \in Handler, PutJob(h)
  PROVE  NameOK(n)'
<1>1. /\ ClusterOK /\ GhostsOK /\ req[h].name \in Name /\ req[h].pc = "putjob" /\ pods' = pods
      /\ req[h].parallelism \in Parallelism
  BY TypeParts, Fields DEF RequestsOK, PutJob, controlled
<1>2. req[h].op = "scale" /\ req[h].copy.run # 0 /\ ~req[h].begun
  BY <1>1 DEF Ops, OpsOK
<1>3. CASE Fail(h) /\ UNCHANGED job
  BY <1>1, <1>3, FailAnswered
<1>4. CASE /\ job[req[h].name] = req[h].copy /\ Finish(h)
           /\ job' = [job EXCEPT ![req[h].name] = Scaled(job[req[h].name], req[h])]
  <2>1. req[h].name # n => job'[n] = job[n]
    BY <1>1, <1>4 DEF ClusterOK
  <2>2. ForJob(req[h])
    BY <1>2 DEF ForJob
  <2>3. ASSUME On(req[h], n), n \notin suspect'
        PROVE  Answered(n)'
    <3>1. n \notin suspect
      BY <1>2, <1>4, <2>3 DEF Finish
    <3>2. Answered(n) /\ req[h].name = n
      BY <1>2, <2>3, <3>1, BeforeWriting DEF On
    <3>3. job[n].run = answered[n] /\ pods[n] \subseteq {answered[n]} /\ answered[n] # 0
      BY <1>2, <1>4, <3>2 DEF Answered
    <3>4. job'[n].run = job[n].run /\ job'[n].parallelism = req[h].parallelism
      BY <1>1, <1>4, <3>2, ScaledFields DEF ClusterOK
    <3>5. answered' = answered /\ wanted'[n] = req[h].parallelism
      BY <1>1, <1>2, <1>4, <3>2 DEF Finish, GhostsOK
    <3> QED BY <1>1, <3>3, <3>4, <3>5 DEF Answered
  <2> QED BY <1>1, <1>4, <2>1, <2>2, <2>3, FinishAnswered DEF On
<1> QED BY <1>3, <1>4 DEF PutJob

\* The steps of one-off pods.
LEMMA OneOffAnswered ==
  ASSUME TypeOK, Ops, NEW n \in Name, NameOK(n), NEW h \in Handler,
         OneOffExists(h) \/ DeletePod(h) \/ CreateOneOffPod(h)
  PROVE  NameOK(n)'
<1>1. RequestsOK /\ req[h] \in Request
  BY TypeParts DEF RequestsOK
<1>2. UNCHANGED <<job, pods>> /\ req[h].pc # "idle"
  BY DEF OneOffExists, DeletePod, CreateOneOffPod, cluster, controlled
<1>3. ~ForJob(req[h])
  BY DEF OneOffExists, DeletePod, CreateOneOffPod, Ops, OpsOK, ForPod, ForJob
<1>4. CASE Finish(h)
  <2>1. ~On(req[h], n)
    BY <1>3 DEF On
  <2> QED BY <1>2, <1>4, <2>1, FinishAnswered
<1>5. ASSUME NEW pc, To(h, pc), UNCHANGED ghosts
      PROVE  NameOK(n)'
  <2>1. \A o \in Handler \ {h} : req'[o] = req[o]
    BY <1>1, <1>5 DEF To, RequestsOK
  <2>2. req'[h].op = req[h].op
    BY <1>1, <1>5 DEF To, RequestsOK, Request
  <2>3. ~ForJob(req'[h])
    BY <1>3, <2>2 DEF ForJob
  <2>4. UNCHANGED <<answered, wanted, suspect>>
    BY <1>5 DEF ghosts
  <2> QED BY <1>1, <1>2, <1>3, <2>1, <2>3, <2>4, PodAnswered
<1>6. \/ Finish(h)
      \/ To(h, "bindings") /\ UNCHANGED ghosts
      \/ To(h, "delpod") /\ UNCHANGED ghosts
  BY DEF OneOffExists, DeletePod, CreateOneOffPod
<1> QED BY <1>4, <1>5, <1>6

\* Failures, and answers that are lost.
LEMMA FailureAnswered ==
  ASSUME TypeOK, Ops, NEW n \in Name, NameOK(n), NEW h \in Handler,
         RequestFailure(h) \/ AnswerLost(h) \/ ErrorIgnored(h)
  PROVE  NameOK(n)'
<1>1. RequestsOK /\ ClusterOK /\ req[h] \in Request /\ req[h].name \in Name /\ OpsOK(req[h])
  BY TypeParts, Fields DEF RequestsOK, Ops
<1>2. CASE RequestFailure(h)
  BY <1>2, FailAnswered DEF RequestFailure, cluster, controlled
<1>3. CASE AnswerLost(h)
  <2>1. ForJob(req[h]) /\ req[h].pc # "idle"
    BY <1>1, <1>3 DEF AnswerLost, OpsOK, ForJob
  <2>2. /\ pods' = pods /\ answered' = answered /\ wanted' = wanted /\ Idle(h)
        /\ suspect' = suspect \union {req[h].name}
    BY <1>3 DEF AnswerLost, controlled
  <2>3. \A o \in Handler \ {h} : req'[o] = req[o]
    BY <1>1, <2>2 DEF Idle, RequestsOK
  <2>4. ~On(req'[h], n)
    BY <1>1, <2>2 DEF Idle, RequestsOK, On, NoRequest
  <2>5. CASE req[h].name = n
    BY <2>1, <2>2, <2>3, <2>4, <2>5, Ends DEF On
  <2>6. CASE req[h].name # n
    <3>1. job'[n] = job[n]
      BY <1>1, <1>3, <2>6 DEF AnswerLost, ClusterOK
    <3>2. NameKept(n)
      BY <2>2, <2>6, <3>1 DEF NameKept
    <3>3. \A o \in Handler \ {h} : Alike(req[o], req'[o])
      BY <2>3 DEF Alike
    <3>4. ~On(req[h], n)
      BY <2>6 DEF On
    <3> QED BY <2>4, <3>2, <3>3, <3>4, Untouched
  <2> QED BY <2>5, <2>6
<1>4. CASE ErrorIgnored(h)
  <2>1. UNCHANGED <<job, pods, answered, wanted, suspect>>
    BY <1>4 DEF ErrorIgnored, cluster, controlled, ghosts
  <2>2. CASE req[h].pc = "exists" /\ To(h, "bindings")
    <3>1. req[h].pc \notin {"idle", "delpods"} \union Writing
      BY <2>2 DEF Writing
    <3>2. \E r : Alike(req[h], r) /\ req' = [req EXCEPT ![h] = r]
      BY <1>1, <2>2, <3>1, ToAlike
    <3> QED BY <1>1, <2>1, <3>2, QuietAnswered
  <2>3. CASE req[h].pc = "bindings" /\ req' = [req EXCEPT ![h].pc = "configvars"]
    <3> DEFINE r == [req[h] EXCEPT !.pc = "configvars"]
    <3>1. Alike(req[h], r)
      BY <1>1, <2>3 DEF Alike, Request
    <3>2. req' = [req EXCEPT ![h] = r]
      BY <2>3
    <3> HIDE DEF r
    <3> QED BY <1>1, <2>1, <3>1, <3>2, QuietAnswered
  <2>4. CASE /\ req[h].pc \in {"oneoffexists", "delpod"}
             /\ req' = [req EXCEPT ![h] = IF req[h].op = "oneoff" THEN [req[h] EXCEPT !.pc = "bindings"]
                                          ELSE NoRequest]
    <3>1. ~ForJob(req[h])
      BY <1>1, <2>4 DEF OpsOK, ForPod, ForJob
    <3>2. \A o \in Handler \ {h} : req'[o] = req[o]
      BY <1>1, <2>4 DEF RequestsOK
    <3>3. req'[h] = [req[h] EXCEPT !.pc = "bindings"] \/ req'[h] = NoRequest
      BY <1>1, <2>4 DEF RequestsOK
    <3>4. req'[h].pc = "idle" \/ ~ForJob(req'[h])
      BY <1>1, <3>1, <3>3 DEF NoRequest, ForJob, Request
    <3> QED BY <1>1, <2>1, <3>1, <3>2, <3>4, PodAnswered
  <2> QED BY <1>4, <2>2, <2>3, <2>4 DEF ErrorIgnored
<1> QED BY <1>2, <1>3, <1>4

\* Requests that arrive begin without having written anything.
LEMMA StartAnswered ==
  ASSUME TypeOK, NEW n \in Name, NameOK(n), NEW h \in Handler, StartRequest(h)
  PROVE  NameOK(n)'
<1>1. NoRequest \in Request /\ NoRequest.begun = FALSE
  BY EmptyTypes, NamesAssumption, JobsAssumption DEF NoRequest
<1>2. PICK m \in Name :
        \/ \E delete \in BOOLEAN : StartDeployJob(h, m, delete)
        \/ StartDeployCronJob(h, m) \/ StartStopJob(h, m) \/ StartCleanJobs(h, m)
        \/ StartStopCronJob(h, m) \/ StartStopOneOffPod(h, m)
        \/ \E k \in Parallelism : StartScaleJob(h, m, k)
        \/ \E env \in Env : StartOneOff(h, m, env)
  BY JobsAssumption DEF StartRequest, JobsAssumption
<1>3. ASSUME NEW op \in Op, NEW pc \in (Reading \union Writing), Begin(h, op, pc, m)
      PROVE  NameOK(n)'
  <2> DEFINE r == [NoRequest EXCEPT !.op = op, !.pc = pc, !.name = m]
  <2>1. r \in Request /\ r.begun = FALSE /\ r.pc = pc
    BY <1>1 DEF Request
  <2>2. pc # "idle"
    BY DEF Reading, Writing
  <2>3. Arrive(h, r)
    BY <1>3 DEF Begin
  <2> HIDE DEF r
  <2> QED BY <2>1, <2>2, <2>3, ArriveAnswered
<1>4. CASE \E delete \in BOOLEAN : StartDeployJob(h, m, delete)
  <2>1. Begin(h, "run", "row", m) \/ Begin(h, "rerun", "row", m)
    BY <1>4 DEF StartDeployJob
  <2> QED BY <1>3, <2>1 DEF Op, Reading
<1>5. CASE StartDeployCronJob(h, m) \/ StartStopJob(h, m) \/ StartStopOneOffPod(h, m)
  BY <1>3, <1>5 DEF StartDeployCronJob, StartStopJob, StartStopOneOffPod, Op, Reading
<1>6. CASE StartCleanJobs(h, m) \/ StartStopCronJob(h, m)
  BY <1>3, <1>6 DEF StartCleanJobs, StartStopCronJob, Op, Writing
<1>7. ASSUME NEW k \in Parallelism, StartScaleJob(h, m, k)
      PROVE  NameOK(n)'
  <2> DEFINE r == [NoRequest EXCEPT !.op = "scale", !.pc = "getjob", !.name = m, !.parallelism = k]
  <2>1. r \in Request /\ r.begun = FALSE /\ r.pc = "getjob"
    BY <1>1 DEF Request, Op, Reading
  <2>2. Arrive(h, r)
    BY <1>7 DEF StartScaleJob
  <2> HIDE DEF r
  <2> QED BY <2>1, <2>2, ArriveAnswered
<1>8. ASSUME NEW env \in Env, StartOneOff(h, m, env)
      PROVE  NameOK(n)'
  <2> DEFINE r == [NoRequest EXCEPT !.op = "oneoff", !.pc = "oneoffexists", !.name = m, !.extra = env]
  <2>1. r \in Request /\ r.begun = FALSE /\ r.pc = "oneoffexists"
    BY <1>1 DEF Request, Op, Reading
  <2>2. Arrive(h, r)
    BY <1>8 DEF StartOneOff
  <2> HIDE DEF r
  <2> QED BY <2>1, <2>2, ArriveAnswered
<1> QED BY <1>2, <1>4, <1>5, <1>6, <1>7, <1>8

\* What others do: the tables do not matter, and pods are started for a job only while
\* there is one, so not between its deletion and the answer.
LEMMA OthersAnswered ==
  ASSUME TypeOK, NEW n \in Name, NameOK(n),
         \/ ChangeTables \/ CreateASet \/ ChangeRows \/ UNCHANGED vars
         \/ \E m \in JobName : \/ PodsStart(m) \/ PodsScaledDown(m) \/ DeadlinePasses(m)
                               \/ PodsEnd(m) \/ PodGone(m)
  PROVE  NameOK(n)'
<1>1. ClusterOK /\ RequestsOK /\ JobName \subseteq Name
  BY TypeParts, JobsAssumption DEF JobsAssumption
<1>2. ASSUME UNCHANGED <<job, pods, answered, wanted, suspect>>, UNCHANGED req
      PROVE  NameOK(n)'
  BY <1>2, Untouched DEF NameKept, Alike
<1>3. CASE ChangeTables
  <2>1. UNCHANGED <<job, pods, answered, wanted, suspect>>
    BY <1>3 DEF ChangeTables, cluster, controlled, ghosts
  <2>2. req' = [h \in Handler |-> [req[h] EXCEPT !.calm = FALSE]]
    BY <1>3 DEF ChangeTables
  <2>3. ASSUME NEW h \in Handler PROVE Alike(req[h], req'[h])
    BY <1>1, <2>2 DEF RequestsOK, Request, Alike
  <2> QED BY <2>1, <2>3, Untouched DEF NameKept
<1>4. CASE \/ CreateASet \/ ChangeRows \/ UNCHANGED vars
           \/ \E m \in JobName : PodsEnd(m) \/ PodGone(m)
  BY <1>2, <1>4 DEF CreateASet, ChangeRows, vars, PodsEnd, PodGone, cluster, controlled, ghosts
<1>5. ASSUME NEW m \in Name, PodsStart(m) \/ PodsScaledDown(m) \/ DeadlinePasses(m)
      PROVE  NameOK(n)'
  <2>4. /\ job[m].run # 0 /\ UNCHANGED <<req, answered, wanted, suspect>>
        /\ job' = job \/ job' = [job EXCEPT ![m].deadline = "over"]
        /\ \/ pods' = [pods EXCEPT ![m] = @ \union {job[m].run}]
           \/ pods' = [pods EXCEPT ![m] = @ \ {job[m].run}]
    BY <1>5 DEF PodsStart, PodsScaledDown, DeadlinePasses, EndPods, ghosts
  <2>1. /\ job[m].run # 0 /\ UNCHANGED <<req, answered, wanted, suspect>>
        /\ m # n => job'[n] = job[n] /\ pods'[n] = pods[n]
        /\ job'[n].run = job[n].run /\ job'[n].parallelism = job[n].parallelism
        /\ pods'[n] \subseteq pods[n] \union {job[n].run}
    BY <1>1, <2>4 DEF ClusterOK, Job
  <2>2. CASE m # n
    BY <2>1, <2>2, Untouched DEF NameKept, Alike
  <2>3. CASE m = n
    <3>1. Apart(n)'
      BY <2>1 DEF NameOK, Apart
    <3>2. Halfway(n)'
      BY <2>1, <2>3 DEF NameOK, Halfway
    <3>3. AsAnswered(n)'
      BY <2>1, <2>3 DEF NameOK, AsAnswered, Answered
    <3> QED BY <3>1, <3>2, <3>3 DEF NameOK
  <2> QED BY <2>2, <2>3
<1> QED BY <1>1, <1>3, <1>4, <1>5

\* At first nothing runs and nothing was answered.
LEMMA InitAnswered ==
  ASSUME Init, NEW n \in Name
  PROVE  NameOK(n)
<1>1. \A h \in Handler : ~On(req[h], n)
  BY DEF Init, On, NoRequest
<1>2. Answered(n)
  BY DEF Init, Answered, NoJob
<1> QED BY <1>1, <1>2 DEF NameOK, Apart, Halfway, AsAnswered

\* Every step keeps the invariant of every name.
LEMMA NextAnswered ==
  ASSUME TypeOK, Ops, [Next]_vars, NEW n \in Name, NameOK(n)
  PROVE  NameOK(n)'
<1>1. ASSUME NEW h \in Handler, Step(h) PROVE NameOK(n)'
  BY <1>1, ReadingAnswered, CreateJobAnswered, DeleteJobsAnswered, DeletePodsAnswered,
     PutJobAnswered, OneOffAnswered DEF Step
<1> QED BY <1>1, StartAnswered, FailureAnswered, OthersAnswered DEF Next

\* However many requests for however many jobs overlap, fail or lose their answers: a
\* name that is not suspect has the job that was answered last, and no pods but its own
\* and those that were deleted and are ending, and whoever stops, cleans or deploys it
\* again alone makes it so.
THEOREM JobsAsAnswered == Spec => []JobAsAnswered
<1> DEFINE Inv == TypeOK /\ Ops /\ \A n \in Name : NameOK(n)
<1>1. Init => Inv
  BY InitType, OpsInit, InitAnswered, NamesAssumption, JobsAssumption
<1>2. Inv /\ [Next]_vars => Inv'
  <2>1. TypeOK /\ Ops /\ [Next]_vars => TypeOK' /\ Ops'
    BY NextType, OpsNext, NamesAssumption, ServicesAssumption, JobsAssumption
  <2>2. ASSUME Inv, [Next]_vars PROVE \A n \in Name : NameOK(n)'
    BY <2>2, NextAnswered
  <2> QED BY <2>1, <2>2
<1>3. Inv => JobAsAnswered
  <2>1. ASSUME Inv, NEW n \in Name, n \notin suspect,
               \A h \in Handler : ~(ForJob(req[h]) /\ req[h].name = n /\ req[h].begun)
        PROVE  Answered(n)
    <3>1. \A h \in Handler : ~(On(req[h], n) /\ req[h].begun)
      BY <2>1 DEF On
    <3> QED BY <2>1, <3>1 DEF NameOK, AsAnswered
  <2> QED BY <2>1 DEF JobAsAnswered, Answered
<1> QED BY <1>1, <1>2, <1>3, PTL DEF Spec

-----------------------------------------------------------------------------
(* One-off pods: the invariant is about one name, as that of jobs is. *)

OnPod(r, n) == r.pc # "idle" /\ ForPod(r) /\ r.name = n
PodApart(n) ==
  \A h \in Handler : OnPod(req[h], n) =>
    /\ req[h].id # 0
    /\ ~req[h].alone => n \in suspectpod
    /\ \A o \in Handler \ {h} : OnPod(req[o], n) => ~req[h].alone
Created(n) ==
  IF created[n] = 0 THEN oneoff[n].state # "running"
  ELSE oneoff[n] = [run |-> created[n], state |-> "running"]
AsCreated(n) ==
  n \notin suspectpod /\ (\A h \in Handler : ~(OnPod(req[h], n) /\ req[h].begun)) => Created(n)
PodOK(n) == PodApart(n) /\ AsCreated(n) /\ (oneoff[n].run = 0 => oneoff[n].state = "none")

\* What the invariant says of a request, and of a name but for its requests.
AlikePod(r, s) ==
  /\ (s.pc = "idle" <=> r.pc = "idle")
  /\ s.op = r.op /\ s.name = r.name /\ s.id = r.id /\ s.alone = r.alone /\ s.begun = r.begun
PodKept(n) ==
  /\ oneoff'[n] = oneoff[n] /\ created'[n] = created[n]
  /\ (n \in suspectpod' <=> n \in suspectpod)

\* Nothing happens to a name and its requests.
LEMMA PodUntouched ==
  ASSUME NEW n, PodOK(n), PodKept(n),
         \A h \in Handler : \/ AlikePod(req[h], req'[h])
                            \/ ~OnPod(req[h], n) /\ ~OnPod(req'[h], n)
  PROVE  PodOK(n)'
<1>1. ASSUME NEW h \in Handler
      PROVE  /\ OnPod(req'[h], n) <=> OnPod(req[h], n)
             /\ OnPod(req[h], n) => /\ req'[h].alone = req[h].alone /\ req'[h].id = req[h].id
                                    /\ req'[h].begun = req[h].begun
  BY DEF OnPod, AlikePod, ForPod
<1>2. PodApart(n)'
  BY <1>1 DEF PodOK, PodKept, PodApart
<1>3. AsCreated(n)'
  BY <1>1 DEF PodOK, PodKept, AsCreated, Created
<1> QED BY <1>2, <1>3 DEF PodOK, PodKept

\* A request of the name ends: what it leaves is as answered, or suspect.
LEMMA PodEnds ==
  ASSUME NEW n, PodOK(n), NEW h \in Handler, OnPod(req[h], n), ~OnPod(req'[h], n),
         \A o \in Handler \ {h} : req'[o] = req[o],
         n \in suspectpod /\ ~req[h].alone => n \in suspectpod',
         n \notin suspectpod' => Created(n)',
         oneoff'[n].run = 0 => oneoff'[n].state = "none"
  PROVE  PodOK(n)'
<1>1. ~req[h].alone => n \in suspectpod'
  BY DEF PodOK, PodApart
<1>2. ASSUME NEW o \in Handler, OnPod(req'[o], n)
      PROVE  OnPod(req[o], n) /\ ~req'[o].alone /\ req'[o] = req[o] /\ o # h /\ ~req[h].alone
  BY <1>2 DEF PodOK, PodApart
<1>3. PodApart(n)'
  BY <1>1, <1>2 DEF PodOK, PodApart
<1>4. AsCreated(n)'
  BY DEF AsCreated
<1> QED BY <1>3, <1>4 DEF PodOK

\* A request of the name goes on after a write, or suspect.
LEMMA PodGoesOn ==
  ASSUME NEW n, PodOK(n), NEW h \in Handler, OnPod(req[h], n), OnPod(req'[h], n),
         req'[h].begun \/ n \in suspectpod',
         req'[h].alone = req[h].alone, req'[h].id = req[h].id,
         \A o \in Handler \ {h} : req'[o] = req[o],
         n \in suspectpod => n \in suspectpod',
         oneoff'[n].run = 0 => oneoff'[n].state = "none"
  PROVE  PodOK(n)'
<1>1. ASSUME NEW o \in Handler \ {h}, OnPod(req'[o], n)
      PROVE  OnPod(req[o], n) /\ ~req'[o].alone /\ req'[o] = req[o] /\ ~req[h].alone
  BY <1>1 DEF PodOK, PodApart
<1>2. PodApart(n)'
  BY <1>1 DEF PodOK, PodApart
<1>3. AsCreated(n)'
  BY DEF AsCreated
<1> QED BY <1>2, <1>3 DEF PodOK

\* A request for another name or for a job does nothing to a name.
LEMMA PodElsewhere ==
  ASSUME NEW n, PodOK(n), PodKept(n), NEW h \in Handler, ~OnPod(req[h], n), ~OnPod(req'[h], n),
         \A o \in Handler \ {h} : req'[o] = req[o]
  PROVE  PodOK(n)'
<1>1. \A o \in Handler \ {h} : AlikePod(req[o], req'[o])
  BY DEF AlikePod
<1> QED BY <1>1, PodUntouched

\* Before a request that is alone writes, the pod is as answered.
LEMMA BeforeDeleting ==
  ASSUME NEW n, PodOK(n), NEW h \in Handler, OnPod(req[h], n), ~req[h].begun, n \notin suspectpod
  PROVE  Created(n)
<1>1. ASSUME NEW o \in Handler PROVE ~(OnPod(req[o], n) /\ req[o].begun)
  BY DEF PodOK, PodApart
<1> QED BY <1>1 DEF PodOK, AsCreated

\* A request fails.
LEMMA PodFails ==
  ASSUME TypeOK, NEW n \in Name, PodOK(n), NEW h \in Handler, req[h].pc # "idle",
         Fail(h), UNCHANGED oneoff
  PROVE  PodOK(n)'
<1>1. RequestsOK
  BY TypeParts
<1>2. /\ \A o \in Handler \ {h} : req'[o] = req[o]
      /\ ~OnPod(req'[h], n)
  BY <1>1 DEF Fail, Idle, RequestsOK, OnPod, NoRequest
<1>3. UNCHANGED created
  BY DEF Fail
<1>4. CASE OnPod(req[h], n)
  <2>1. n \in suspectpod => n \in suspectpod'
    BY DEF Fail
  <2>2. ASSUME n \notin suspectpod' PROVE Created(n)'
    <3>1. ~req[h].begun
      BY <1>4, <2>2 DEF Fail, OnPod
    <3>2. Created(n)
      BY <1>4, <2>1, <2>2, <3>1, BeforeDeleting
    <3> QED BY <1>3, <3>2 DEF Created
  <2>3. oneoff'[n].run = 0 => oneoff'[n].state = "none"
    BY DEF PodOK
  <2> QED BY <1>2, <1>4, <2>1, <2>2, <2>3, PodEnds
<1>5. CASE ~OnPod(req[h], n)
  <2>1. n \in suspectpod' <=> n \in suspectpod
    BY <1>5 DEF Fail, OnPod
  <2>2. PodKept(n)
    BY <1>3, <2>1 DEF PodKept
  <2> QED BY <1>2, <1>5, <2>2, PodElsewhere
<1> QED BY <1>4, <1>5

\* A request ends well, and with it a write: other names are left alone.
LEMMA PodFinishes ==
  ASSUME TypeOK, NEW n \in Name, PodOK(n), NEW h \in Handler, req[h].pc # "idle", Finish(h),
         ~OnPod(req[h], n) => oneoff'[n] = oneoff[n],
         OnPod(req[h], n) /\ n \notin suspectpod' => Created(n)',
         oneoff'[n].run = 0 => oneoff'[n].state = "none"
  PROVE  PodOK(n)'
<1>1. RequestsOK /\ GhostsOK /\ req[h].name \in Name
  BY TypeParts, Fields DEF RequestsOK
<1>2. /\ \A o \in Handler \ {h} : req'[o] = req[o]
      /\ ~OnPod(req'[h], n)
  BY <1>1 DEF Finish, Idle, RequestsOK, OnPod, NoRequest
<1>3. CASE OnPod(req[h], n)
  <2>1. n \in suspectpod /\ ~req[h].alone => n \in suspectpod'
    BY DEF Finish
  <2> QED BY <1>2, <1>3, <2>1, PodEnds
<1>4. CASE ~OnPod(req[h], n)
  <2>1. req[h].name = n => ~ForPod(req[h])
    BY <1>4 DEF OnPod
  <2>2. n \in suspectpod' <=> n \in suspectpod
    BY <2>1 DEF Finish, ForPod
  <2>3. created'[n] = created[n]
    BY <1>1, <2>1 DEF Finish, ForPod, GhostsOK
  <2>4. PodKept(n)
    BY <1>4, <2>2, <2>3 DEF PodKept
  <2> QED BY <1>2, <1>4, <2>4, PodElsewhere
<1> QED BY <1>3, <1>4

\* A request goes on without a write to pods.
LEMMA PodQuiet ==
  ASSUME RequestsOK, NEW n \in Name, PodOK(n), NEW h \in Handler,
         NEW r, AlikePod(req[h], r), req' = [req EXCEPT ![h] = r],
         UNCHANGED <<oneoff, created, suspectpod>>
  PROVE  PodOK(n)'
<1>1. \A o \in Handler : AlikePod(req[o], req'[o])
  BY DEF AlikePod, RequestsOK
<1>2. PodKept(n)
  BY DEF PodKept
<1> QED BY <1>1, <1>2, PodUntouched

\* A request for a job does nothing to pods without an owner.
LEMMA PodOfJob ==
  ASSUME RequestsOK, NEW n \in Name, PodOK(n), NEW h \in Handler, ~ForPod(req[h]),
         \A o \in Handler \ {h} : req'[o] = req[o],
         req'[h].op = req[h].op \/ req'[h].pc = "idle",
         UNCHANGED <<oneoff, created, suspectpod>>
  PROVE  PodOK(n)'
<1>1. ~OnPod(req[h], n) /\ ~OnPod(req'[h], n)
  BY DEF OnPod, ForPod
<1>2. PodKept(n)
  BY DEF PodKept
<1> QED BY <1>1, <1>2, PodElsewhere

\* Going on without a write changes nothing the invariant is about, ...
LEMMA ToAlikePod ==
  ASSUME RequestsOK, NEW h \in Handler, NEW pc, To(h, pc), pc # "idle",
         req[h].pc \notin {"idle"} \union Writing
  PROVE  \E r : AlikePod(req[h], r) /\ req' = [req EXCEPT ![h] = r]
<1> DEFINE r == [req[h] EXCEPT !.pc = pc, !.begun = req[h].begun \/ req[h].pc \in Writing]
<1>1. req[h] \in Request
  BY DEF RequestsOK
<1>2. (req[h].begun \/ req[h].pc \in Writing) = req[h].begun
  BY <1>1, Fields
<1>3. AlikePod(req[h], r)
  BY <1>1, <1>2 DEF AlikePod, Request
<1>4. req' = [req EXCEPT ![h] = r]
  BY DEF To
<1> HIDE DEF r
<1> QED BY <1>3, <1>4

\* ... and so does going on for a job.
LEMMA PodTo ==
  ASSUME RequestsOK, NEW n \in Name, PodOK(n), NEW h \in Handler, NEW pc, To(h, pc),
         pc # "idle", req[h].pc # "idle", req[h].pc \notin Writing \/ ~ForPod(req[h]),
         UNCHANGED <<oneoff, created, suspectpod>>
  PROVE  PodOK(n)'
<1>1. CASE ~ForPod(req[h])
  <2>1. /\ \A o \in Handler \ {h} : req'[o] = req[o]
        /\ req'[h].op = req[h].op
    BY DEF To, RequestsOK, Request
  <2> QED BY <1>1, <2>1, PodOfJob
<1>2. CASE req[h].pc \notin Writing
  <2>1. \E r : AlikePod(req[h], r) /\ req' = [req EXCEPT ![h] = r]
    BY <1>2, ToAlikePod
  <2> QED BY <2>1, PodQuiet
<1> QED BY <1>1, <1>2

-----------------------------------------------------------------------------
(* The actions. *)

\* A request arrives: with others for the pod of its name that makes it suspect.
LEMMA ArrivePod ==
  ASSUME TypeOK, NEW n \in Name, PodOK(n), NEW h \in Handler, NEW r \in Request,
         r.pc # "idle", ~r.begun, Arrive(h, r)
  PROVE  PodOK(n)'
<1> DEFINE others == {o \in Handler : /\ req[o].pc # "idle" /\ req[o].name = r.name
                                      /\ \/ ForJob(r) /\ ForJob(req[o])
                                         \/ ForPod(r) /\ ForPod(req[o])}
           alone == others = {}
<1>1. RequestsOK /\ req[h].pc = "idle"
  BY TypeParts DEF Arrive
<1>1a. requests + 1 # 0
  <2>1. requests \in 0..MaxRequests
    BY DEF TypeOK
  <2>2. MaxRequests \in Nat
    BY JobsAssumption DEF JobsAssumption
  <2> QED BY <2>1, <2>2
<1>2. req' = [o \in Handler |->
                IF o = h THEN [r EXCEPT !.id = requests + 1, !.alone = alone]
                ELSE IF o \in others THEN [req[o] EXCEPT !.alone = FALSE] ELSE req[o]]
  BY Zenon DEF Arrive
<1>3. suspectpod' = IF others # {} /\ ForPod(r) THEN suspectpod \union {r.name} ELSE suspectpod
  BY Zenon DEF Arrive
<1>4. UNCHANGED <<oneoff, created>>
  BY DEF Arrive, cluster, controlled
<1>5. h \notin others
  BY <1>1
<1>6. alone <=> others = {}
  OBVIOUS
<1> HIDE DEF alone
<1>1b. req'[h] = [r EXCEPT !.id = requests + 1, !.alone = alone]
  BY <1>1, <1>2
<1>7. /\ req'[h].begun = r.begun /\ req'[h].alone = alone /\ req'[h].id # 0
      /\ (OnPod(req'[h], n) <=> OnPod(r, n))
  BY <1>1a, <1>1b DEF Request, OnPod, ForPod
<1>8. ASSUME NEW o \in Handler \ {h}
      PROVE  /\ o \in others => /\ req'[o].alone = FALSE /\ req'[o].begun = req[o].begun
                                /\ req'[o].pc = req[o].pc /\ req'[o].id = req[o].id
                                /\ (OnPod(req'[o], n) <=> OnPod(req[o], n))
             /\ o \notin others => req'[o] = req[o]
  <2>1. req[o] \in Request
    BY <1>1 DEF RequestsOK
  <2> QED BY <1>2, <2>1 DEF Request, OnPod, ForPod
<1>9. ~OnPod(req[h], n)
  BY <1>1 DEF OnPod
<1>10. ASSUME NEW o \in Handler, OnPod(r, n)
       PROVE  o \in others <=> OnPod(req[o], n)
  BY <1>10 DEF OnPod, ForJob, ForPod
<1>11. ASSUME NEW o \in Handler, ~OnPod(r, n), o \in others
       PROVE  ~OnPod(req[o], n)
  BY <1>11 DEF OnPod, ForJob, ForPod
<1> HIDE DEF others
<1>12. CASE OnPod(r, n) /\ others = {}
  <2>1. suspectpod' = suspectpod
    BY <1>3, <1>12
  <2>2. \A o \in Handler \ {h} : req'[o] = req[o] /\ ~OnPod(req[o], n)
    BY <1>8, <1>10, <1>12
  <2>3. /\ req'[h].alone /\ ~req'[h].begun
        /\ \A o \in Handler : ~OnPod(req[o], n)
    BY <1>6, <1>7, <1>9, <1>12, <2>2
  <2>4. PodApart(n)'
    BY <1>7, <2>2, <2>3 DEF PodApart
  <2>5. AsCreated(n)'
    BY <1>4, <2>1, <2>3 DEF PodOK, AsCreated, Created
  <2> QED BY <1>4, <2>4, <2>5 DEF PodOK
<1>13. CASE OnPod(r, n) /\ others # {}
  <2>1. n \in suspectpod'
    BY <1>3, <1>13 DEF OnPod
  <2>2. ASSUME NEW o \in Handler, OnPod(req'[o], n) PROVE ~req'[o].alone /\ req'[o].id # 0
    BY <1>6, <1>7, <1>8, <1>10, <1>13, <2>2 DEF PodOK, PodApart
  <2>3. PodApart(n)' /\ AsCreated(n)'
    BY <2>1, <2>2 DEF PodApart, AsCreated
  <2> QED BY <1>4, <2>3 DEF PodOK
<1>14. CASE ~OnPod(r, n)
  <2>1. ~OnPod(req'[h], n)
    BY <1>7, <1>14
  <2>2. ASSUME NEW o \in Handler \ {h}
        PROVE  \/ AlikePod(req[o], req'[o])
               \/ ~OnPod(req[o], n) /\ ~OnPod(req'[o], n)
    BY <1>8, <1>11, <1>14 DEF AlikePod
  <2>3. n \in suspectpod' <=> n \in suspectpod
    BY <1>3, <1>14 DEF OnPod
  <2>4. PodKept(n)
    BY <1>4, <2>3 DEF PodKept
  <2> QED BY <1>9, <2>1, <2>2, <2>4, PodUntouched
<1> QED BY <1>12, <1>13, <1>14

\* The steps that read ...
LEMMA ReadingPod ==
  ASSUME TypeOK, Ops, NEW n \in Name, PodOK(n), NEW h \in Handler,
         \/ ReadRow(h) \/ JobExists(h) \/ GetBindings(h) \/ ReadConfigVars(h) \/ AskService(h)
         \/ GetJob(h) \/ CreateCronJob(h)
  PROVE  PodOK(n)'
<1>1. RequestsOK /\ req[h] \in Request
  BY TypeParts DEF RequestsOK
<1>2. oneoff' = oneoff
  BY DEF ReadRow, JobExists, GetBindings, ReadConfigVars, AskService, GetJob, CreateCronJob, cluster, controlled
<1>3. ASSUME req[h].pc # "idle", Fail(h) PROVE PodOK(n)'
  BY <1>2, <1>3, PodFails
<1>4. ASSUME UNCHANGED ghosts PROVE UNCHANGED <<oneoff, created, suspectpod>>
  BY <1>2, <1>4 DEF ghosts
<1>5. ASSUME req[h].pc \in {"row", "exists"}, UNCHANGED ghosts,
             To(h, "exists") \/ To(h, "bindings") \/ To(h, "deljobs")
      PROVE  PodOK(n)'
  <2>1. req[h].pc \notin Writing /\ req[h].pc # "idle"
    BY <1>5 DEF Writing
  <2> QED BY <1>1, <1>4, <1>5, <2>1, PodTo
<1>6. CASE ReadRow(h)
  BY <1>3, <1>5, <1>6 DEF ReadRow
<1>7. CASE JobExists(h)
  BY <1>3, <1>5, <1>7 DEF JobExists
<1>8. CASE GetBindings(h)
  <2>1. PICK configset \in ConfigSets(req[h].name) :
          req' = [req EXCEPT ![h].pc = "configvars", ![h].configset = configset,
                             ![h].services = Services(req[h].name), ![h].calm = TRUE]
    BY <1>8 DEF GetBindings
  <2> DEFINE r == [req[h] EXCEPT !.pc = "configvars", !.configset = configset,
                                 !.services = Services(req[h].name), !.calm = TRUE]
  <2>2. req' = [req EXCEPT ![h] = r]
    BY <2>1
  <2>3. req[h].pc = "bindings" /\ UNCHANGED ghosts
    BY <1>8 DEF GetBindings
  <2>4. AlikePod(req[h], r)
    BY <1>1, <2>3 DEF AlikePod, Request
  <2> HIDE DEF r
  <2> QED BY <1>1, <1>4, <2>2, <2>3, <2>4, PodQuiet
<1>9. ASSUME NEW env, NEW left, req' = [req EXCEPT ![h] = Assembled(req[h], env, left)],
             req[h].pc \in {"configvars", "services"}, UNCHANGED ghosts
      PROVE  PodOK(n)'
  <2>1. Assembled(req[h], env, left).id = req[h].id
    BY <1>1 DEF Assembled, Request
  <2>2. AlikePod(req[h], Assembled(req[h], env, left))
    BY <1>1, <1>9, <2>1, AssembledFields DEF AlikePod
  <2> QED BY <1>1, <1>4, <1>9, <2>2, PodQuiet
<1>10. CASE ReadConfigVars(h)
  BY <1>9, <1>10 DEF ReadConfigVars
<1>11. CASE AskService(h)
  BY <1>3, <1>9, <1>11 DEF AskService
<1>12. CASE GetJob(h)
  <2> DEFINE r == [req[h] EXCEPT !.pc = "putjob", !.copy = job[req[h].name]]
  <2>1. ASSUME req' = [req EXCEPT ![h].pc = "putjob", ![h].copy = job[req[h].name]]
        PROVE  req' = [req EXCEPT ![h] = r]
    BY <2>1
  <2>2. AlikePod(req[h], r)
    BY <1>1, <1>12 DEF AlikePod, Request, GetJob
  <2>3. \/ req' = [req EXCEPT ![h].pc = "putjob", ![h].copy = job[req[h].name]] /\ UNCHANGED ghosts
        \/ Fail(h)
    BY <1>12 DEF GetJob
  <2>4. req[h].pc = "getjob"
    BY <1>12 DEF GetJob
  <2> HIDE DEF r
  <2> QED BY <1>1, <1>3, <1>4, <2>1, <2>2, <2>3, <2>4, PodQuiet
<1>13. CASE CreateCronJob(h)
  BY <1>3, <1>13 DEF CreateCronJob
<1> QED BY <1>6, <1>7, <1>8, <1>10, <1>11, <1>12, <1>13

\* ... those for jobs, which leave pods without an owner alone, ...
LEMMA JobStepPod ==
  ASSUME TypeOK, Ops, NEW n \in Name, PodOK(n), NEW h \in Handler,
         CreateJob(h) \/ DeleteJobs(h) \/ DeletePods(h) \/ PutJob(h)
  PROVE  PodOK(n)'
<1>1. RequestsOK /\ OpsOK(req[h]) /\ oneoff' = oneoff /\ req[h].pc # "idle"
  BY TypeParts DEF Ops, CreateJob, DeleteJobs, DeletePods, PutJob
<1>2. ~ForPod(req[h])
  BY <1>1 DEF CreateJob, DeleteJobs, DeletePods, PutJob, OpsOK, ForPod
<1>3. ASSUME NEW pc, pc # "idle", To(h, pc), UNCHANGED ghosts PROVE PodOK(n)'
  <2>1. UNCHANGED <<oneoff, created, suspectpod>>
    BY <1>1, <1>3 DEF ghosts
  <2> QED BY <1>1, <1>2, <1>3, <2>1, PodTo
<1>4. CASE Fail(h)
  BY <1>1, <1>4, PodFails
<1>5. CASE Finish(h)
  <2>1. ~OnPod(req[h], n)
    BY <1>2 DEF OnPod
  <2>2. oneoff'[n].run = 0 => oneoff'[n].state = "none"
    BY <1>1 DEF PodOK
  <2> QED BY <1>1, <1>5, <2>1, <2>2, PodFinishes
<1>6. \/ Fail(h) \/ Finish(h)
      \/ (To(h, "delpods") \/ To(h, "bindings") \/ To(h, "podsagain")) /\ UNCHANGED ghosts
  BY DEF CreateJob, DeleteJobs, DeletePods, PutJob
<1> QED BY <1>3, <1>4, <1>5, <1>6

\* ... the question whether there is a pod, which ends a stop that finds none, ...
LEMMA ExistsPod ==
  ASSUME TypeOK, Ops, NEW n \in Name, PodOK(n), NEW h \in Handler, OneOffExists(h)
  PROVE  PodOK(n)'
<1>1. RequestsOK /\ GhostsOK /\ OpsOK(req[h]) /\ oneoff' = oneoff /\ req[h].pc = "oneoffexists"
  BY TypeParts DEF Ops, OneOffExists, cluster, controlled
<1>2. "oneoffexists" \notin Writing
  BY DEF Writing
<1>3. ASSUME NEW pc, pc # "idle", To(h, pc), UNCHANGED ghosts PROVE PodOK(n)'
  <2>1. UNCHANGED <<oneoff, created, suspectpod>>
    BY <1>1, <1>3 DEF ghosts
  <2> QED BY <1>1, <1>2, <1>3, <2>1, PodTo
<1>4. CASE oneoff[req[h].name].run = 0 /\ req[h].op # "oneoff" /\ Finish(h)
  <2>1. ASSUME OnPod(req[h], n) PROVE Created(n)'
    <3>1. req[h].op = "stoponeoff" /\ req[h].name = n
      BY <1>4, <2>1 DEF OnPod, ForPod
    <3>2. created'[n] = 0
      BY <1>1, <1>4, <3>1 DEF Finish, GhostsOK
    <3>3. oneoff'[n].state = "none"
      BY <1>1, <1>4, <3>1 DEF PodOK
    <3> QED BY <3>2, <3>3 DEF Created
  <2>2. oneoff'[n].run = 0 => oneoff'[n].state = "none"
    BY <1>1 DEF PodOK
  <2> QED BY <1>1, <1>4, <2>1, <2>2, PodFinishes
<1>5. \/ (To(h, "delpod") \/ To(h, "bindings")) /\ UNCHANGED ghosts
      \/ oneoff[req[h].name].run = 0 /\ req[h].op # "oneoff" /\ Finish(h)
  BY DEF OneOffExists
<1> QED BY <1>3, <1>4, <1>5

\* ... the deletion, after which the pod only ends, ...
LEMMA DeletedPod ==
  ASSUME TypeOK, Ops, NEW n \in Name, PodOK(n), NEW h \in Handler, DeletePod(h)
  PROVE  PodOK(n)'
<1>1. /\ RequestsOK /\ ClusterOK /\ GhostsOK /\ OpsOK(req[h]) /\ req[h] \in Request
      /\ req[h].name \in Name /\ req[h].pc = "delpod"
  BY TypeParts, Fields DEF Ops, DeletePod, RequestsOK
<1>2. ForPod(req[h])
  BY <1>1 DEF OpsOK
<1>3. /\ req[h].name # n => oneoff'[n] = oneoff[n]
      /\ oneoff'[n].run = 0 => oneoff'[n].state = "none"
      /\ req[h].name = n => oneoff'[n].state # "running"
  <2>1. CASE oneoff[req[h].name].run = 0
    BY <2>1 DEF DeletePod, PodOK
  <2>2. CASE oneoff[req[h].name].run # 0
    <3>1. oneoff' = [oneoff EXCEPT ![req[h].name].state = "terminating"]
      BY <2>2 DEF DeletePod
    <3>2. req[h].name # n => oneoff'[n] = oneoff[n]
      BY <1>1, <3>1 DEF ClusterOK
    <3>3. req[h].name = n => oneoff'[n].run = oneoff[n].run /\ oneoff'[n].state = "terminating"
      BY <1>1, <3>1 DEF ClusterOK, OneOff
    <3> QED BY <2>2, <3>2, <3>3 DEF PodOK
  <2> QED BY <2>1, <2>2
<1>4. CASE To(h, "bindings") /\ UNCHANGED ghosts
  <2>1. req' = [req EXCEPT ![h].pc = "bindings", ![h].begun = req[h].begun \/ req[h].pc \in Writing]
    BY <1>4 DEF To
  <2>2. \A o \in Handler \ {h} : req'[o] = req[o]
    BY <1>1, <2>1 DEF RequestsOK
  <2>3. "delpod" \in Writing
    BY DEF Writing
  <2>4. /\ req'[h].pc = "bindings" /\ req'[h].begun /\ req'[h].alone = req[h].alone
        /\ req'[h].id = req[h].id /\ req'[h].name = req[h].name /\ req'[h].op = req[h].op
    BY <1>1, <2>1, <2>3 DEF RequestsOK, Request
  <2>5. UNCHANGED <<created, suspectpod>>
    BY <1>4 DEF ghosts
  <2>6. CASE req[h].name = n
    <3>1. OnPod(req[h], n) /\ OnPod(req'[h], n)
      BY <1>1, <1>2, <2>4, <2>6 DEF OnPod, ForPod
    <3> QED BY <1>3, <2>2, <2>4, <2>5, <3>1, PodGoesOn
  <2>7. CASE req[h].name # n
    <3>1. PodKept(n)
      BY <1>3, <2>5, <2>7 DEF PodKept
    <3>2. ~OnPod(req[h], n) /\ ~OnPod(req'[h], n)
      BY <2>4, <2>7 DEF OnPod
    <3> QED BY <2>2, <3>1, <3>2, PodElsewhere
  <2> QED BY <2>6, <2>7
<1>5. CASE req[h].op = "stoponeoff" /\ Finish(h)
  <2>1. ASSUME OnPod(req[h], n) PROVE Created(n)'
    <3>1. req[h].name = n
      BY <2>1 DEF OnPod
    <3>2. created'[n] = 0
      BY <1>1, <1>5, <3>1 DEF Finish, GhostsOK
    <3> QED BY <1>3, <3>1, <3>2 DEF Created
  <2>2. ~OnPod(req[h], n) => oneoff'[n] = oneoff[n]
    BY <1>1, <1>2, <1>3 DEF OnPod
  <2> QED BY <1>1, <1>3, <1>5, <2>1, <2>2, PodFinishes
<1> QED BY <1>2, <1>4, <1>5 DEF DeletePod, ForPod

\* ... and the creation, which is answered as one even where a pod is in the way.
LEMMA CreatedPod ==
  ASSUME TypeOK, Ops, NEW n \in Name, PodOK(n), NEW h \in Handler, CreateOneOffPod(h)
  PROVE  PodOK(n)'
<1>1. /\ RequestsOK /\ ClusterOK /\ GhostsOK /\ req[h] \in Request
      /\ req[h].name \in Name /\ req[h].pc = "create" /\ req[h].op = "oneoff" /\ Finish(h)
  BY TypeParts, Fields DEF CreateOneOffPod, RequestsOK
<1>2. ForPod(req[h])
  BY <1>1 DEF ForPod
<1>3. /\ req[h].name # n => oneoff'[n] = oneoff[n]
      /\ oneoff[req[h].name].run # 0 => oneoff'[n] = oneoff[n]
      /\ oneoff[req[h].name].run = 0 /\ req[h].name = n =>
           oneoff'[n] = [run |-> req[h].id, state |-> "running"]
  BY <1>1 DEF CreateOneOffPod, ClusterOK
<1>4. ASSUME OnPod(req[h], n), n \notin suspectpod' PROVE Created(n)'
  <2>1. req[h].name = n /\ req[h].id # 0
    BY <1>4 DEF OnPod, PodOK, PodApart
  <2>2. oneoff[n].run = 0
    BY <1>1, <1>4, <2>1 DEF Finish
  <2>3. created'[n] = req[h].id
    BY <1>1, <2>1 DEF Finish, GhostsOK
  <2> QED BY <1>3, <2>1, <2>2, <2>3 DEF Created
<1>5. ~OnPod(req[h], n) => oneoff'[n] = oneoff[n]
  BY <1>1, <1>2, <1>3 DEF OnPod
<1>6. oneoff'[n].run = 0 => oneoff'[n].state = "none"
  <2>1. CASE req[h].name # n \/ oneoff[req[h].name].run # 0
    BY <1>3, <2>1 DEF PodOK
  <2>2. CASE req[h].name = n /\ oneoff[req[h].name].run = 0
    <3>1. req[h].id # 0
      BY <1>1, <1>2, <2>2 DEF OnPod, PodOK, PodApart
    <3> QED BY <1>3, <2>2, <3>1
  <2> QED BY <2>1, <2>2
<1> QED BY <1>1, <1>4, <1>5, <1>6, PodFinishes

\* Failures, and answers that are lost; an existence check or a deletion that fails
\* unheeded makes the pod suspect.
LEMMA FailurePod ==
  ASSUME TypeOK, Ops, NEW n \in Name, PodOK(n), NEW h \in Handler,
         RequestFailure(h) \/ AnswerLost(h) \/ ErrorIgnored(h)
  PROVE  PodOK(n)'
<1>1. RequestsOK /\ req[h] \in Request /\ OpsOK(req[h])
  BY TypeParts DEF RequestsOK, Ops
<1>2. oneoff' = oneoff
  BY DEF RequestFailure, AnswerLost, ErrorIgnored, cluster, controlled
<1>3. CASE RequestFailure(h)
  BY <1>2, <1>3, PodFails DEF RequestFailure
<1>4. CASE AnswerLost(h)
  <2>1. ~ForPod(req[h])
    BY <1>1, <1>4 DEF AnswerLost, OpsOK, ForPod
  <2>2. UNCHANGED <<oneoff, created, suspectpod>> /\ Idle(h)
    BY <1>2, <1>4 DEF AnswerLost
  <2>3. /\ \A o \in Handler \ {h} : req'[o] = req[o]
        /\ req'[h].pc = "idle"
    BY <1>1, <2>2 DEF Idle, RequestsOK, NoRequest
  <2> QED BY <1>1, <2>1, <2>2, <2>3, PodOfJob
<1>5. CASE req[h].pc = "exists" /\ To(h, "bindings") /\ UNCHANGED ghosts
  <2>1. req[h].pc \notin Writing
    BY <1>5 DEF Writing
  <2>2. UNCHANGED <<oneoff, created, suspectpod>>
    BY <1>2, <1>5 DEF ghosts
  <2> QED BY <1>1, <1>5, <2>1, <2>2, PodTo
<1>6. CASE req[h].pc = "bindings" /\ req' = [req EXCEPT ![h].pc = "configvars"] /\ UNCHANGED ghosts
  <2> DEFINE r == [req[h] EXCEPT !.pc = "configvars"]
  <2>1. AlikePod(req[h], r)
    BY <1>1, <1>6 DEF AlikePod, Request
  <2>2. req' = [req EXCEPT ![h] = r]
    BY <1>6
  <2>3. UNCHANGED <<oneoff, created, suspectpod>>
    BY <1>2, <1>6 DEF ghosts
  <2> HIDE DEF r
  <2> QED BY <1>1, <2>1, <2>2, <2>3, PodQuiet
<1>7. CASE /\ req[h].pc \in {"oneoffexists", "delpod"}
           /\ req' = [req EXCEPT ![h] = IF req[h].op = "oneoff" THEN [req[h] EXCEPT !.pc = "bindings"]
                                        ELSE NoRequest]
           /\ suspectpod' = suspectpod \union {req[h].name}
           /\ created' = created
  <2>1. \A o \in Handler \ {h} : req'[o] = req[o]
    BY <1>1, <1>7 DEF RequestsOK
  <2>2. req'[h] = [req[h] EXCEPT !.pc = "bindings"] \/ req'[h] = NoRequest
    BY <1>1, <1>7 DEF RequestsOK
  <2>3. oneoff'[n].run = 0 => oneoff'[n].state = "none"
    BY <1>2 DEF PodOK
  <2>4. CASE req[h].name = n
    <3>1. OnPod(req[h], n) /\ n \in suspectpod'
      BY <1>1, <1>7, <2>4 DEF OnPod, OpsOK
    <3>2. CASE req'[h] = NoRequest
      <4>1. ~OnPod(req'[h], n)
        BY <3>2 DEF OnPod, NoRequest
      <4> QED BY <2>1, <2>3, <3>1, <4>1, PodEnds
    <3>3. CASE req'[h] = [req[h] EXCEPT !.pc = "bindings"]
      <4>1. /\ OnPod(req'[h], n)
            /\ req'[h].alone = req[h].alone /\ req'[h].id = req[h].id
        BY <1>1, <3>1, <3>3 DEF OnPod, ForPod, Request
      <4>2. n \in suspectpod => n \in suspectpod'
        BY <1>7
      <4> QED BY <2>1, <2>3, <3>1, <4>1, <4>2, PodGoesOn
    <3> QED BY <2>2, <3>2, <3>3
  <2>5. CASE req[h].name # n
    <3>1. ~OnPod(req[h], n) /\ ~OnPod(req'[h], n)
      BY <1>1, <2>2, <2>5 DEF OnPod, NoRequest, Request
    <3>2. PodKept(n)
      BY <1>2, <1>7, <2>5 DEF PodKept
    <3> QED BY <2>1, <3>1, <3>2, PodElsewhere
  <2> QED BY <2>4, <2>5
<1> QED BY <1>3, <1>4, <1>5, <1>6, <1>7 DEF ErrorIgnored

\* Requests that arrive begin without having written anything.
LEMMA StartPod ==
  ASSUME TypeOK, NEW n \in Name, PodOK(n), NEW h \in Handler, StartRequest(h)
  PROVE  PodOK(n)'
<1>1. NoRequest \in Request /\ NoRequest.begun = FALSE
  BY EmptyTypes, NamesAssumption, JobsAssumption DEF NoRequest
<1>2. PICK m \in Name :
        \/ \E delete \in BOOLEAN : StartDeployJob(h, m, delete)
        \/ StartDeployCronJob(h, m) \/ StartStopJob(h, m) \/ StartCleanJobs(h, m)
        \/ StartStopCronJob(h, m) \/ StartStopOneOffPod(h, m)
        \/ \E k \in Parallelism : StartScaleJob(h, m, k)
        \/ \E env \in Env : StartOneOff(h, m, env)
  BY JobsAssumption DEF StartRequest, JobsAssumption
<1>3. ASSUME NEW op \in Op, NEW pc \in (Reading \union Writing), Begin(h, op, pc, m)
      PROVE  PodOK(n)'
  <2> DEFINE r == [NoRequest EXCEPT !.op = op, !.pc = pc, !.name = m]
  <2>1. r \in Request /\ r.begun = FALSE /\ r.pc = pc
    BY <1>1 DEF Request
  <2>2. pc # "idle"
    BY DEF Reading, Writing
  <2>3. Arrive(h, r)
    BY <1>3 DEF Begin
  <2> HIDE DEF r
  <2> QED BY <2>1, <2>2, <2>3, ArrivePod
<1>4. CASE \E delete \in BOOLEAN : StartDeployJob(h, m, delete)
  <2>1. Begin(h, "run", "row", m) \/ Begin(h, "rerun", "row", m)
    BY <1>4 DEF StartDeployJob
  <2> QED BY <1>3, <2>1 DEF Op, Reading
<1>5. CASE StartDeployCronJob(h, m) \/ StartStopJob(h, m) \/ StartStopOneOffPod(h, m)
  BY <1>3, <1>5 DEF StartDeployCronJob, StartStopJob, StartStopOneOffPod, Op, Reading
<1>6. CASE StartCleanJobs(h, m) \/ StartStopCronJob(h, m)
  BY <1>3, <1>6 DEF StartCleanJobs, StartStopCronJob, Op, Writing
<1>7. ASSUME NEW k \in Parallelism, StartScaleJob(h, m, k)
      PROVE  PodOK(n)'
  <2> DEFINE r == [NoRequest EXCEPT !.op = "scale", !.pc = "getjob", !.name = m, !.parallelism = k]
  <2>1. r \in Request /\ r.begun = FALSE /\ r.pc = "getjob"
    BY <1>1 DEF Request, Op, Reading
  <2>2. Arrive(h, r)
    BY <1>7 DEF StartScaleJob
  <2> HIDE DEF r
  <2> QED BY <2>1, <2>2, ArrivePod
<1>8. ASSUME NEW env \in Env, StartOneOff(h, m, env)
      PROVE  PodOK(n)'
  <2> DEFINE r == [NoRequest EXCEPT !.op = "oneoff", !.pc = "oneoffexists", !.name = m, !.extra = env]
  <2>1. r \in Request /\ r.begun = FALSE /\ r.pc = "oneoffexists"
    BY <1>1 DEF Request, Op, Reading
  <2>2. Arrive(h, r)
    BY <1>8 DEF StartOneOff
  <2> HIDE DEF r
  <2> QED BY <2>1, <2>2, ArrivePod
<1> QED BY <1>2, <1>4, <1>5, <1>6, <1>7, <1>8

\* What others do: a pod that was deleted goes in its own time.
LEMMA OthersPod ==
  ASSUME TypeOK, NEW n \in Name, PodOK(n),
         \/ ChangeTables \/ CreateASet \/ ChangeRows \/ UNCHANGED vars
         \/ \E m \in JobName : \/ PodsStart(m) \/ PodsScaledDown(m) \/ DeadlinePasses(m)
                               \/ PodsEnd(m) \/ PodGone(m)
  PROVE  PodOK(n)'
<1>1. ClusterOK /\ RequestsOK /\ JobName \subseteq Name
  BY TypeParts, JobsAssumption DEF JobsAssumption
<1>2. CASE ChangeTables
  <2>1. UNCHANGED <<oneoff, created, suspectpod>>
    BY <1>2 DEF ChangeTables, cluster, controlled, ghosts
  <2>2. req' = [h \in Handler |-> [req[h] EXCEPT !.calm = FALSE]]
    BY <1>2 DEF ChangeTables
  <2>3. ASSUME NEW h \in Handler PROVE AlikePod(req[h], req'[h])
    BY <1>1, <2>2 DEF RequestsOK, Request, AlikePod
  <2> QED BY <2>1, <2>3, PodUntouched DEF PodKept
<1>3. ASSUME UNCHANGED <<oneoff, created, suspectpod, req>> PROVE PodOK(n)'
  BY <1>3, PodUntouched DEF PodKept, AlikePod
<1>4. CASE \/ CreateASet \/ ChangeRows \/ UNCHANGED vars
           \/ \E m \in JobName : PodsStart(m) \/ PodsScaledDown(m) \/ DeadlinePasses(m) \/ PodsEnd(m)
  BY <1>3, <1>4 DEF CreateASet, ChangeRows, vars, PodsStart, PodsScaledDown, DeadlinePasses,
                    PodsEnd, cluster, controlled, ghosts
<1>5. ASSUME NEW m \in Name, PodGone(m) PROVE PodOK(n)'
  <2>1. /\ oneoff[m].state = "terminating" /\ UNCHANGED <<created, suspectpod, req>>
        /\ m # n => oneoff'[n] = oneoff[n]
        /\ m = n => oneoff'[n] = NoOneOff
    BY <1>1, <1>5 DEF PodGone, ghosts, ClusterOK
  <2>2. CASE m # n
    BY <2>1, <2>2, PodUntouched DEF PodKept, AlikePod
  <2>3. CASE m = n
    <3>1. PodApart(n)'
      BY <2>1 DEF PodOK, PodApart
    <3>2. Created(n) => Created(n)'
      BY <2>1, <2>3 DEF Created, NoOneOff
    <3>3. AsCreated(n)'
      BY <2>1, <3>2 DEF PodOK, AsCreated
    <3> QED BY <2>1, <2>3, <3>1, <3>3 DEF PodOK, NoOneOff
  <2> QED BY <2>2, <2>3
<1> QED BY <1>1, <1>2, <1>4, <1>5

\* At first there are no pods.
LEMMA InitPod ==
  ASSUME Init, NEW n \in Name
  PROVE  PodOK(n)
<1>1. \A h \in Handler : ~OnPod(req[h], n)
  BY DEF Init, OnPod, NoRequest
<1>2. Created(n) /\ oneoff[n].state = "none"
  BY DEF Init, Created, NoOneOff
<1> QED BY <1>1, <1>2 DEF PodOK, PodApart, AsCreated

\* Every step keeps the invariant of every name.
LEMMA NextPod ==
  ASSUME TypeOK, Ops, [Next]_vars, NEW n \in Name, PodOK(n)
  PROVE  PodOK(n)'
<1>1. ASSUME NEW h \in Handler, Step(h) PROVE PodOK(n)'
  BY <1>1, ReadingPod, JobStepPod, ExistsPod, DeletedPod, CreatedPod DEF Step
<1> QED BY <1>1, StartPod, FailurePod, OthersPod DEF Next

\* Whatever requests for one-off pods overlap, fail or have their errors ignored: a name
\* that is not suspect has the pod that was answered last, or none that runs after a stop.
THEOREM OneOffsAsAnswered == Spec => []OneOffAsAnswered
<1> DEFINE Inv == TypeOK /\ Ops /\ \A n \in Name : PodOK(n)
<1>1. Init => Inv
  BY InitType, OpsInit, InitPod, NamesAssumption, JobsAssumption
<1>2. Inv /\ [Next]_vars => Inv'
  <2>1. TypeOK /\ Ops /\ [Next]_vars => TypeOK' /\ Ops'
    BY NextType, OpsNext, NamesAssumption, ServicesAssumption, JobsAssumption
  <2>2. ASSUME Inv, [Next]_vars PROVE \A n \in Name : PodOK(n)'
    BY <2>2, NextPod
  <2> QED BY <2>1, <2>2
<1>3. Inv => OneOffAsAnswered
  <2>1. ASSUME Inv, NEW n \in Name, n \notin suspectpod,
               \A h \in Handler : ~(ForPod(req[h]) /\ req[h].name = n /\ req[h].begun)
        PROVE  Created(n)
    <3>1. \A h \in Handler : ~(OnPod(req[h], n) /\ req[h].begun)
      BY <2>1 DEF OnPod
    <3> QED BY <2>1, <3>1 DEF PodOK, AsCreated
  <2> QED BY <2>1 DEF OneOffAsAnswered, Created
<1> QED BY <1>1, <1>2, <1>3, PTL DEF Spec
==============================================================================
