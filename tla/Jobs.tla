--------------------------------- MODULE Jobs ---------------------------------
(***************************************************************************)
(* Jobs, cron jobs and one-off pods of a space (jobs/, app/oneoff.go, and  *)
(* their part of runtime/kubernetes.go) with the environment they are      *)
(* given.  Jobs have rows in the database; what runs is a job of           *)
(* Kubernetes, which starts pods, and the two are found by name.  Deleting *)
(* a job leaves its pods, so they are deleted after it, by their label.    *)
(*                                                                         *)
(* A run is known by the number of the request that asked for it.  Images, *)
(* commands, plans and memory limits are left out.                         *)
(***************************************************************************)
EXTENDS ConfigVars

CONSTANTS Handler,      \* the concurrent requests
          Env,          \* bound: the variables given with one-off pods
          JobName,      \* bound: the names with jobs and one-off pods
          Start,        \* what the tables of ConfigVars hold at first
          Rules,        \* bound: the rules that are added, ...
          VarSpecs,     \* ... the variables added to sets, ...
          Edited,       \* ... and the sets that are changed
          Parallelism,  \* the numbers of pods a job can be scaled to
          MaxRequests,  \* bound: the requests, those that change tables included
          MaxFailures   \* bound: failed statements and requests

ASSUME JobsAssumption ==
  /\ JobName \subseteq Name /\ Edited \subseteq Set /\ Rules \subseteq Rule
  /\ Env \subseteq Environment /\ VarSpecs \subseteq Environment
  /\ \A t \in Start :
       /\ t.configvars \in [Set -> Environment] /\ t.includes \subseteq Set \X Set
       /\ t.configbound \subseteq Name \X Set /\ t.servicebound \subseteq Name \X Service
       /\ t.configvarsmap \subseteq Rule
  /\ Parallelism \subseteq Nat /\ 1 \in Parallelism
  /\ MaxRequests \in Nat /\ MaxFailures \in Nat

VARIABLES
  jobs, cronjobs,  \* the rows of the tables of these names
  job,             \* job[n]: the job of Kubernetes of that name
  pods,            \* pods[n]: the runs that have pods labelled with that name ...
  ending,          \* ... and those with pods that were deleted and have not ended yet
  oneoff,          \* oneoff[n]: the pod of that name without an owner
  req,             \* req[h]: the request the handler h works on
  answered,        \* ghost: the run that was answered well last, 0 if it was stopped
  wanted,          \* ghost: the parallelism that was answered well last
  created,         \* ghost: the one-off pod that was answered well last, 0 if stopped
  suspect,         \* ghost: names with overlapping or failed requests for their job ...
  suspectpod,      \* ghost: ... or their one-off pod
  requests, failures  \* the numbers of them so far

rows == <<jobs, cronjobs>>
controlled == <<pods, ending>>
cluster == <<job, controlled, oneoff>>
ghosts == <<answered, wanted, created, suspect, suspectpod>>
counts == <<requests, failures>>
vars == <<tables, rows, cluster, req, ghosts, counts>>

Run == 1..MaxRequests
\* deadline: after a scaling its pods may run for so long only; then the job is over.
Job == [run : Run \union {0}, parallelism : Parallelism, version : Run \union {0},
        deadline : {"none", "set", "over"}]
NoJob == [run |-> 0, parallelism |-> 1, version |-> 0, deadline |-> "none"]
JobOfRun(r) == [NoJob EXCEPT !.run = r, !.version = r]
OneOff == [run : Run \union {0}, state : {"none", "running", "terminating"}]
NoOneOff == [run |-> 0, state |-> "none"]
Empty == [x \in {} |-> CHOOSE v \in Value : TRUE]

Op == {"run", "rerun", "runcron", "oneoff", "stop", "clean", "stopcron", "scale", "stoponeoff"}
Reading == {"row", "exists", "oneoffexists", "getjob", "bindings", "configvars", "services", "create"}
Writing == {"deljobs", "delpods", "podsagain", "delpod", "putjob"}

\* env is the environment so far, services those to be asked yet, copy the job as it
\* was read; alone: no other request for the same thing; begun: it wrote something;
\* calm: since the binds were read nothing failed and no table changed.
Request == [pc : {"idle"} \union Reading \union Writing, op : Op, name : Name, id : Run \union {0},
            extra : Env \union {Empty}, env : Environment, configset : SUBSET Set,
            services : SUBSET Service, copy : Job, parallelism : Parallelism,
            alone : BOOLEAN, begun : BOOLEAN, calm : BOOLEAN]
NoRequest == [pc |-> "idle", op |-> "stop", name |-> CHOOSE n \in Name : TRUE, id |-> 0,
              extra |-> Empty, env |-> Empty, configset |-> {}, services |-> {}, copy |-> NoJob,
              parallelism |-> 1, alone |-> TRUE, begun |-> FALSE, calm |-> FALSE]

\* The state is of its type; who is to ask a service has one to ask, and what is
\* created has all of them asked.
TypeOK ==
  /\ TablesOK
  /\ jobs \subseteq Name /\ cronjobs \subseteq Name
  /\ job \in [Name -> Job] /\ pods \in [Name -> SUBSET Run] /\ ending \in [Name -> SUBSET Run]
  /\ oneoff \in [Name -> OneOff]
  /\ req \in [Handler -> Request]
  /\ \A h \in Handler : /\ req[h].pc = "services" => req[h].services # {}
                        /\ req[h].pc = "create" => req[h].services = {}
  /\ answered \in [Name -> Run \union {0}] /\ wanted \in [Name -> Parallelism]
  /\ created \in [Name -> Run \union {0}]
  /\ suspect \subseteq Name /\ suspectpod \subseteq Name
  /\ requests \in 0..MaxRequests /\ failures \in 0..MaxFailures

-----------------------------------------------------------------------------
(* Requests begin and end. *)

ForPod(r) == r.op \in {"oneoff", "stoponeoff"}
\* Cron jobs never reach Kubernetes, but stopping one deletes jobs of its name.
ForJob(r) == r.op \in {"run", "rerun", "stop", "clean", "stopcron", "scale"}

Arrive(h, r) ==
  LET others == {o \in Handler : /\ req[o].pc # "idle" /\ req[o].name = r.name
                                 /\ \/ ForJob(r) /\ ForJob(req[o])
                                    \/ ForPod(r) /\ ForPod(req[o])}
  IN  /\ req[h].pc = "idle" /\ requests < MaxRequests
      /\ requests' = requests + 1
      /\ req' = [o \in Handler |->
                   IF o = h THEN [r EXCEPT !.id = requests + 1, !.alone = others = {}]
                   ELSE IF o \in others THEN [req[o] EXCEPT !.alone = FALSE] ELSE req[o]]
      /\ suspect' = IF others # {} /\ ForJob(r) THEN suspect \union {r.name} ELSE suspect
      /\ suspectpod' = IF others # {} /\ ForPod(r) THEN suspectpod \union {r.name} ELSE suspectpod
      /\ UNCHANGED <<tables, rows, cluster, answered, wanted, created, failures>>

Begin(h, op, pc, n) == Arrive(h, [NoRequest EXCEPT !.op = op, !.pc = pc, !.name = n])
StartDeployJob(h, n, delete) == Begin(h, IF delete THEN "rerun" ELSE "run", "row", n)
StartDeployCronJob(h, n) == Begin(h, "runcron", "row", n)
StartStopJob(h, n) == Begin(h, "stop", "exists", n)
StartCleanJobs(h, n) == Begin(h, "clean", "deljobs", n)
\* Whether there is such a cron job does not matter to StopCronJob.
StartStopCronJob(h, n) == Begin(h, "stopcron", "deljobs", n)
StartStopOneOffPod(h, n) == Begin(h, "stoponeoff", "oneoffexists", n)
StartScaleJob(h, n, k) ==
  Arrive(h, [NoRequest EXCEPT !.op = "scale", !.pc = "getjob", !.name = n, !.parallelism = k])
StartOneOff(h, n, env) ==
  Arrive(h, [NoRequest EXCEPT !.op = "oneoff", !.pc = "oneoffexists", !.name = n, !.extra = env])

To(h, pc) == req' = [req EXCEPT ![h].pc = pc, ![h].begun = @ \/ req[h].pc \in Writing]
Idle(h) == req' = [req EXCEPT ![h] = NoRequest]

\* It ends with an error or a refusal: if it wrote something, what it leaves is suspect.
Fail(h) ==
  LET r == req[h] IN
  /\ Idle(h)
  /\ suspect' = IF r.begun /\ ForJob(r) THEN suspect \union {r.name} ELSE suspect
  /\ suspectpod' = IF r.begun /\ ForPod(r) THEN suspectpod \union {r.name} ELSE suspectpod
  /\ UNCHANGED <<answered, wanted, created>>

\* It ends well.  A request that was alone and deleted job and pods puts right
\* whatever was suspect, and so does a creation of a one-off pod that found none.
Finish(h) ==
  LET r == req[h] n == r.name IN
  /\ Idle(h)
  /\ suspect' = IF r.alone /\ (r.begun \/ r.pc \in Writing) /\ ForJob(r) /\ r.op # "scale"
                THEN suspect \ {n} ELSE suspect
  /\ suspectpod' = CASE r.op = "oneoff" /\ oneoff[n].run # 0 -> suspectpod \union {n}
                     [] r.op = "oneoff" /\ oneoff[n].run = 0 /\ r.alone -> suspectpod \ {n}
                     [] r.op = "stoponeoff" /\ r.alone -> suspectpod \ {n}
                     [] OTHER -> suspectpod
  /\ answered' = CASE r.op \in {"run", "rerun"} -> [answered EXCEPT ![n] = r.id]
                   [] r.op \in {"stop", "clean", "stopcron"} -> [answered EXCEPT ![n] = 0]
                   [] OTHER -> answered
  /\ wanted' = CASE r.op \in {"run", "rerun"} -> [wanted EXCEPT ![n] = 1]
                 [] r.op = "scale" -> [wanted EXCEPT ![n] = r.parallelism]
                 [] OTHER -> wanted
  /\ created' = CASE r.op = "oneoff" -> [created EXCEPT ![n] = r.id]
                  [] r.op = "stoponeoff" -> [created EXCEPT ![n] = 0]
                  [] OTHER -> created

-----------------------------------------------------------------------------
(* Rows of jobs and cron jobs. *)

\* CreateJob, CreateCronJob: the primary key refuses a second row.  UpdateJob and
\* UpdateCronJob also add the row they do not find; of two that both do not find it
\* the second is refused.
AddJobRow(n) ==
  /\ n \notin jobs /\ jobs' = jobs \union {n}
  /\ UNCHANGED <<tables, cronjobs>>
AddCronJobRow(n) ==
  /\ n \notin cronjobs /\ cronjobs' = cronjobs \union {n}
  /\ UNCHANGED <<tables, jobs>>

\* DeleteJob, DeleteCronJob: only the row goes; of a cron job even after it was
\* answered that there is none in Kubernetes.
DeleteJobRow(n) == jobs' = jobs \ {n} /\ UNCHANGED <<tables, cronjobs>>
DeleteCronJobRow(n) == cronjobs' = cronjobs \ {n} /\ UNCHANGED <<tables, jobs>>

-----------------------------------------------------------------------------
(* DeployJob and DeployCronJob up to the environment. *)

ReadRow(h) ==
  LET r == req[h] IN
  /\ r.pc = "row"
  /\ IF r.name \in IF r.op = "runcron" THEN cronjobs ELSE jobs
     THEN To(h, IF r.op = "runcron" THEN "bindings" ELSE "exists") /\ UNCHANGED ghosts
     ELSE Fail(h)
  /\ UNCHANGED cluster

\* Mutant: the job that runs is deleted even when that was not asked for.
DeleteAlways(h) ==
  LET r == req[h] IN
  /\ r.pc = "exists"
  /\ \/ job[r.name].run # 0 /\ To(h, "deljobs") /\ UNCHANGED ghosts
     \/ job[r.name].run = 0 /\ r.op # "stop" /\ To(h, "bindings") /\ UNCHANGED ghosts
     \/ job[r.name].run = 0 /\ r.op = "stop" /\ Fail(h)
  /\ UNCHANGED cluster

\* A job that runs is in the way unless it is to be deleted; none to stop is refused.
JobExists(h) ==
  LET r == req[h]
      exists == job[r.name].run # 0
  IN  /\ r.pc = "exists"
      /\ \/ exists /\ r.op \in {"rerun", "stop"} /\ To(h, "deljobs") /\ UNCHANGED ghosts
         \/ ~exists /\ r.op \in {"run", "rerun"} /\ To(h, "bindings") /\ UNCHANGED ghosts
         \/ exists /\ r.op = "run" /\ Fail(h)
         \/ ~exists /\ r.op = "stop" /\ Fail(h)
      /\ UNCHANGED cluster

\* Rules are read once for every variable of a service; here once for every service.
GetBindings(h) ==
  LET n == req[h].name IN
  /\ req[h].pc = "bindings"
  /\ \E configset \in ConfigSets(n) :
       req' = [req EXCEPT ![h].pc = "configvars", ![h].configset = configset,
                          ![h].services = Services(n), ![h].calm = TRUE]
  /\ UNCHANGED <<cluster, ghosts>>

\* Mutant: a service more is asked than there is.
OneServiceMore(r, env, left) ==
  [r EXCEPT !.pc = IF r.pc = "services" /\ left = {} THEN "create" ELSE "services",
            !.services = left, !.configset = {}, !.env = Override(r.extra, env)]

\* The variables given with a one-off pod are added last, but do not replace any.
Assembled(r, env, left) ==
  [r EXCEPT !.pc = IF left = {} THEN "create" ELSE "services", !.services = left,
            !.configset = {}, !.env = IF left = {} THEN Override(r.extra, env) ELSE env]

ReadConfigVars(h) ==
  LET r == req[h] IN
  /\ r.pc = "configvars"
  /\ \E setvars \in GetConfigVars(r.configset) :
       req' = [req EXCEPT ![h] = Assembled(r, Override(BuiltIn[r.name], setvars), r.services)]
  /\ UNCHANGED <<cluster, ghosts>>

\* The binds in the order of the rows, which is none.
AskService(h) ==
  LET r == req[h] IN
  /\ r.pc = "services"
  /\ \E s \in r.services :
       \/ Unfit(r.name, s) /\ Fail(h)
       \/ /\ ~Unfit(r.name, s)
          /\ \E new \in ServiceVars(r.name, s) :
               req' = [req EXCEPT ![h] = Assembled(r, Override(r.env, new), r.services \ {s})]
          /\ UNCHANGED ghosts
  /\ UNCHANGED cluster

-----------------------------------------------------------------------------
(* Kubernetes: jobs, and the pods they start. *)

\* No run is over its own name: what is there is refused.
CreateJob(h) ==
  LET r == req[h] n == r.name IN
  /\ r.pc = "create" /\ r.op \in {"run", "rerun"}
  /\ \/ /\ job[n].run = 0
        /\ job' = [job EXCEPT ![n] = JobOfRun(r.id)]
        /\ Finish(h)
     \/ job[n].run # 0 /\ Fail(h) /\ UNCHANGED job
  /\ UNCHANGED <<controlled, oneoff>>

\* deploymentToCronJob uses a pointer it never set, so that no cron job is ever
\* created; nor is one updated, since it would have to be there.
CreateCronJob(h) ==
  /\ req[h].pc = "create" /\ req[h].op = "runcron"
  /\ Fail(h)
  /\ UNCHANGED cluster

\* DeleteJob: the jobs with the label, their pods stay ...
DeleteJobs(h) ==
  /\ req[h].pc = "deljobs"
  /\ job' = [job EXCEPT ![req[h].name] = NoJob]
  /\ To(h, "delpods")
  /\ UNCHANGED <<controlled, oneoff, ghosts>>

\* Mutant: pods are left to end by themselves.
KeepPods(h) ==
  /\ req[h].pc \in {"delpods", "podsagain"}
  /\ IF req[h].op = "rerun" THEN To(h, "bindings") /\ UNCHANGED ghosts ELSE Finish(h)
  /\ UNCHANGED cluster

\* Pods that are deleted go on for a while: nobody waits for their end.
EndPods(n, runs) ==
  /\ pods' = [pods EXCEPT ![n] = @ \ runs]
  /\ ending' = [ending EXCEPT ![n] = @ \union (pods[n] \intersect runs)]

\* ... until the pods with the label are deleted, whichever job they are of; CleanJobs
\* does so twice.
DeletePods(h) ==
  LET r == req[h] IN
  /\ r.pc \in {"delpods", "podsagain"}
  /\ EndPods(r.name, Run)
  /\ CASE r.op = "rerun" -> To(h, "bindings") /\ UNCHANGED ghosts
       [] r.op = "clean" /\ r.pc = "delpods" -> To(h, "podsagain") /\ UNCHANGED ghosts
       [] OTHER -> Finish(h)
  /\ UNCHANGED <<job, oneoff>>

\* ScaleJob: the job is read and written as a whole.
GetJob(h) ==
  LET n == req[h].name IN
  /\ req[h].pc = "getjob"
  /\ \/ /\ job[n].run # 0
        /\ req' = [req EXCEPT ![h].pc = "putjob", ![h].copy = job[n]]
        /\ UNCHANGED ghosts
     \/ job[n].run = 0 /\ Fail(h)
  /\ UNCHANGED cluster

\* The number of pods, and for how long they may run, be it no time at all.
Scaled(j, r) == [j EXCEPT !.parallelism = r.parallelism, !.version = r.id,
                          !.deadline = IF @ = "none" THEN "set" ELSE @]

\* It carries the version that was read, so that it is refused after any change; it may
\* be refused as well because what is read leaves parts of the job out.
PutJob(h) ==
  LET r == req[h] n == r.name IN
  /\ r.pc = "putjob"
  /\ \/ /\ job[n] = r.copy
        /\ job' = [job EXCEPT ![n] = Scaled(@, r)]
        /\ Finish(h)
     \/ Fail(h) /\ UNCHANGED job
  /\ UNCHANGED <<controlled, oneoff>>

\* The controller of jobs (external).  A job that ran out of time stays, without pods.
PodsStart(n) ==
  /\ job[n].run # 0 /\ job[n].parallelism > 0 /\ job[n].deadline # "over"
  /\ pods' = [pods EXCEPT ![n] = @ \union {job[n].run}]
  /\ UNCHANGED <<tables, rows, job, ending, oneoff, req, ghosts, counts>>
PodsScaledDown(n) ==
  /\ job[n].run # 0 /\ job[n].parallelism = 0
  /\ EndPods(n, {job[n].run})
  /\ UNCHANGED <<tables, rows, job, oneoff, req, ghosts, counts>>
DeadlinePasses(n) ==
  /\ job[n].run # 0 /\ job[n].deadline = "set"
  /\ job' = [job EXCEPT ![n].deadline = "over"]
  /\ EndPods(n, {job[n].run})
  /\ UNCHANGED <<tables, rows, oneoff, req, ghosts, counts>>
PodsEnd(n) ==
  /\ \E r \in ending[n] : ending' = [ending EXCEPT ![n] = @ \ {r}]
  /\ UNCHANGED <<tables, rows, job, pods, oneoff, req, ghosts, counts>>

-----------------------------------------------------------------------------
(* One-off pods. *)

OneOffExists(h) ==
  LET r == req[h] IN
  /\ r.pc = "oneoffexists"
  /\ \/ oneoff[r.name].run # 0 /\ To(h, "delpod") /\ UNCHANGED ghosts
     \/ /\ oneoff[r.name].run = 0
        /\ IF r.op = "oneoff" THEN To(h, "bindings") /\ UNCHANGED ghosts ELSE Finish(h)
  /\ UNCHANGED cluster

\* Mutant: a pod is not stopped.
KeepPod(h) ==
  LET r == req[h] IN
  /\ r.pc = "delpod"
  /\ IF r.op = "oneoff" THEN To(h, "bindings") /\ UNCHANGED ghosts ELSE Finish(h)
  /\ UNCHANGED cluster

\* A pod that is deleted is there until its containers have ended.
DeletePod(h) ==
  LET r == req[h] n == r.name IN
  /\ r.pc = "delpod"
  /\ oneoff' = IF oneoff[n].run = 0 THEN oneoff ELSE [oneoff EXCEPT ![n].state = "terminating"]
  /\ IF r.op = "oneoff" THEN To(h, "bindings") /\ UNCHANGED ghosts ELSE Finish(h)
  /\ UNCHANGED <<job, controlled>>

PodGone(n) ==
  /\ oneoff[n].state = "terminating"
  /\ oneoff' = [oneoff EXCEPT ![n] = NoOneOff]
  /\ UNCHANGED <<tables, rows, job, controlled, req, ghosts, counts>>

\* The status of the answer is not looked at: a pod that is refused because the one
\* before is there still is answered as created.
CreateOneOffPod(h) ==
  LET r == req[h] n == r.name IN
  /\ r.pc = "create" /\ r.op = "oneoff"
  /\ oneoff' = IF oneoff[n].run # 0 THEN oneoff
               ELSE [oneoff EXCEPT ![n] = [run |-> r.id, state |-> "running"]]
  /\ Finish(h)
  /\ UNCHANGED <<job, controlled>>

-----------------------------------------------------------------------------
(* Failures and changes of the tables. *)

\* A statement or a request fails, or its effect takes place but its answer is lost.
\* (Before the last request the latter is a failure of the next one.)
RequestFailure(h) ==
  /\ req[h].pc \notin {"idle", "bindings", "oneoffexists"} /\ failures < MaxFailures
  /\ failures' = failures + 1
  /\ Fail(h)
  /\ UNCHANGED <<tables, rows, cluster, requests>>

\* A job is created, or scaled, without the caller being told.
AnswerLost(h) ==
  LET r == req[h] n == r.name IN
  /\ failures < MaxFailures /\ failures' = failures + 1
  /\ \/ /\ r.pc = "create" /\ r.op \in {"run", "rerun"} /\ job[n].run = 0
        /\ job' = [job EXCEPT ![n] = JobOfRun(r.id)]
     \/ /\ r.pc = "putjob" /\ job[n] = r.copy
        /\ job' = [job EXCEPT ![n] = Scaled(@, r)]
  /\ Idle(h) /\ suspect' = suspect \union {n}
  /\ UNCHANGED <<tables, rows, controlled, oneoff, answered, wanted, created, suspectpod, requests>>

\* An error the handler does not heed: existence checks take it for a no, the error of
\* GetBindings is overwritten by the next one, and that of DeletePod is not looked at.
ErrorIgnored(h) ==
  LET r == req[h] IN
  /\ failures < MaxFailures /\ failures' = failures + 1
  /\ \/ /\ r.pc = "exists" /\ r.op # "stop"
        /\ To(h, "bindings") /\ UNCHANGED ghosts
     \/ /\ r.pc = "bindings"
        /\ req' = [req EXCEPT ![h].pc = "configvars"] /\ UNCHANGED ghosts
     \/ /\ r.pc \in {"oneoffexists", "delpod"}
        /\ req' = [req EXCEPT ![h] = IF r.op = "oneoff" THEN [r EXCEPT !.pc = "bindings"]
                                     ELSE NoRequest]
        /\ suspectpod' = suspectpod \union {r.name}
        /\ UNCHANGED <<answered, wanted, created, suspect>>
  /\ UNCHANGED <<tables, rows, cluster, requests>>

TableChange ==
  \/ \E s \in Edited :
       \/ Deleteset(s)
       \/ \E new \in VarSpecs : Addvars(s, new)
       \/ \E x \in DOMAIN configvars[s] : Deletevar(s, x) \/ \E v \in Value : Updatevar(s, x, v)
       \/ \E t \in Set : Includeset(s, t) \/ Deleteinclude(s, t)
  \/ \E n \in JobName :
       \/ \E s \in Set : BindConfig(n, s) \/ UnbindConfig(n, s)
       \/ \E s \in Service : BindService(n, s) \/ Unbindapp(n, s)
  \/ \E r \in Rules : Createbindmap(r) \/ Deletebindmap(r)

SecondStatement ==
  \/ \E s \in Set : DeleteSetRow(s)
  \/ \E n \in Name, s \in Service : DeleteRules(n, s)

\* Other requests change the tables: what is being assembled is not calm any more.
ChangeTables ==
  /\ \/ requests < MaxRequests /\ requests' = requests + 1 /\ TableChange /\ UNCHANGED failures
     \/ SecondStatement /\ UNCHANGED counts
     \/ failures < MaxFailures /\ failures' = failures + 1 /\ HalfDone /\ UNCHANGED requests
  /\ req' = [h \in Handler |-> [req[h] EXCEPT !.calm = FALSE]]
  /\ UNCHANGED <<rows, cluster, ghosts>>

CreateASet ==
  /\ \E s \in Set : Createset(s)
  /\ UNCHANGED <<rows, cluster, req, ghosts, counts>>

ChangeRows ==
  /\ requests < MaxRequests /\ requests' = requests + 1
  /\ \E n \in JobName : \/ AddJobRow(n) \/ AddCronJobRow(n)
                        \/ DeleteJobRow(n) \/ DeleteCronJobRow(n)
  /\ UNCHANGED <<cluster, req, ghosts, failures>>

-----------------------------------------------------------------------------
\* A space at work: tables that hold something, rows of jobs, nothing that runs.
Init ==
  /\ \E t \in Start : /\ configvars = t.configvars /\ includes = t.includes
                      /\ configbound = t.configbound /\ servicebound = t.servicebound
                      /\ configvarsmap = t.configvarsmap
  /\ sets = Set /\ unbinding = {} /\ deleting = {}
  /\ jobs = JobName /\ cronjobs = JobName
  /\ job = [n \in Name |-> NoJob]
  /\ pods = [n \in Name |-> {}] /\ ending = [n \in Name |-> {}]
  /\ oneoff = [n \in Name |-> NoOneOff]
  /\ req = [h \in Handler |-> NoRequest]
  /\ answered = [n \in Name |-> 0] /\ wanted = [n \in Name |-> 1]
  /\ created = [n \in Name |-> 0] /\ suspect = {} /\ suspectpod = {}
  /\ requests = 0 /\ failures = 0

StartRequest(h) == \E n \in JobName :
  \/ \E delete \in BOOLEAN : StartDeployJob(h, n, delete)
  \/ StartDeployCronJob(h, n) \/ StartStopJob(h, n) \/ StartCleanJobs(h, n)
  \/ StartStopCronJob(h, n) \/ StartStopOneOffPod(h, n)
  \/ \E k \in Parallelism : StartScaleJob(h, n, k)
  \/ \E env \in Env : StartOneOff(h, n, env)

Step(h) ==
  /\ \/ ReadRow(h) \/ JobExists(h) \/ GetBindings(h) \/ ReadConfigVars(h)
     \/ AskService(h) \/ CreateJob(h) \/ CreateCronJob(h)
     \/ DeleteJobs(h) \/ DeletePods(h) \/ GetJob(h) \/ PutJob(h)
     \/ OneOffExists(h) \/ DeletePod(h) \/ CreateOneOffPod(h)
  /\ UNCHANGED <<tables, rows, counts>>

Next ==
  \/ \E h \in Handler :
       StartRequest(h) \/ Step(h) \/ RequestFailure(h) \/ AnswerLost(h) \/ ErrorIgnored(h)
  \/ ChangeTables \/ CreateASet \/ ChangeRows
  \/ \E n \in JobName : \/ PodsStart(n) \/ PodsScaledDown(n) \/ DeadlinePasses(n)
                        \/ PodsEnd(n) \/ PodGone(n)

Spec == Init /\ [][Next]_vars

-----------------------------------------------------------------------------
\* What a job or a one-off pod is created with is what the sets and services bound to
\* its name give it after the rules, in this order of precedence, and besides the
\* variables that came with the request, provided nothing was changed and no query
\* failed since the binds were read.
EnvironmentAsBound ==
  \A h \in Handler : req[h].pc = "create" /\ req[h].calm =>
    IsEnvironmentOf(req[h].env, req[h].name, req[h].extra)

\* "Override config vars with any one-off env overrides" (app/oneoff.go:125): a one-off
\* pod is created with the values that were given with it.
OneOffEnvOverrides ==
  \A h \in Handler : req[h].pc = "create" /\ req[h].op = "oneoff" =>
    \A x \in DOMAIN req[h].extra : x \in DOMAIN req[h].env /\ req[h].env[x] = req[h].extra[x]

\* A name that no two requests and no failure interfered with has the job that was
\* answered last, as often as it was scaled to, and pods of no other run but for those
\* that were deleted and are ending; after a stop it has neither.  (Nobody waits for the
\* pods that are ending: those of the run before go on beside the new ones for a while,
\* also after the answer.)  A stop or a rerun that found the job, or a clean, puts right what
\* overlapping and failed requests left; a stop that finds pods only does not.
JobAsAnswered ==
  \A n \in Name :
    n \notin suspect /\ (\A h \in Handler : ~(ForJob(req[h]) /\ req[h].name = n /\ req[h].begun)) =>
      IF answered[n] = 0 THEN job[n].run = 0 /\ pods[n] = {}
      ELSE /\ job[n].run = answered[n] /\ job[n].parallelism = wanted[n]
           /\ pods[n] \subseteq {answered[n]}

\* Likewise of one-off pods, unless one was asked for while the one before it was there:
\* it is still there when the new one is created.
OneOffAsAnswered ==
  \A n \in Name :
    n \notin suspectpod /\ (\A h \in Handler : ~(ForPod(req[h]) /\ req[h].name = n /\ req[h].begun)) =>
      IF created[n] = 0 THEN oneoff[n].state # "running"
      ELSE oneoff[n] = [run |-> created[n], state |-> "running"]

\* A job that runs only goes by a request that says so: one to deploy it again needs
\* deleteBeforeCreate ("please use deleteBeforeCreate for re-run/overwrite").  So do
\* pods, unless the job was scaled: to nothing, or with a deadline that passes.  Nothing
\* but a scaling gives a job a deadline, and a new run starts without one.
RunsUntilToldSo ==
  [][\A n \in Name :
       LET asked(ops) == \E h \in Handler : /\ req[h].pc # "idle" /\ req[h].name = n
                                            /\ req[h].op \in ops
           scaled(r) == r = job[n].run /\ (job[n].parallelism = 0 \/ job[n].deadline # "none")
       IN  /\ \/ job[n].run # 0 /\ job'[n].run # job[n].run
              \/ \E r \in pods[n] \ pods'[n] : ~scaled(r)
              => asked({"rerun", "stop", "clean", "stopcron"})
           /\ job[n].deadline = "none" /\ job'[n].deadline # "none" => asked({"scale"})
           /\ job[n].run = 0 /\ job'[n].run # 0 => job'[n].deadline = "none"]_vars
=============================================================================
