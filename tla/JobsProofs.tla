------------------------------ MODULE JobsProofs ------------------------------
(***************************************************************************)
(* Proofs about jobs and one-off pods, for any number of requests, names,  *)
(* config sets, services, variables, rules and failures.                   *)
(***************************************************************************)
EXTENDS Jobs, TLAPS

-----------------------------------------------------------------------------
(* Environments: what the operators of ConfigVars put together is one. *)

\* A function from some of the variable names to values is an environment, and an
\* environment is one.
LEMMA EnvironmentIntro ==
  ASSUME NEW D \in SUBSET VarName, NEW f \in [D -> Value]
  PROVE  f \in Environment
BY DEF Environment

\* ... and has that form.
LEMMA EnvironmentElim ==
  ASSUME NEW f \in Environment
  PROVE  DOMAIN f \in SUBSET VarName /\ f \in [DOMAIN f -> Value]
BY DEF Environment

\* Putting one environment over another gives one, ...
LEMMA OverrideType ==
  ASSUME NEW f \in Environment, NEW g \in Environment
  PROVE  Override(f, g) \in Environment
<1>1. /\ DOMAIN f \in SUBSET VarName /\ f \in [DOMAIN f -> Value]
      /\ DOMAIN g \in SUBSET VarName /\ g \in [DOMAIN g -> Value]
  BY EnvironmentElim
<1>2. DOMAIN f \union DOMAIN g \in SUBSET VarName
  BY <1>1
<1>3. Override(f, g) \in [DOMAIN f \union DOMAIN g -> Value]
  BY <1>1 DEF Override
<1> QED BY <1>2, <1>3, EnvironmentIntro

\* ... so does leaving names out, ...
LEMMA WithoutType ==
  ASSUME NEW f \in Environment, NEW xs
  PROVE  Without(f, xs) \in Environment
<1>1. DOMAIN f \in SUBSET VarName /\ f \in [DOMAIN f -> Value]
  BY EnvironmentElim
<1>2. DOMAIN f \ xs \in SUBSET VarName
  BY <1>1
<1>3. Without(f, xs) \in [DOMAIN f \ xs -> Value]
  BY <1>1 DEF Without
<1> QED BY <1>2, <1>3, EnvironmentIntro

\* ... and there is one without names.
LEMMA EmptyType == Empty \in Environment
<1>1. Empty \in [{} -> Value]
  BY DEF Empty
<1> QED BY <1>1, EnvironmentIntro

\* What is chosen among pairs of names and values is an environment.
LEMMA ChoicesType ==
  ASSUME NEW pairs \in SUBSET (VarName \X Value), NEW f \in Choices(pairs)
  PROVE  f \in Environment
<1> DEFINE names == {p[1] : p \in pairs}
           values == {p[2] : p \in pairs}
<1>1. names \in SUBSET VarName /\ values \subseteq Value
  OBVIOUS
<1>2. f \in [names -> values]
  BY DEF Choices
<1>3. f \in [names -> Value]
  BY <1>1, <1>2
<1> QED BY <1>1, <1>3, EnvironmentIntro

\* What is read of the binds to config sets are config sets, ...
LEMMA ConfigSetsType ==
  ASSUME NEW n, NEW configset \in ConfigSets(n)
  PROVE  configset \in SUBSET Set
<1> DEFINE candidates == {s \in Set : <<n, s>> \in configbound}
<1>1. CASE candidates = {}
  <2>1. configset \in {{}}
    BY <1>1 DEF ConfigSets
  <2> QED BY <2>1
<1>2. CASE candidates # {}
  <2>1. configset \in {{s} : s \in candidates}
    BY <1>2 DEF ConfigSets
  <2> QED BY <2>1
<1> QED BY <1>1, <1>2

\* ... whose variables are an environment, whatever they include, ...
LEMMA ConfigVarsType ==
  ASSUME TablesOK, NEW configset \in SUBSET Set, NEW f \in GetConfigVars(configset)
  PROVE  f \in Environment
<1> DEFINE in == {c \in Set : \E p \in configset : <<p, c>> \in includes}
           read == configset \union in
           pairs == UNION {SetVars(s) : s \in read}
<1>1. configvars \in [Set -> Environment]
  BY DEF TablesOK
<1>2. pairs \in SUBSET (VarName \X Value)
  <2>1. ASSUME NEW s \in Set PROVE SetVars(s) \subseteq VarName \X Value
    <3>1. configvars[s] \in Environment
      BY <1>1
    <3>2. /\ DOMAIN configvars[s] \in SUBSET VarName
          /\ configvars[s] \in [DOMAIN configvars[s] -> Value]
      BY <3>1, EnvironmentElim
    <3> QED BY <3>2 DEF SetVars
  <2>2. read \subseteq Set
    OBVIOUS
  <2> QED BY <2>1, <2>2
<1> QED BY <1>2, ChoicesType DEF GetConfigVars

\* ... and those of a service after the rules.
LEMMA ServiceVarsType ==
  ASSUME NamesAssumption, ServicesAssumption, TablesOK,
         NEW n \in Name, NEW s \in Service, NEW f \in ServiceVars(n, s)
  PROVE  f \in Environment
<1>1. Offered[s] \in Environment
  BY DEF ServicesAssumption
<1>2. DOMAIN Offered[s] \in SUBSET VarName /\ Offered[s] \in [DOMAIN Offered[s] -> Value]
  BY <1>1, EnvironmentElim
<1>3. NewVars(n, s) \in SUBSET (VarName \X Value)
  <2>1. ASSUME NEW v \in DOMAIN Offered[s], NEW r \in RulesFor(n, s)
        PROVE  <<NewName(r, v), Offered[s][v]>> \in VarName \X Value
    <3>1. r \in Rule
      BY DEF RulesFor, TablesOK
    <3>2. r.newname \in NewNames
      BY <3>1 DEF Rule
    <3>3. v \in VarName /\ Offered[s][v] \in Value
      BY <1>2
    <3>4. Prefixed[r.newname, v] \in VarName /\ r.newname \in VarName
      BY <3>2, <3>3 DEF ServicesAssumption, NamesAssumption
    <3> QED BY <3>3, <3>4 DEF NewName
  <2> QED BY <2>1 DEF NewVars
<1>4. PICK new \in Choices(NewVars(n, s)) :
        f = Override(Without(Offered[s], RemoveVars(n, s)), new)
  BY DEF ServiceVars
<1>5. new \in Environment
  BY <1>3, ChoicesType
<1> QED BY <1>1, <1>4, <1>5, WithoutType, OverrideType

-----------------------------------------------------------------------------
(* Types of the parts. *)

\* Whoever asks services has one to ask, whoever creates has none left.
AskedOK(r) == (r.pc = "services" => r.services # {}) /\ (r.pc = "create" => r.services = {})
RequestsOK == /\ req \in [Handler -> Request]
              /\ \A h \in Handler : AskedOK(req[h])
ClusterOK == /\ job \in [Name -> Job] /\ pods \in [Name -> SUBSET Run]
             /\ ending \in [Name -> SUBSET Run] /\ oneoff \in [Name -> OneOff]
GhostsOK == /\ answered \in [Name -> Run \union {0}] /\ wanted \in [Name -> Parallelism]
            /\ created \in [Name -> Run \union {0}]
            /\ suspect \subseteq Name /\ suspectpod \subseteq Name
RowsOK == jobs \subseteq Name /\ cronjobs \subseteq Name
CountsOK == requests \in 0..MaxRequests /\ failures \in 0..MaxFailures

\* The parts make up the type invariant.
LEMMA TypeParts ==
  TypeOK <=> TablesOK /\ RowsOK /\ ClusterOK /\ RequestsOK /\ GhostsOK /\ CountsOK
BY DEF TypeOK, RowsOK, ClusterOK, RequestsOK, AskedOK, GhostsOK, CountsOK

\* The same after a step.
LEMMA TypePartsNext ==
  TablesOK' /\ RowsOK' /\ ClusterOK' /\ RequestsOK' /\ GhostsOK' /\ CountsOK' => TypeOK'
BY DEF TypeOK, RowsOK, ClusterOK, RequestsOK, AskedOK, GhostsOK, CountsOK

\* What stands for nothing has its type.
LEMMA EmptyTypes ==
  ASSUME NamesAssumption, JobsAssumption
  PROVE  NoRequest \in Request /\ NoJob \in Job /\ NoOneOff \in OneOff /\ AskedOK(NoRequest)
<1>1. (CHOOSE n \in Name : TRUE) \in Name
  BY DEF NamesAssumption
<1>2. 1 \in Parallelism
  BY DEF JobsAssumption
<1>3. NoJob \in Job /\ NoOneOff \in OneOff
  BY <1>2 DEF NoJob, Job, NoOneOff, OneOff
<1>4. NoRequest \in Request
  BY <1>1, <1>2, <1>3, EmptyType DEF NoRequest, Request, Op, Reading, Writing
<1> QED BY <1>3, <1>4 DEF AskedOK, NoRequest

\* The fields of a request.
LEMMA Fields ==
  ASSUME NEW r \in Request
  PROVE  /\ r.op \in Op /\ r.name \in Name /\ r.id \in Run \union {0} /\ r.env \in Environment
         /\ r.extra \in Env \union {Empty} /\ r.configset \in SUBSET Set
         /\ r.services \in SUBSET Service /\ r.copy \in Job /\ r.parallelism \in Parallelism
         /\ r.alone \in BOOLEAN /\ r.begun \in BOOLEAN /\ r.calm \in BOOLEAN
BY DEF Request

\* One handler's request changes, and is a request.
LEMMA PutRequest ==
  ASSUME RequestsOK, NEW h \in Handler, NEW r \in Request, AskedOK(r),
         req' = [req EXCEPT ![h] = r]
  PROVE  RequestsOK'
BY DEF RequestsOK

\* A request that goes on is a request, ...
LEMMA ToType ==
  ASSUME RequestsOK, NEW h \in Handler,
         NEW pc \in (Reading \union Writing) \ {"services", "create"}, To(h, pc)
  PROVE  RequestsOK'
<1> DEFINE r == [req[h] EXCEPT !.pc = pc, !.begun = req[h].begun \/ req[h].pc \in Writing]
<1>1. req[h] \in Request
  BY DEF RequestsOK
<1>2. r \in Request /\ AskedOK(r)
  BY <1>1 DEF Request, AskedOK
<1>3. req' = [req EXCEPT ![h] = r]
  BY DEF To
<1> HIDE DEF r
<1> QED BY <1>2, <1>3, PutRequest

\* ... so is one that has ended, ...
LEMMA IdleType ==
  ASSUME NamesAssumption, JobsAssumption, RequestsOK, NEW h \in Handler, Idle(h)
  PROVE  RequestsOK'
BY EmptyTypes, PutRequest DEF Idle

\* ... with an error ...
LEMMA FailType ==
  ASSUME NamesAssumption, JobsAssumption, RequestsOK, GhostsOK, NEW h \in Handler, Fail(h)
  PROVE  RequestsOK' /\ GhostsOK'
<1>1. RequestsOK'
  BY IdleType DEF Fail
<1>2. req[h].name \in Name
  BY Fields DEF RequestsOK
<1> QED BY <1>1, <1>2 DEF Fail, GhostsOK

\* ... or well.
LEMMA FinishType ==
  ASSUME NamesAssumption, JobsAssumption, RequestsOK, GhostsOK, NEW h \in Handler, Finish(h)
  PROVE  RequestsOK' /\ GhostsOK'
<1>1. RequestsOK'
  BY IdleType DEF Finish
<1>2. /\ req[h].name \in Name /\ req[h].id \in Run \union {0}
      /\ req[h].parallelism \in Parallelism
  BY Fields DEF RequestsOK
<1>3. suspect' \subseteq Name /\ suspectpod' \subseteq Name
  BY <1>2 DEF Finish, GhostsOK
<1>4. answered' \in [Name -> Run \union {0}]
  BY <1>2 DEF Finish, GhostsOK
<1>5. created' \in [Name -> Run \union {0}]
  BY <1>2 DEF Finish, GhostsOK
<1>6. wanted' \in [Name -> Parallelism]
  BY <1>2 DEF Finish, GhostsOK, JobsAssumption
<1> QED BY <1>1, <1>3, <1>4, <1>5, <1>6 DEF GhostsOK

\* The environment grows.
LEMMA AssembledType ==
  ASSUME JobsAssumption, NEW r \in Request, NEW env \in Environment, NEW left \in SUBSET Service
  PROVE  Assembled(r, env, left) \in Request /\ AskedOK(Assembled(r, env, left))
<1>1. r.extra \in Environment
  BY Fields, EmptyType DEF JobsAssumption
<1>2. Override(r.extra, env) \in Environment
  BY <1>1, OverrideType
<1> DEFINE e == IF left = {} THEN Override(r.extra, env) ELSE env
           pc == IF left = {} THEN "create" ELSE "services"
<1>3. e \in Environment /\ pc \in Reading
  BY <1>2 DEF Reading
<1>4. Assembled(r, env, left) = [r EXCEPT !.pc = pc, !.services = left, !.configset = {}, !.env = e]
  BY DEF Assembled
<1>5. pc = "services" => left # {}
  OBVIOUS
<1>6. pc = "create" => left = {}
  OBVIOUS
<1> HIDE DEF e, pc
<1> QED BY <1>3, <1>4, <1>5, <1>6 DEF Request, AskedOK

\* A request arrives.
LEMMA ArriveType ==
  ASSUME RequestsOK, GhostsOK, CountsOK, JobsAssumption,
         NEW h \in Handler, NEW r \in Request, AskedOK(r), Arrive(h, r)
  PROVE  RequestsOK' /\ GhostsOK' /\ CountsOK'
<1>0. requests < MaxRequests
  BY DEF Arrive
<1>1. requests + 1 \in Run /\ requests + 1 \in 0..MaxRequests
  BY <1>0 DEF CountsOK, Run, JobsAssumption
<1>2. r.name \in Name
  BY Fields
<1>3. GhostsOK' /\ CountsOK'
  BY <1>1, <1>2 DEF GhostsOK, CountsOK, Arrive
<1>4. PICK others \in SUBSET Handler :
        req' = [o \in Handler |->
                  IF o = h THEN [r EXCEPT !.id = requests + 1, !.alone = others = {}]
                  ELSE IF o \in others THEN [req[o] EXCEPT !.alone = FALSE] ELSE req[o]]
  BY DEF Arrive
<1>5. (others = {}) \in BOOLEAN
  OBVIOUS
<1>6. ASSUME NEW b \in BOOLEAN
      PROVE  /\ [r EXCEPT !.id = requests + 1, !.alone = b] \in Request
             /\ AskedOK([r EXCEPT !.id = requests + 1, !.alone = b])
  BY <1>1 DEF Request, AskedOK
<1>7. ASSUME NEW o \in Handler
      PROVE  /\ [req[o] EXCEPT !.alone = FALSE] \in Request
             /\ AskedOK([req[o] EXCEPT !.alone = FALSE])
             /\ req[o] \in Request /\ AskedOK(req[o])
  BY DEF RequestsOK, Request, AskedOK
<1>8. ASSUME NEW o \in Handler
      PROVE  req'[o] \in Request /\ AskedOK(req'[o])
  BY <1>4, <1>5, <1>6, <1>7
<1>9. RequestsOK'
  BY <1>4, <1>8 DEF RequestsOK
<1> QED BY <1>3, <1>9

-----------------------------------------------------------------------------
(* Each action keeps the types. *)

\* The tables, first the statements that change variables of sets.
LEMMA VariablesType ==
  ASSUME JobsAssumption, TablesOK, NEW s \in Set,
         \/ \E new \in VarSpecs : Addvars(s, new)
         \/ \E x \in DOMAIN configvars[s] : Deletevar(s, x) \/ \E v \in Value : Updatevar(s, x, v)
         \/ Deleteset(s)
  PROVE  TablesOK'
<1>1. configvars[s] \in Environment
  BY DEF TablesOK
<1>2. ASSUME NEW env \in Environment, configvars' = [configvars EXCEPT ![s] = env]
      PROVE  configvars' \in [Set -> Environment]
  BY <1>2 DEF TablesOK
<1>3. ASSUME NEW new \in VarSpecs, Addvars(s, new)
      PROVE  TablesOK'
  <2>1. Override(configvars[s], new) \in Environment
    BY <1>1, OverrideType DEF JobsAssumption
  <2>2. configvars' \in [Set -> Environment]
    BY <1>2, <1>3, <2>1 DEF Addvars
  <2> QED BY <1>3, <2>2 DEF Addvars, TablesOK, bound
<1>4. ASSUME NEW x, Deletevar(s, x)
      PROVE  TablesOK'
  <2>1. Without(configvars[s], {x}) \in Environment
    BY <1>1, WithoutType
  <2>2. configvars' \in [Set -> Environment]
    BY <1>2, <1>4, <2>1 DEF Deletevar
  <2> QED BY <1>4, <2>2 DEF Deletevar, TablesOK, bound
<1>5. ASSUME NEW x \in DOMAIN configvars[s], NEW v \in Value, Updatevar(s, x, v)
      PROVE  TablesOK'
  <2>1. /\ DOMAIN configvars[s] \in SUBSET VarName
        /\ configvars[s] \in [DOMAIN configvars[s] -> Value]
    BY <1>1, EnvironmentElim
  <2>2. [configvars[s] EXCEPT ![x] = v] \in [DOMAIN configvars[s] -> Value]
    BY <2>1
  <2>3. [configvars[s] EXCEPT ![x] = v] \in Environment
    BY <2>1, <2>2, EnvironmentIntro
  <2>4. configvars' = [configvars EXCEPT ![s] = [configvars[s] EXCEPT ![x] = v]]
    BY <1>5 DEF Updatevar
  <2>5. configvars' \in [Set -> Environment]
    BY <1>2, <2>3, <2>4
  <2> QED BY <1>5, <2>5 DEF Updatevar, TablesOK, bound
<1>6. ASSUME Deleteset(s)
      PROVE  TablesOK'
  <2>1. Without(configvars[s], VarName) \in Environment
    BY <1>1, WithoutType
  <2>2. configvars' \in [Set -> Environment]
    BY <1>2, <1>6, <2>1 DEF Deleteset
  <2> QED BY <1>6, <2>2 DEF Deleteset, TablesOK, bound
<1> QED BY <1>3, <1>4, <1>5, <1>6

\* Then all that one request may change, ...
LEMMA TableChangeType ==
  ASSUME JobsAssumption, TablesOK, TableChange
  PROVE  TablesOK'
<1>1. Edited \subseteq Set /\ JobName \subseteq Name /\ Rules \subseteq Rule
  BY DEF JobsAssumption
<1>2. ASSUME NEW s \in Edited, NEW t \in Set, Includeset(s, t) \/ Deleteinclude(s, t)
      PROVE  TablesOK'
  BY <1>1, <1>2 DEF Includeset, Deleteinclude, TablesOK, bound
<1>3. ASSUME NEW n \in JobName, NEW s \in Set, BindConfig(n, s) \/ UnbindConfig(n, s)
      PROVE  TablesOK'
  BY <1>1, <1>3 DEF BindConfig, UnbindConfig, TablesOK
<1>4. ASSUME NEW n \in JobName, NEW s \in Service, BindService(n, s) \/ Unbindapp(n, s)
      PROVE  TablesOK'
  BY <1>1, <1>4 DEF BindService, Unbindapp, TablesOK
<1>5. ASSUME NEW r \in Rules, Createbindmap(r) \/ Deletebindmap(r)
      PROVE  TablesOK'
  BY <1>1, <1>5 DEF Createbindmap, Deletebindmap, TablesOK
<1>6. ASSUME NEW s \in Edited,
             \/ \E new \in VarSpecs : Addvars(s, new)
             \/ \E x \in DOMAIN configvars[s] : Deletevar(s, x) \/ \E v \in Value : Updatevar(s, x, v)
             \/ Deleteset(s)
      PROVE  TablesOK'
  BY <1>1, <1>6, VariablesType
<1> QED BY <1>2, <1>3, <1>4, <1>5, <1>6 DEF TableChange

\* ... the second statements of those that have two, ...
LEMMA SecondStatementType ==
  ASSUME TablesOK, SecondStatement \/ HalfDone
  PROVE  TablesOK'
<1>1. ASSUME NEW s \in Set, DeleteSetRow(s)
      PROVE  TablesOK'
  BY <1>1 DEF DeleteSetRow, TablesOK, bound
<1>2. ASSUME NEW n \in Name, NEW s \in Service, DeleteRules(n, s)
      PROVE  TablesOK'
  BY <1>2 DEF DeleteRules, TablesOK
<1>3. ASSUME HalfDone
      PROVE  TablesOK'
  BY <1>3 DEF HalfDone, TablesOK
<1> QED BY <1>1, <1>2, <1>3 DEF SecondStatement

\* ... and what becomes of the requests at work.
LEMMA ChangeTablesType ==
  ASSUME JobsAssumption, TypeOK, ChangeTables
  PROVE  TypeOK'
<1>1. TablesOK /\ CountsOK /\ RequestsOK
  BY TypeParts
<1>2. TablesOK'
  BY <1>1, TableChangeType, SecondStatementType DEF ChangeTables
<1>3. CountsOK'
  BY <1>1 DEF ChangeTables, CountsOK, counts, JobsAssumption
<1>4. ASSUME NEW h \in Handler
      PROVE  [req[h] EXCEPT !.calm = FALSE] \in Request /\ AskedOK([req[h] EXCEPT !.calm = FALSE])
  BY <1>1 DEF RequestsOK, Request, AskedOK
<1>5. req' = [h \in Handler |-> [req[h] EXCEPT !.calm = FALSE]]
  BY DEF ChangeTables
<1>6. RequestsOK'
  BY <1>4, <1>5 DEF RequestsOK
<1>7. UNCHANGED <<rows, cluster, ghosts>>
  BY DEF ChangeTables
<1> QED BY <1>2, <1>3, <1>6, <1>7, TypeParts, TypePartsNext
        DEF RowsOK, ClusterOK, GhostsOK, rows, cluster, controlled, ghosts

\* What a request does to objects of Kubernetes.
LEMMA JobType ==
  ASSUME JobsAssumption, ClusterOK, NEW n \in Name, NEW i \in Run \union {0},
         \/ job' = [job EXCEPT ![n] = JobOfRun(i)]
         \/ \E r \in Request : job' = [job EXCEPT ![n] = Scaled(@, r)]
         \/ job' = job
  PROVE  job' \in [Name -> Job]
<1>1. JobOfRun(i) \in Job
  BY DEF JobOfRun, NoJob, Job, JobsAssumption
<1>2. ASSUME NEW r \in Request, job' = [job EXCEPT ![n] = Scaled(@, r)]
      PROVE  job' \in [Name -> Job]
  <2>1. job[n] \in Job /\ r.parallelism \in Parallelism /\ r.id \in Run \union {0}
    BY Fields DEF ClusterOK
  <2>2. Scaled(job[n], r) \in Job
    BY <2>1 DEF Scaled, Job
  <2> QED BY <1>2, <2>2 DEF ClusterOK
<1>3. CASE job' = [job EXCEPT ![n] = JobOfRun(i)]
  BY <1>1, <1>3 DEF ClusterOK
<1>4. CASE job' = job
  BY <1>4 DEF ClusterOK
<1> QED BY <1>2, <1>3, <1>4

\* Pods that are ended are pods that go on for a while.
LEMMA EndPodsType ==
  ASSUME ClusterOK, NEW n \in Name, NEW runs, EndPods(n, runs)
  PROVE  pods' \in [Name -> SUBSET Run] /\ ending' \in [Name -> SUBSET Run]
<1>1. pods' \in [Name -> SUBSET Run]
  BY DEF EndPods, ClusterOK
<1>2. pods[n] \intersect runs \in SUBSET Run
  BY DEF ClusterOK
<1>3. ending' \in [Name -> SUBSET Run]
  BY <1>2 DEF EndPods, ClusterOK
<1> QED BY <1>1, <1>3

\* The steps of a request: first those that leave the cluster alone.
LEMMA ReadingType ==
  ASSUME NamesAssumption, ServicesAssumption, JobsAssumption, TypeOK, NEW h \in Handler,
         \/ ReadRow(h) \/ JobExists(h) \/ GetBindings(h) \/ ReadConfigVars(h) \/ AskService(h)
         \/ CreateCronJob(h) \/ GetJob(h) \/ OneOffExists(h)
  PROVE  RequestsOK' /\ ClusterOK' /\ GhostsOK'
<1>1. TablesOK /\ ClusterOK /\ RequestsOK /\ GhostsOK
  BY TypeParts
<1>2. req[h] \in Request /\ req[h].name \in Name
  BY <1>1, Fields DEF RequestsOK
<1>3. UNCHANGED cluster
  BY DEF ReadRow, JobExists, GetBindings, ReadConfigVars, AskService, CreateCronJob, GetJob,
         OneOffExists
<1>4. ClusterOK'
  BY <1>1, <1>3 DEF ClusterOK, cluster, controlled
<1>5. ASSUME UNCHANGED ghosts PROVE GhostsOK'
  BY <1>1, <1>5 DEF GhostsOK, ghosts
<1>6. ASSUME Fail(h) PROVE RequestsOK' /\ GhostsOK'
  BY <1>1, <1>6, FailType
<1>7. ASSUME NEW pc \in (Reading \union Writing) \ {"services", "create"}, To(h, pc), UNCHANGED ghosts
      PROVE  RequestsOK' /\ GhostsOK'
  BY <1>1, <1>5, <1>7, ToType
<1>8. /\ {"exists", "bindings", "deljobs", "delpod"} \subseteq Reading \union Writing
      /\ {"exists", "bindings", "deljobs", "delpod"} \intersect {"services", "create"} = {}
  BY DEF Reading, Writing
<1>9. ASSUME ReadRow(h) PROVE RequestsOK' /\ GhostsOK'
  <2>1. \/ To(h, "bindings") /\ UNCHANGED ghosts
        \/ To(h, "exists") /\ UNCHANGED ghosts
        \/ Fail(h)
    BY <1>9 DEF ReadRow
  <2> QED BY <2>1, <1>6, <1>7, <1>8
<1>10. ASSUME JobExists(h) PROVE RequestsOK' /\ GhostsOK'
  <2>1. \/ To(h, "deljobs") /\ UNCHANGED ghosts
        \/ To(h, "bindings") /\ UNCHANGED ghosts
        \/ Fail(h)
    BY <1>10 DEF JobExists
  <2> QED BY <2>1, <1>6, <1>7, <1>8
<1>11. ASSUME GetBindings(h) PROVE RequestsOK' /\ GhostsOK'
  <2>1. PICK configset \in ConfigSets(req[h].name) :
          req' = [req EXCEPT ![h].pc = "configvars", ![h].configset = configset,
                             ![h].services = Services(req[h].name), ![h].calm = TRUE]
    BY <1>11 DEF GetBindings
  <2>2. configset \in SUBSET Set
    BY ConfigSetsType
  <2>3. Services(req[h].name) \in SUBSET Service
    BY DEF Services
  <2> DEFINE r == [req[h] EXCEPT !.pc = "configvars", !.configset = configset,
                                 !.services = Services(req[h].name), !.calm = TRUE]
  <2>4. r \in Request /\ AskedOK(r)
    BY <1>2, <2>2, <2>3 DEF Request, AskedOK, Reading
  <2>5. req' = [req EXCEPT ![h] = r]
    BY <2>1
  <2>6. UNCHANGED ghosts
    BY <1>11 DEF GetBindings
  <2> HIDE DEF r
  <2> QED BY <1>1, <1>5, <2>4, <2>5, <2>6, PutRequest
<1>12. ASSUME ReadConfigVars(h) PROVE RequestsOK' /\ GhostsOK'
  <2>1. PICK setvars \in GetConfigVars(req[h].configset) :
          req' = [req EXCEPT ![h] =
            Assembled(req[h], Override(BuiltIn[req[h].name], setvars), req[h].services)]
    BY <1>12 DEF ReadConfigVars
  <2>2. setvars \in Environment
    BY <1>1, <1>2, Fields, ConfigVarsType
  <2>3. BuiltIn[req[h].name] \in Environment
    BY <1>2 DEF NamesAssumption
  <2>4. Override(BuiltIn[req[h].name], setvars) \in Environment
    BY <2>2, <2>3, OverrideType
  <2>5. req[h].services \in SUBSET Service
    BY <1>2, Fields
  <2>6. UNCHANGED ghosts
    BY <1>12 DEF ReadConfigVars
  <2> QED BY <1>1, <1>2, <1>5, <2>1, <2>4, <2>5, <2>6, AssembledType, PutRequest
<1>13. ASSUME AskService(h) PROVE RequestsOK' /\ GhostsOK'
  <2>1. ASSUME ~Fail(h)
        PROVE  \E s \in req[h].services : \E new \in ServiceVars(req[h].name, s) :
                 /\ req' = [req EXCEPT ![h] =
                      Assembled(req[h], Override(req[h].env, new), req[h].services \ {s})]
                 /\ UNCHANGED ghosts
    BY <1>13, <2>1 DEF AskService
  <2>2. ASSUME NEW s \in req[h].services, NEW new \in ServiceVars(req[h].name, s),
               req' = [req EXCEPT ![h] =
                 Assembled(req[h], Override(req[h].env, new), req[h].services \ {s})]
        PROVE  RequestsOK'
    <3>1. s \in Service /\ req[h].services \ {s} \in SUBSET Service /\ req[h].env \in Environment
      BY <1>2, Fields
    <3>2. new \in Environment
      BY <1>1, <1>2, <3>1, ServiceVarsType
    <3>3. Override(req[h].env, new) \in Environment
      BY <3>1, <3>2, OverrideType
    <3> QED BY <1>1, <1>2, <2>2, <3>1, <3>3, AssembledType, PutRequest
  <2> QED BY <1>5, <1>6, <2>1, <2>2
<1>14. ASSUME CreateCronJob(h) PROVE RequestsOK' /\ GhostsOK'
  BY <1>6, <1>14 DEF CreateCronJob
<1>15. ASSUME GetJob(h) PROVE RequestsOK' /\ GhostsOK'
  <2>1. \/ req' = [req EXCEPT ![h].pc = "putjob", ![h].copy = job[req[h].name]] /\ UNCHANGED ghosts
        \/ Fail(h)
    BY <1>15 DEF GetJob
  <2> DEFINE r == [req[h] EXCEPT !.pc = "putjob", !.copy = job[req[h].name]]
  <2>2. job[req[h].name] \in Job
    BY <1>1, <1>2 DEF ClusterOK
  <2>3. r \in Request /\ AskedOK(r)
    BY <1>2, <2>2 DEF Request, AskedOK, Writing
  <2>4. ASSUME req' = [req EXCEPT ![h].pc = "putjob", ![h].copy = job[req[h].name]]
        PROVE  req' = [req EXCEPT ![h] = r]
    BY <2>4
  <2> HIDE DEF r
  <2> QED BY <1>1, <1>5, <1>6, <2>1, <2>3, <2>4, PutRequest
<1>16. ASSUME OneOffExists(h) PROVE RequestsOK' /\ GhostsOK'
  <2>1. \/ To(h, "delpod") /\ UNCHANGED ghosts
        \/ To(h, "bindings") /\ UNCHANGED ghosts
        \/ Finish(h)
    BY <1>16 DEF OneOffExists
  <2> QED BY <1>1, <2>1, <1>7, <1>8, FinishType
<1> QED BY <1>4, <1>9, <1>10, <1>11, <1>12, <1>13, <1>14, <1>15, <1>16

\* Then those that write.
LEMMA WritingType ==
  ASSUME NamesAssumption, JobsAssumption, TypeOK, NEW h \in Handler,
         \/ CreateJob(h) \/ DeleteJobs(h) \/ DeletePods(h) \/ PutJob(h)
         \/ DeletePod(h) \/ CreateOneOffPod(h)
  PROVE  RequestsOK' /\ ClusterOK' /\ GhostsOK'
<1>1. ClusterOK /\ RequestsOK /\ GhostsOK
  BY TypeParts
<1>2. req[h] \in Request /\ req[h].name \in Name /\ req[h].id \in Run \union {0}
  BY <1>1, Fields DEF RequestsOK
<1>3. ASSUME UNCHANGED ghosts PROVE GhostsOK'
  BY <1>1, <1>3 DEF GhostsOK, ghosts
<1>4. ASSUME Fail(h) \/ Finish(h) PROVE RequestsOK' /\ GhostsOK'
  BY <1>1, <1>4, FailType, FinishType
<1>5. ASSUME NEW pc \in (Reading \union Writing) \ {"services", "create"}, To(h, pc), UNCHANGED ghosts
      PROVE  RequestsOK' /\ GhostsOK'
  BY <1>1, <1>3, <1>5, ToType
<1>6. /\ {"delpods", "podsagain", "bindings"} \subseteq Reading \union Writing
      /\ {"delpods", "podsagain", "bindings"} \intersect {"services", "create"} = {}
  BY DEF Reading, Writing
<1>7. NoJob \in Job /\ NoOneOff \in OneOff
  BY EmptyTypes
<1>8. ASSUME CreateJob(h) PROVE RequestsOK' /\ ClusterOK' /\ GhostsOK'
  <2>0. \/ job' = [job EXCEPT ![req[h].name] = JobOfRun(req[h].id)]
        \/ job' = job
    BY <1>8 DEF CreateJob
  <2>1. job' \in [Name -> Job]
    BY <1>1, <1>2, <2>0, JobType
  <2>2. Fail(h) \/ Finish(h)
    BY <1>8 DEF CreateJob
  <2> QED BY <1>1, <1>4, <1>8, <2>1, <2>2 DEF CreateJob, ClusterOK, controlled
<1>9. ASSUME DeleteJobs(h) PROVE RequestsOK' /\ ClusterOK' /\ GhostsOK'
  <2>1. job' \in [Name -> Job]
    BY <1>1, <1>7, <1>9 DEF DeleteJobs, ClusterOK
  <2>2. To(h, "delpods") /\ UNCHANGED ghosts
    BY <1>9 DEF DeleteJobs, ghosts
  <2> QED BY <1>1, <1>5, <1>6, <1>9, <2>1, <2>2 DEF DeleteJobs, ClusterOK, controlled
<1>10. ASSUME DeletePods(h) PROVE RequestsOK' /\ ClusterOK' /\ GhostsOK'
  <2>1. pods' \in [Name -> SUBSET Run] /\ ending' \in [Name -> SUBSET Run]
    BY <1>1, <1>2, <1>10, EndPodsType DEF DeletePods
  <2>2. \/ To(h, "bindings") /\ UNCHANGED ghosts
        \/ To(h, "podsagain") /\ UNCHANGED ghosts
        \/ Finish(h)
    BY <1>10 DEF DeletePods
  <2>3. ClusterOK'
    BY <1>1, <1>10, <2>1 DEF DeletePods, ClusterOK
  <2> QED BY <1>4, <1>5, <1>6, <2>2, <2>3
<1>11. ASSUME PutJob(h) PROVE RequestsOK' /\ ClusterOK' /\ GhostsOK'
  <2>0. \/ job' = [job EXCEPT ![req[h].name] = Scaled(@, req[h])]
        \/ job' = job
    BY <1>11 DEF PutJob
  <2>1. job' \in [Name -> Job]
    BY <1>1, <1>2, <2>0, JobType
  <2>2. Fail(h) \/ Finish(h)
    BY <1>11 DEF PutJob
  <2> QED BY <1>1, <1>4, <1>11, <2>1, <2>2 DEF PutJob, ClusterOK, controlled
<1>12. ASSUME DeletePod(h) PROVE RequestsOK' /\ ClusterOK' /\ GhostsOK'
  <2>1. oneoff' \in [Name -> OneOff]
    BY <1>1, <1>12 DEF DeletePod, ClusterOK, OneOff
  <2>2. \/ To(h, "bindings") /\ UNCHANGED ghosts
        \/ Finish(h)
    BY <1>12 DEF DeletePod
  <2>3. ClusterOK'
    BY <1>1, <1>12, <2>1 DEF DeletePod, ClusterOK, controlled
  <2> QED BY <1>4, <1>5, <1>6, <2>2, <2>3
<1>13. ASSUME CreateOneOffPod(h) PROVE RequestsOK' /\ ClusterOK' /\ GhostsOK'
  <2>1. [run |-> req[h].id, state |-> "running"] \in OneOff
    BY <1>2 DEF OneOff
  <2>2. oneoff' \in [Name -> OneOff]
    BY <1>1, <1>13, <2>1 DEF CreateOneOffPod, ClusterOK
  <2>3. ClusterOK'
    BY <1>1, <1>13, <2>2 DEF CreateOneOffPod, ClusterOK, controlled
  <2> QED BY <1>4, <1>13, <2>3 DEF CreateOneOffPod
<1> QED BY <1>8, <1>9, <1>10, <1>11, <1>12, <1>13

\* Failures, ...
LEMMA FailureType ==
  ASSUME NamesAssumption, JobsAssumption, TypeOK, NEW h \in Handler,
         RequestFailure(h) \/ AnswerLost(h) \/ ErrorIgnored(h)
  PROVE  TypeOK'
<1>1. TablesOK /\ RowsOK /\ ClusterOK /\ RequestsOK /\ GhostsOK /\ CountsOK
  BY TypeParts
<1>2. /\ req[h] \in Request /\ req[h].name \in Name /\ req[h].id \in Run \union {0}
      /\ req[h].parallelism \in Parallelism
  BY <1>1, Fields DEF RequestsOK
<1>3. UNCHANGED <<tables, rows>>
  BY DEF RequestFailure, AnswerLost, ErrorIgnored
<1>4. TablesOK' /\ RowsOK'
  BY <1>1, <1>3 DEF TablesOK, RowsOK, tables, rows, bound
<1>5. /\ failures < MaxFailures /\ failures' = failures + 1 /\ requests' = requests
  BY DEF RequestFailure, AnswerLost, ErrorIgnored
<1>6. CountsOK'
  BY <1>1, <1>5 DEF CountsOK, JobsAssumption
<1>7. ASSUME RequestFailure(h)
      PROVE  RequestsOK' /\ ClusterOK' /\ GhostsOK'
  <2>1. Fail(h) /\ UNCHANGED cluster
    BY <1>7 DEF RequestFailure
  <2> QED BY <1>1, <2>1, FailType DEF ClusterOK, cluster, controlled
<1>8. ASSUME AnswerLost(h)
      PROVE  RequestsOK' /\ ClusterOK' /\ GhostsOK'
  <2>1. \/ job' = [job EXCEPT ![req[h].name] = JobOfRun(req[h].id)]
        \/ job' = [job EXCEPT ![req[h].name] = Scaled(@, req[h])]
    BY <1>8 DEF AnswerLost
  <2>2. job' \in [Name -> Job]
    BY <1>1, <1>2, <2>1, JobType
  <2>3. RequestsOK'
    BY <1>1, <1>8, IdleType DEF AnswerLost
  <2> QED BY <1>1, <1>2, <1>8, <2>2, <2>3 DEF AnswerLost, ClusterOK, GhostsOK, controlled
<1>9. ASSUME ErrorIgnored(h)
      PROVE  RequestsOK' /\ ClusterOK' /\ GhostsOK'
  <2>1. ClusterOK'
    BY <1>1, <1>9 DEF ErrorIgnored, ClusterOK, cluster, controlled
  <2>2. GhostsOK'
    BY <1>1, <1>2, <1>9 DEF ErrorIgnored, GhostsOK, ghosts
  <2>0. "bindings" \in (Reading \union Writing) \ {"services", "create"}
    BY DEF Reading, Writing
  <2>3. CASE To(h, "bindings")
    BY <1>1, <2>0, <2>1, <2>2, <2>3, ToType
  <2>4. ASSUME NEW pc \in {"configvars", "bindings"}, req' = [req EXCEPT ![h] = [req[h] EXCEPT !.pc = pc]]
        PROVE  RequestsOK'
    <3>1. [req[h] EXCEPT !.pc = pc] \in Request /\ AskedOK([req[h] EXCEPT !.pc = pc])
      BY <1>2 DEF Request, AskedOK, Reading
    <3> QED BY <1>1, <2>4, <3>1, PutRequest
  <2>5. CASE req' = [req EXCEPT ![h] = NoRequest]
    <3>1. Idle(h)
      BY <2>5 DEF Idle
    <3> QED BY <1>1, <2>1, <2>2, <3>1, IdleType
  <2>6. \/ To(h, "bindings")
        \/ req' = [req EXCEPT ![h] = [req[h] EXCEPT !.pc = "configvars"]]
        \/ req' = [req EXCEPT ![h] = [req[h] EXCEPT !.pc = "bindings"]]
        \/ req' = [req EXCEPT ![h] = NoRequest]
    BY <1>9 DEF ErrorIgnored
  <2> QED BY <2>1, <2>2, <2>3, <2>4, <2>5, <2>6
<1> QED BY <1>4, <1>6, <1>7, <1>8, <1>9, TypePartsNext

\* ... arrivals ...
LEMMA StartType ==
  ASSUME NamesAssumption, JobsAssumption, TypeOK, NEW h \in Handler, StartRequest(h)
  PROVE  TypeOK'
<1>1. TablesOK /\ RowsOK /\ ClusterOK /\ RequestsOK /\ GhostsOK /\ CountsOK
  BY TypeParts
<1>2. ASSUME NEW r \in Request, AskedOK(r), Arrive(h, r)
      PROVE  TypeOK'
  <2>1. RequestsOK' /\ GhostsOK' /\ CountsOK'
    BY <1>1, <1>2, ArriveType
  <2>2. UNCHANGED <<tables, rows, cluster>>
    BY <1>2 DEF Arrive
  <2>3. TablesOK' /\ RowsOK' /\ ClusterOK'
    BY <1>1, <2>2 DEF TablesOK, RowsOK, ClusterOK, tables, rows, cluster, controlled, bound
  <2> QED BY <2>1, <2>3, TypePartsNext
<1>3. NoRequest \in Request
  BY EmptyTypes
<1>4. ASSUME NEW op \in Op, NEW pc \in (Reading \union Writing) \ {"services", "create"},
             NEW n \in Name, Begin(h, op, pc, n)
      PROVE  TypeOK'
  <2>1. /\ [NoRequest EXCEPT !.op = op, !.pc = pc, !.name = n] \in Request
        /\ AskedOK([NoRequest EXCEPT !.op = op, !.pc = pc, !.name = n])
    BY <1>3 DEF Request, AskedOK
  <2> QED BY <1>2, <1>4, <2>1 DEF Begin
<1>5. PICK n \in Name :
        \/ \E delete \in BOOLEAN : StartDeployJob(h, n, delete)
        \/ StartDeployCronJob(h, n) \/ StartStopJob(h, n) \/ StartCleanJobs(h, n)
        \/ StartStopCronJob(h, n) \/ StartStopOneOffPod(h, n)
        \/ \E k \in Parallelism : StartScaleJob(h, n, k)
        \/ \E env \in Env : StartOneOff(h, n, env)
  BY DEF StartRequest, JobsAssumption
<1>6. CASE \E delete \in BOOLEAN : StartDeployJob(h, n, delete)
  <2>1. Begin(h, "run", "row", n) \/ Begin(h, "rerun", "row", n)
    BY <1>6 DEF StartDeployJob
  <2> QED BY <1>4, <2>1 DEF Op, Reading
<1>7. CASE \/ StartDeployCronJob(h, n) \/ StartStopJob(h, n) \/ StartStopOneOffPod(h, n)
  BY <1>4, <1>7 DEF StartDeployCronJob, StartStopJob, StartStopOneOffPod, Op, Reading
<1>8. CASE StartCleanJobs(h, n) \/ StartStopCronJob(h, n)
  BY <1>4, <1>8 DEF StartCleanJobs, StartStopCronJob, Op, Writing
<1>9. ASSUME NEW k \in Parallelism, StartScaleJob(h, n, k)
      PROVE  TypeOK'
  <2> DEFINE r == [NoRequest EXCEPT !.op = "scale", !.pc = "getjob", !.name = n, !.parallelism = k]
  <2>1. r \in Request /\ AskedOK(r)
    BY <1>3 DEF Request, AskedOK, Op, Reading
  <2>2. Arrive(h, r)
    BY <1>9 DEF StartScaleJob
  <2> HIDE DEF r
  <2> QED BY <1>2, <2>1, <2>2
<1>10. ASSUME NEW env \in Env, StartOneOff(h, n, env)
       PROVE  TypeOK'
  <2> DEFINE r == [NoRequest EXCEPT !.op = "oneoff", !.pc = "oneoffexists", !.name = n, !.extra = env]
  <2>1. r \in Request /\ AskedOK(r)
    BY <1>3 DEF Request, AskedOK, Op, Reading
  <2>2. Arrive(h, r)
    BY <1>10 DEF StartOneOff
  <2> HIDE DEF r
  <2> QED BY <1>2, <2>1, <2>2
<1> QED BY <1>5, <1>6, <1>7, <1>8, <1>9, <1>10

\* ... and what others do.
LEMMA OthersType ==
  ASSUME JobsAssumption, TypeOK,
         \/ CreateASet \/ ChangeRows
         \/ \E n \in JobName : \/ PodsStart(n) \/ PodsScaledDown(n) \/ DeadlinePasses(n)
                               \/ PodsEnd(n) \/ PodGone(n)
  PROVE  TypeOK'
<1>1. TablesOK /\ RowsOK /\ ClusterOK /\ RequestsOK /\ GhostsOK /\ CountsOK
  BY TypeParts
<1>2. CASE CreateASet
  <2>1. TablesOK'
    BY <1>1, <1>2 DEF CreateASet, Createset, TablesOK, bound
  <2>2. UNCHANGED <<rows, cluster, req, ghosts, counts>>
    BY <1>2 DEF CreateASet
  <2> QED BY <1>1, <2>1, <2>2, TypePartsNext
          DEF RowsOK, ClusterOK, RequestsOK, GhostsOK, CountsOK, rows, cluster, controlled, ghosts, counts
<1>3. CASE ChangeRows
  <2>1. UNCHANGED <<tables, cluster, req, ghosts>>
    BY <1>3 DEF ChangeRows, AddJobRow, AddCronJobRow, DeleteJobRow, DeleteCronJobRow
  <2>2. RowsOK'
    BY <1>1, <1>3 DEF ChangeRows, AddJobRow, AddCronJobRow, DeleteJobRow, DeleteCronJobRow,
                      RowsOK, JobsAssumption
  <2>3. CountsOK'
    BY <1>1, <1>3 DEF ChangeRows, CountsOK, JobsAssumption
  <2>4. TablesOK' /\ ClusterOK' /\ GhostsOK' /\ RequestsOK'
    BY <1>1, <2>1 DEF TablesOK, ClusterOK, GhostsOK, RequestsOK, tables, cluster, controlled, ghosts, bound
  <2> QED BY <2>2, <2>3, <2>4, TypePartsNext
<1>4. ASSUME NEW n \in Name,
             \/ PodsStart(n) \/ PodsScaledDown(n) \/ DeadlinePasses(n) \/ PodsEnd(n) \/ PodGone(n)
      PROVE  TypeOK'
  <2>1. UNCHANGED <<tables, rows, req, ghosts, counts>>
    BY <1>4 DEF PodsStart, PodsScaledDown, DeadlinePasses, PodsEnd, PodGone
  <2>2. TablesOK' /\ RowsOK' /\ GhostsOK' /\ RequestsOK' /\ CountsOK'
    BY <1>1, <2>1 DEF TablesOK, RowsOK, GhostsOK, RequestsOK, CountsOK,
                      tables, rows, ghosts, counts, bound
  <2>3. job[n].run # 0 => job[n].run \in Run
    BY <1>1 DEF ClusterOK, Job
  <2>4. NoOneOff \in OneOff
    BY DEF NoOneOff, OneOff
  <2>5. CASE PodsStart(n) \/ PodsEnd(n) \/ PodGone(n)
    <3>1. ClusterOK'
      BY <1>1, <2>3, <2>4, <2>5 DEF PodsStart, PodsEnd, PodGone, ClusterOK, controlled
    <3> QED BY <2>2, <3>1, TypePartsNext
  <2>6. CASE PodsScaledDown(n) \/ DeadlinePasses(n)
    <3>1. pods' \in [Name -> SUBSET Run] /\ ending' \in [Name -> SUBSET Run]
      BY <1>1, <2>6, EndPodsType DEF PodsScaledDown, DeadlinePasses
    <3>2. job' \in [Name -> Job] /\ oneoff' = oneoff
      BY <1>1, <2>6 DEF PodsScaledDown, DeadlinePasses, ClusterOK, Job
    <3>3. ClusterOK'
      BY <1>1, <3>1, <3>2 DEF ClusterOK
    <3> QED BY <2>2, <3>3, TypePartsNext
  <2> QED BY <1>4, <2>5, <2>6
<1> QED BY <1>2, <1>3, <1>4 DEF JobsAssumption

\* The types hold at first ...
LEMMA InitType ==
  ASSUME NamesAssumption, JobsAssumption, Init
  PROVE  TypeOK
<1>1. RequestsOK
  BY EmptyTypes DEF Init, RequestsOK
<1>2. ClusterOK
  BY EmptyTypes DEF Init, ClusterOK
<1>3. GhostsOK /\ RowsOK /\ CountsOK
  BY DEF Init, GhostsOK, RowsOK, CountsOK, JobsAssumption
<1>4. TablesOK
  BY DEF Init, TablesOK, JobsAssumption
<1> QED BY <1>1, <1>2, <1>3, <1>4, TypeParts

\* ... and every step keeps them.
LEMMA NextType ==
  ASSUME NamesAssumption, ServicesAssumption, JobsAssumption, TypeOK, [Next]_vars
  PROVE  TypeOK'
<1>1. ASSUME NEW h \in Handler, Step(h)
      PROVE  TypeOK'
  <2>1. TablesOK /\ RowsOK /\ CountsOK
    BY TypeParts
  <2>2. UNCHANGED <<tables, rows, counts>>
    BY <1>1 DEF Step
  <2>3. TablesOK' /\ RowsOK' /\ CountsOK'
    BY <2>1, <2>2 DEF TablesOK, RowsOK, CountsOK, tables, rows, counts, bound
  <2>4. RequestsOK' /\ ClusterOK' /\ GhostsOK'
    BY <1>1, ReadingType, WritingType DEF Step
  <2> QED BY <2>3, <2>4, TypePartsNext
<1>2. CASE UNCHANGED vars
  BY <1>2 DEF TypeOK, TablesOK, vars, tables, rows, cluster, controlled, ghosts, counts, bound
<1> QED BY <1>1, <1>2, StartType, FailureType, ChangeTablesType, OthersType DEF Next

\* The tables, the cluster, the requests and the environments they put together always
\* have their types, and nothing is created before every service was asked.
THEOREM JobsTypeCorrect == Spec => []TypeOK
<1>1. Init => TypeOK
  BY InitType, NamesAssumption, JobsAssumption
<1>2. TypeOK /\ [Next]_vars => TypeOK'
  BY NextType, NamesAssumption, ServicesAssumption, JobsAssumption
<1> QED BY <1>1, <1>2, PTL DEF Spec

-----------------------------------------------------------------------------
(* What the environment of a job or a one-off pod is: the one its binds, their *)
(* sets, services and rules give it, whoever else is at work: name by name.    *)

\* An environment gives a name one of the values, or nothing if there are none.
Gives(env, x, values) ==
  IF values = {} THEN x \notin DOMAIN env ELSE x \in DOMAIN env /\ env[x] \in values

\* What replaces a value is what is written over it, if there is any.
LEMMA OverrideGives ==
  ASSUME NEW f \in Environment, NEW g \in Environment, NEW x, NEW A, NEW B,
         Gives(f, x, A), Gives(g, x, B)
  PROVE  Gives(Override(f, g), x, IF B = {} THEN A ELSE B)
<1>1. /\ DOMAIN Override(f, g) = DOMAIN f \union DOMAIN g
      /\ \A y \in DOMAIN f \union DOMAIN g :
           Override(f, g)[y] = IF y \in DOMAIN g THEN g[y] ELSE f[y]
  BY DEF Override
<1> QED BY <1>1 DEF Gives

\* A choice has the names there are values for, each with one of its values.
LEMMA ChoicesGive ==
  ASSUME NEW pairs, NEW f \in Choices(pairs), NEW x
  PROVE  /\ x \in DOMAIN f <=> \E p \in pairs : p[1] = x
         /\ x \in DOMAIN f => <<x, f[x]>> \in pairs
BY DEF Choices

\* The variables of a config set and of those it includes.
LEMMA ConfigVarsGive ==
  ASSUME TablesOK, NEW configset \in SUBSET Set, NEW f \in GetConfigVars(configset), NEW x
  PROVE  Gives(f, x, SetBy(configset, x))
<1> DEFINE read == configset \union {c \in Set : \E p \in configset : <<p, c>> \in includes}
           pairs == UNION {SetVars(s) : s \in read}
<1>1. f \in Choices(pairs)
  BY DEF GetConfigVars
<1>2. SetBy(configset, x) = {configvars[s][x] : s \in {t \in read : x \in DOMAIN configvars[t]}}
  BY DEF SetBy
<1>3. \A p \in pairs : \E s \in read : \E y \in DOMAIN configvars[s] : p = <<y, configvars[s][y]>>
  BY DEF SetVars
<1>4. \A s \in read : \A y \in DOMAIN configvars[s] : <<y, configvars[s][y]>> \in pairs
  BY DEF SetVars
<1> HIDE DEF pairs, read
<1>5. x \in DOMAIN f <=> \E s \in read : x \in DOMAIN configvars[s]
  <2>1. ASSUME NEW p \in pairs, p[1] = x PROVE \E s \in read : x \in DOMAIN configvars[s]
    BY <1>3, <2>1
  <2>2. ASSUME NEW s \in read, x \in DOMAIN configvars[s] PROVE \E p \in pairs : p[1] = x
    <3>1. <<x, configvars[s][x]>>[1] = x
      OBVIOUS
    <3> QED BY <1>4, <2>2, <3>1
  <2>3. x \in DOMAIN f <=> \E p \in pairs : p[1] = x
    BY <1>1, ChoicesGive
  <2> QED BY <2>1, <2>2, <2>3
<1>6. ASSUME x \in DOMAIN f
      PROVE  \E s \in read : x \in DOMAIN configvars[s] /\ f[x] = configvars[s][x]
  <2>1. <<x, f[x]>> \in pairs
    BY <1>1, <1>6, ChoicesGive
  <2>2. PICK s \in read : \E y \in DOMAIN configvars[s] : <<x, f[x]>> = <<y, configvars[s][y]>>
    BY <1>3, <2>1
  <2>3. PICK y \in DOMAIN configvars[s] : x = y /\ f[x] = configvars[s][y]
    BY <2>2
  <2> QED BY <2>3
<1> QED BY <1>2, <1>5, <1>6 DEF Gives

\* Those of a service after the rules, all of which fit.
LEMMA ServiceVarsGive ==
  ASSUME TablesOK, NEW n \in Name, NEW s \in Service, ~Unfit(n, s), NEW f \in ServiceVars(n, s), NEW x
  PROVE  Gives(f, x, GivenBy(n, s, x))
<1> DEFINE renamed == {v \in DOMAIN Offered[s] : \E r \in RulesFor(n, s) :
                         /\ r.var \in {v, AnyVar} /\ r.action \in {"copy", "rename"}
                         /\ NewName(r, v) = x}
           kept == {v \in DOMAIN Offered[s] : /\ v = x
                      /\ \A r \in RulesFor(n, s) : r.var \in {v, AnyVar} => r.action = "copy"}
           rest == Without(Offered[s], RemoveVars(n, s))
<1>1. GivenBy(n, s, x) = {Offered[s][v] : v \in IF renamed # {} THEN renamed ELSE kept}
  BY DEF GivenBy
<1>2. PICK new \in Choices(NewVars(n, s)) : f = Override(rest, new)
  BY DEF ServiceVars
<1>3. ASSUME NEW r \in RulesFor(n, s), NEW v \in DOMAIN Offered[s]
      PROVE  /\ r.var \in {v, AnyVar} /\ Fits(r, v)
             /\ r.action \in {"copy", "delete", "rename"}
  <2>1. r \in Rule
    BY DEF RulesFor, TablesOK
  <2> QED BY <2>1 DEF Unfit, Fits, Rule, Action
<1>4. ASSUME NEW v \in renamed
      PROVE  <<x, Offered[s][v]>> \in NewVars(n, s)
  <2>1. PICK r \in RulesFor(n, s) : r.action \in {"copy", "rename"} /\ NewName(r, v) = x
    OBVIOUS
  <2> QED BY <2>1 DEF NewVars
<1>5. ASSUME NEW p \in NewVars(n, s), p[1] = x
      PROVE  \E v \in renamed : p = <<x, Offered[s][v]>>
  <2>1. PICK v \in DOMAIN Offered[s], r \in {q \in RulesFor(n, s) : q.action # "delete"} :
          p = <<NewName(r, v), Offered[s][v]>>
    BY DEF NewVars
  <2>2. NewName(r, v) = x /\ r.action \in {"copy", "rename"} /\ r.var \in {v, AnyVar}
    BY <1>3, <1>5, <2>1
  <2> QED BY <2>1, <2>2
<1>6. /\ x \in DOMAIN new <=> renamed # {}
      /\ x \in DOMAIN new => \E v \in renamed : new[x] = Offered[s][v]
  <2>1. /\ x \in DOMAIN new <=> \E p \in NewVars(n, s) : p[1] = x
        /\ x \in DOMAIN new => <<x, new[x]>> \in NewVars(n, s)
    BY ChoicesGive
  <2>2. ASSUME NEW v \in renamed PROVE \E p \in NewVars(n, s) : p[1] = x
    <3>1. <<x, Offered[s][v]>>[1] = x
      OBVIOUS
    <3> QED BY <1>4, <3>1
  <2>3. ASSUME <<x, new[x]>> \in NewVars(n, s)
        PROVE  \E v \in renamed : new[x] = Offered[s][v]
    <3>1. <<x, new[x]>>[1] = x
      OBVIOUS
    <3>2. PICK v \in renamed : <<x, new[x]>> = <<x, Offered[s][v]>>
      BY <1>5, <2>3, <3>1
    <3> QED BY <3>2
  <2> HIDE DEF renamed
  <2> QED BY <1>5, <2>1, <2>2, <2>3
<1>7. kept # {} <=> x \in DOMAIN Offered[s] \ RemoveVars(n, s)
  BY <1>3 DEF RemoveVars
<1>8. kept \subseteq {x}
  OBVIOUS
<1>9. /\ DOMAIN rest = DOMAIN Offered[s] \ RemoveVars(n, s)
      /\ \A y \in DOMAIN rest : rest[y] = Offered[s][y]
  BY DEF Without
<1>10. /\ DOMAIN f = DOMAIN rest \union DOMAIN new
       /\ \A y \in DOMAIN f : f[y] = IF y \in DOMAIN new THEN new[y] ELSE rest[y]
  BY <1>2 DEF Override
<1> HIDE DEF renamed, kept, rest
<1> QED BY <1>1, <1>6, <1>7, <1>8, <1>9, <1>10 DEF Gives

-----------------------------------------------------------------------------
(* What is put together, step by step. *)

\* The values for a name after some of the services were asked, ...
Given(n, configset, asked, x) ==
  LET ofservices == UNION {GivenBy(n, s, x) : s \in asked}
      ofsets == SetBy(configset, x)
  IN  IF ofservices # {} THEN ofservices
      ELSE IF ofsets # {} THEN ofsets ELSE {BuiltIn[n][y] : y \in DOMAIN BuiltIn[n] \intersect {x}}
\* ... which is what the environment has for every name.
Partial(env, n, configset, asked) ==
  \A x \in VarName : Gives(env, x, Given(n, configset, asked, x))

\* The environment begins with what Akkeris and the sets give, ...
LEMMA BeginsPartial ==
  ASSUME NamesAssumption, TablesOK, NEW n \in Name, NEW configset \in SUBSET Set,
         NEW f \in GetConfigVars(configset)
  PROVE  Partial(Override(BuiltIn[n], f), n, configset, {})
<1>1. BuiltIn[n] \in Environment /\ f \in Environment
  BY ConfigVarsType DEF NamesAssumption
<1>2. ASSUME NEW x \in VarName
      PROVE  Gives(Override(BuiltIn[n], f), x, Given(n, configset, {}, x))
  <2> DEFINE own == {BuiltIn[n][y] : y \in DOMAIN BuiltIn[n] \intersect {x}}
  <2>1. Gives(BuiltIn[n], x, own)
    BY DEF Gives
  <2>2. Gives(f, x, SetBy(configset, x))
    BY ConfigVarsGive
  <2>3. Given(n, configset, {}, x) = IF SetBy(configset, x) = {} THEN own ELSE SetBy(configset, x)
    BY DEF Given
  <2> HIDE DEF own
  <2> QED BY <1>1, <2>1, <2>2, <2>3, OverrideGives
<1> QED BY <1>2 DEF Partial

\* ... and every service adds its variables.
LEMMA AddsToPartial ==
  ASSUME NamesAssumption, ServicesAssumption, TablesOK, NEW n \in Name, NEW configset, NEW asked,
         NEW s \in Service, ~Unfit(n, s), NEW new \in ServiceVars(n, s),
         NEW env \in Environment, Partial(env, n, configset, asked)
  PROVE  Partial(Override(env, new), n, configset, asked \union {s})
<1>1. new \in Environment
  BY ServiceVarsType
<1>2. ASSUME NEW x \in VarName
      PROVE  Gives(Override(env, new), x, Given(n, configset, asked \union {s}, x))
  <2> DEFINE before == Given(n, configset, asked, x)
             after == Given(n, configset, asked \union {s}, x)
             by == GivenBy(n, s, x)
  <2>1. Gives(env, x, before)
    BY DEF Partial
  <2>2. Gives(new, x, by)
    BY ServiceVarsGive
  <2>3. Gives(Override(env, new), x, IF by = {} THEN before ELSE by)
    BY <1>1, <2>1, <2>2, OverrideGives
  <2>4. UNION {GivenBy(n, t, x) : t \in asked \union {s}} =
          (UNION {GivenBy(n, t, x) : t \in asked}) \union by
    OBVIOUS
  <2>5. by = {} => after = before
    BY <2>4 DEF Given
  <2>6. by # {} => by \subseteq after
    BY <2>4 DEF Given
  <2> QED BY <2>3, <2>5, <2>6 DEF Gives
<1> QED BY <1>2 DEF Partial

\* What the environment has for every name once all services were asked.
Complete(env, n, configset, extra) ==
  \A x \in VarName :
    LET given == Given(n, configset, Services(n), x)
    IN  Gives(env, x, IF given = {} THEN {extra[y] : y \in DOMAIN extra \intersect {x}} ELSE given)

\* The variables of the request add names there was nothing for, ...
LEMMA CompletesPartial ==
  ASSUME NEW n, NEW configset, NEW env \in Environment, NEW extra \in Environment,
         Partial(env, n, configset, Services(n))
  PROVE  Complete(Override(extra, env), n, configset, extra)
<1>1. ASSUME NEW x \in VarName
      PROVE  LET given == Given(n, configset, Services(n), x)
             IN  Gives(Override(extra, env), x,
                       IF given = {} THEN {extra[y] : y \in DOMAIN extra \intersect {x}} ELSE given)
  <2>1. Gives(env, x, Given(n, configset, Services(n), x))
    BY DEF Partial
  <2>2. Gives(extra, x, {extra[y] : y \in DOMAIN extra \intersect {x}})
    BY DEF Gives
  <2> QED BY <2>1, <2>2, OverrideGives
<1> QED BY <1>1 DEF Complete

\* ... and what it should be.
LEMMA CompleteIsEnvironment ==
  ASSUME NEW n, NEW configset \in ConfigSets(n), NEW env, NEW extra,
         Complete(env, n, configset, extra)
  PROVE  IsEnvironmentOf(env, n, extra)
<1>1. ASSUME NEW x \in VarName
      PROVE  LET values == BoundValues(n, configset, x) IN
             CASE x \in DOMAIN extra -> x \in DOMAIN env /\ (values = {} => env[x] = extra[x])
               [] x \notin DOMAIN extra /\ values = {} -> x \notin DOMAIN env
               [] OTHER -> x \in DOMAIN env /\ env[x] \in values
  <2> DEFINE given == Given(n, configset, Services(n), x)
             asked == {extra[y] : y \in DOMAIN extra \intersect {x}}
             values == BoundValues(n, configset, x)
  <2>1. Gives(env, x, IF given = {} THEN asked ELSE given)
    BY DEF Complete
  <2>2. given = values
    BY DEF Given, BoundValues
  <2>3. asked = IF x \in DOMAIN extra THEN {extra[x]} ELSE {}
    OBVIOUS
  <2> HIDE DEF given, values, asked
  <2>4. ASSUME x \in DOMAIN extra
        PROVE  x \in DOMAIN env /\ (values = {} => env[x] = extra[x])
    BY <2>1, <2>2, <2>3, <2>4 DEF Gives
  <2>5. ASSUME x \notin DOMAIN extra, values = {}
        PROVE  x \notin DOMAIN env
    BY <2>1, <2>2, <2>3, <2>5 DEF Gives
  <2>6. ASSUME x \notin DOMAIN extra, values # {}
        PROVE  x \in DOMAIN env /\ env[x] \in values
    BY <2>1, <2>2, <2>6 DEF Gives
  <2> USE DEF values
  <2> QED BY <2>4, <2>5, <2>6
<1> QED BY <1>1 DEF IsEnvironmentOf

-----------------------------------------------------------------------------
(* The invariant: a request that is calm has so much of its environment as it *)
(* has read.                                                                  *)

EnvironmentOK(r) ==
  r.calm =>
    \/ r.pc = "configvars" /\ r.configset \in ConfigSets(r.name) /\ r.services = Services(r.name)
    \/ /\ r.pc = "services" /\ r.services \subseteq Services(r.name)
       /\ \E configset \in ConfigSets(r.name) :
            Partial(r.env, r.name, configset, Services(r.name) \ r.services)
    \/ /\ r.pc = "create"
       /\ \E configset \in ConfigSets(r.name) : Complete(r.env, r.name, configset, r.extra)
EnvironmentsOK == \A h \in Handler : EnvironmentOK(req[h])

read == <<configvars, includes, configbound, servicebound, configvarsmap>>

\* It only depends on the tables that are read.
LEMMA SameTables ==
  ASSUME UNCHANGED read, \A h \in Handler : EnvironmentOK(req'[h])
  PROVE  EnvironmentsOK'
<1>1. ASSUME NEW n, NEW s, NEW x PROVE GivenBy(n, s, x)' = GivenBy(n, s, x)
  BY DEF read, GivenBy, RulesFor
<1>2. ASSUME NEW configset, NEW x PROVE SetBy(configset, x)' = SetBy(configset, x)
  BY DEF read, SetBy
<1>3. ASSUME NEW n PROVE ConfigSets(n)' = ConfigSets(n) /\ Services(n)' = Services(n)
  BY DEF read, ConfigSets, Services
<1>4. ASSUME NEW n, NEW configset, NEW asked, NEW x
      PROVE  Given(n, configset, asked, x)' = Given(n, configset, asked, x)
  BY <1>1, <1>2 DEF Given
<1>5. ASSUME NEW env, NEW n, NEW configset, NEW asked
      PROVE  Partial(env, n, configset, asked)' <=> Partial(env, n, configset, asked)
  BY <1>4 DEF Partial
<1>6. ASSUME NEW env, NEW n, NEW configset, NEW extra
      PROVE  Complete(env, n, configset, extra)' <=> Complete(env, n, configset, extra)
  <2>1. ASSUME NEW x
        PROVE  Given(n, configset, Services(n), x)' = Given(n, configset, Services(n), x)
    BY <1>1, <1>2, <1>3 DEF Given
  <2> QED BY <2>1 DEF Complete, Gives
<1>7. ASSUME NEW h \in Handler PROVE EnvironmentOK(req[h])'
  <2>1. EnvironmentOK(req'[h])
    OBVIOUS
  <2> QED BY <1>3, <1>5, <1>6, <2>1 DEF EnvironmentOK
<1> QED BY <1>7 DEF EnvironmentsOK

\* Adding what a query gave keeps it, whether or not services are left.
LEMMA AssembledOK ==
  ASSUME JobsAssumption, NEW r \in Request, NEW env \in Environment,
         NEW left \in SUBSET Services(r.name), NEW configset \in ConfigSets(r.name),
         Partial(env, r.name, configset, Services(r.name) \ left)
  PROVE  EnvironmentOK(Assembled(r, env, left))
<1> DEFINE a == Assembled(r, env, left)
<1>1. a.name = r.name /\ a.extra = r.extra /\ a.services = left
  BY DEF Assembled, Request
<1>2. CASE left = {}
  <2>1. a.pc = "create" /\ a.env = Override(r.extra, env)
    BY <1>2 DEF Assembled, Request
  <2>2. r.extra \in Environment
    BY Fields, EmptyType DEF JobsAssumption
  <2>3. Services(r.name) \ left = Services(r.name)
    BY <1>2
  <2>4. Complete(a.env, a.name, configset, a.extra)
    <3>1. Partial(env, r.name, configset, Services(r.name))
      BY <2>3
    <3>2. Complete(Override(r.extra, env), r.name, configset, r.extra)
      BY <2>2, <3>1, CompletesPartial
    <3> QED BY <1>1, <2>1, <3>2
  <2> QED BY <1>1, <2>1, <2>4 DEF EnvironmentOK
<1>3. CASE left # {}
  <2>1. a.pc = "services" /\ a.env = env
    BY <1>3 DEF Assembled, Request
  <2> QED BY <1>1, <2>1 DEF EnvironmentOK
<1> QED BY <1>2, <1>3

\* One handler's request changes.
LEMMA EnvironmentPut ==
  ASSUME RequestsOK, EnvironmentsOK, NEW h \in Handler, NEW r, EnvironmentOK(r),
         req' = [req EXCEPT ![h] = r]
  PROVE  \A o \in Handler : EnvironmentOK(req'[o])
BY DEF RequestsOK, EnvironmentsOK

\* A request that does not read an environment is not calm.
LEMMA EnvironmentIdle ==
  ASSUME RequestsOK, EnvironmentsOK, NEW h \in Handler, Idle(h)
  PROVE  \A o \in Handler : EnvironmentOK(req'[o])
<1>1. EnvironmentOK(NoRequest)
  BY DEF EnvironmentOK, NoRequest
<1> QED BY <1>1, EnvironmentPut DEF Idle

\* Nor does one that goes on to a step without one become calm.
LEMMA EnvironmentTo ==
  ASSUME RequestsOK, EnvironmentsOK, NEW h \in Handler, NEW pc, To(h, pc),
         req[h].pc \notin {"configvars", "services", "create"}
  PROVE  \A o \in Handler : EnvironmentOK(req'[o])
<1> DEFINE r == [req[h] EXCEPT !.pc = pc, !.begun = req[h].begun \/ req[h].pc \in Writing]
<1>1. req[h] \in Request /\ EnvironmentOK(req[h])
  BY DEF RequestsOK, EnvironmentsOK
<1>2. ~req[h].calm
  BY <1>1 DEF EnvironmentOK
<1>3. ~r.calm
  BY <1>1, <1>2 DEF Request
<1>4. EnvironmentOK(r)
  BY <1>3 DEF EnvironmentOK
<1>5. req' = [req EXCEPT ![h] = r]
  BY DEF To
<1> HIDE DEF r
<1> QED BY <1>4, <1>5, EnvironmentPut

\* The steps of a request.
LEMMA EnvironmentStep ==
  ASSUME NamesAssumption, ServicesAssumption, JobsAssumption, TypeOK, EnvironmentsOK,
         NEW h \in Handler, Step(h)
  PROVE  \A o \in Handler : EnvironmentOK(req'[o])
<1>1. /\ RequestsOK /\ TablesOK /\ req[h] \in Request /\ req[h].name \in Name
      /\ EnvironmentOK(req[h])
  BY TypeParts, Fields DEF RequestsOK, EnvironmentsOK
<1>2. ASSUME Idle(h) PROVE \A o \in Handler : EnvironmentOK(req'[o])
  BY <1>1, <1>2, EnvironmentIdle
<1>3. ASSUME NEW pc, To(h, pc), req[h].pc \notin {"configvars", "services", "create"}
      PROVE  \A o \in Handler : EnvironmentOK(req'[o])
  BY <1>1, <1>3, EnvironmentTo
<1>4. CASE ReadRow(h) \/ JobExists(h) \/ DeleteJobs(h) \/ DeletePods(h) \/ OneOffExists(h) \/ DeletePod(h)
  BY <1>2, <1>3, <1>4 DEF ReadRow, JobExists, DeleteJobs, DeletePods, OneOffExists, DeletePod, Fail, Finish
<1>5. CASE CreateJob(h) \/ CreateCronJob(h) \/ PutJob(h) \/ CreateOneOffPod(h)
  BY <1>2, <1>5 DEF CreateJob, CreateCronJob, PutJob, CreateOneOffPod, Fail, Finish
<1>6. CASE GetJob(h)
  <2> DEFINE r == [req[h] EXCEPT !.pc = "putjob", !.copy = job[req[h].name]]
  <2>1. \/ req' = [req EXCEPT ![h].pc = "putjob", ![h].copy = job[req[h].name]]
        \/ Idle(h)
    BY <1>6 DEF GetJob, Fail
  <2>2. ~req[h].calm
    BY <1>1, <1>6 DEF GetJob, EnvironmentOK
  <2>3. EnvironmentOK(r)
    BY <1>1, <2>2 DEF EnvironmentOK, Request
  <2>4. ASSUME req' = [req EXCEPT ![h].pc = "putjob", ![h].copy = job[req[h].name]]
        PROVE  req' = [req EXCEPT ![h] = r]
    BY <2>4
  <2> HIDE DEF r
  <2> QED BY <1>1, <1>2, <2>1, <2>3, <2>4, EnvironmentPut
<1>7. CASE GetBindings(h)
  <2>1. PICK configset \in ConfigSets(req[h].name) :
          req' = [req EXCEPT ![h].pc = "configvars", ![h].configset = configset,
                             ![h].services = Services(req[h].name), ![h].calm = TRUE]
    BY <1>7 DEF GetBindings
  <2> DEFINE r == [req[h] EXCEPT !.pc = "configvars", !.configset = configset,
                                 !.services = Services(req[h].name), !.calm = TRUE]
  <2>2. /\ r.pc = "configvars" /\ r.name = req[h].name /\ r.configset = configset
        /\ r.services = Services(req[h].name)
    BY <1>1 DEF Request
  <2>3. EnvironmentOK(r)
    BY <2>2 DEF EnvironmentOK
  <2>4. req' = [req EXCEPT ![h] = r]
    BY <2>1
  <2> HIDE DEF r
  <2> QED BY <1>1, <2>3, <2>4, EnvironmentPut
<1>8. ASSUME NEW env, NEW left, ~req[h].calm, req' = [req EXCEPT ![h] = Assembled(req[h], env, left)]
      PROVE  \A o \in Handler : EnvironmentOK(req'[o])
  <2>1. Assembled(req[h], env, left).calm = req[h].calm
    BY <1>1 DEF Assembled, Request
  <2>2. EnvironmentOK(Assembled(req[h], env, left))
    BY <1>8, <2>1 DEF EnvironmentOK
  <2> QED BY <1>1, <1>8, <2>2, EnvironmentPut
<1>9. CASE ReadConfigVars(h)
  <2>1. PICK setvars \in GetConfigVars(req[h].configset) :
          req' = [req EXCEPT ![h] =
            Assembled(req[h], Override(BuiltIn[req[h].name], setvars), req[h].services)]
    BY <1>9 DEF ReadConfigVars
  <2> DEFINE env == Override(BuiltIn[req[h].name], setvars)
  <2>2. CASE req[h].calm
    <3>1. req[h].configset \in ConfigSets(req[h].name) /\ req[h].services = Services(req[h].name)
      BY <1>1, <1>9, <2>2 DEF EnvironmentOK, ReadConfigVars
    <3>2. req[h].configset \in SUBSET Set
      BY <1>1, Fields
    <3>3. Partial(env, req[h].name, req[h].configset, {})
      BY <1>1, <3>2, BeginsPartial
    <3>4. Services(req[h].name) \ req[h].services = {}
      BY <3>1
    <3>5. env \in Environment
      BY <1>1, <3>2, ConfigVarsType, OverrideType DEF NamesAssumption
    <3>6. EnvironmentOK(Assembled(req[h], env, req[h].services))
      BY <1>1, <3>1, <3>3, <3>4, <3>5, AssembledOK
    <3> QED BY <1>1, <2>1, <3>6, EnvironmentPut
  <2> QED BY <1>8, <2>1, <2>2
<1>10. CASE AskService(h)
  <2>1. ASSUME ~Fail(h)
        PROVE  \E s \in req[h].services : \E new \in ServiceVars(req[h].name, s) :
                 /\ ~Unfit(req[h].name, s)
                 /\ req' = [req EXCEPT ![h] =
                      Assembled(req[h], Override(req[h].env, new), req[h].services \ {s})]
    BY <1>10, <2>1 DEF AskService
  <2>2. ASSUME NEW s \in req[h].services, NEW new \in ServiceVars(req[h].name, s),
               ~Unfit(req[h].name, s), req[h].calm,
               req' = [req EXCEPT ![h] =
                 Assembled(req[h], Override(req[h].env, new), req[h].services \ {s})]
        PROVE  \A o \in Handler : EnvironmentOK(req'[o])
    <3> DEFINE n == req[h].name
               env == Override(req[h].env, new)
    <3>1. PICK configset \in ConfigSets(n) :
            Partial(req[h].env, n, configset, Services(n) \ req[h].services)
      BY <1>1, <1>10, <2>2 DEF EnvironmentOK, AskService
    <3>2. req[h].env \in Environment /\ s \in Service
      BY <1>1, Fields
    <3>3. Partial(env, n, configset, (Services(n) \ req[h].services) \union {s})
      BY <1>1, <2>2, <3>1, <3>2, AddsToPartial
    <3>4. req[h].services \subseteq Services(n)
      BY <1>1, <1>10, <2>2 DEF EnvironmentOK, AskService
    <3>5. Services(n) \ (req[h].services \ {s}) = (Services(n) \ req[h].services) \union {s}
      BY <3>4
    <3>6. env \in Environment
      BY <1>1, <3>2, ServiceVarsType, OverrideType
    <3>7. EnvironmentOK(Assembled(req[h], env, req[h].services \ {s}))
      BY <1>1, <3>1, <3>3, <3>4, <3>5, <3>6, AssembledOK
    <3> QED BY <1>1, <2>2, <3>7, EnvironmentPut
  <2> QED BY <1>2, <1>8, <2>1, <2>2 DEF Fail
<1> QED BY <1>4, <1>5, <1>6, <1>7, <1>9, <1>10 DEF Step

\* All other steps: what arrives is not calm, and nothing is after the tables changed.
LEMMA EnvironmentNext ==
  ASSUME NamesAssumption, ServicesAssumption, JobsAssumption, TypeOK, EnvironmentsOK, [Next]_vars
  PROVE  EnvironmentsOK'
<1>1. RequestsOK
  BY TypeParts
<1>2. ASSUME UNCHANGED tables PROVE UNCHANGED read
  BY <1>2 DEF tables, bound, read
<1>3. ASSUME NEW h \in Handler, Step(h) PROVE EnvironmentsOK'
  BY <1>2, <1>3, EnvironmentStep, SameTables DEF Step
<1>4. ASSUME NEW h \in Handler, RequestFailure(h) \/ AnswerLost(h)
      PROVE  EnvironmentsOK'
  <2>1. UNCHANGED tables /\ Idle(h)
    BY <1>4 DEF RequestFailure, AnswerLost, Fail
  <2> QED BY <1>1, <1>2, <2>1, EnvironmentIdle, SameTables
<1>5. ASSUME NEW h \in Handler, ErrorIgnored(h)
      PROVE  EnvironmentsOK'
  <2>1. UNCHANGED tables /\ req[h].pc \in {"exists", "bindings", "oneoffexists", "delpod"}
    BY <1>5 DEF ErrorIgnored
  <2>2. req[h] \in Request /\ EnvironmentOK(req[h])
    BY <1>1 DEF RequestsOK, EnvironmentsOK
  <2>3. ~req[h].calm
    BY <2>1, <2>2 DEF EnvironmentOK
  <2>4. ASSUME NEW pc, req' = [req EXCEPT ![h] = [req[h] EXCEPT !.pc = pc]]
        PROVE  \A o \in Handler : EnvironmentOK(req'[o])
    <3>1. EnvironmentOK([req[h] EXCEPT !.pc = pc])
      BY <2>2, <2>3 DEF EnvironmentOK, Request
    <3> QED BY <1>1, <2>4, <3>1, EnvironmentPut
  <2>5. ASSUME req' = [req EXCEPT ![h] = NoRequest]
        PROVE  \A o \in Handler : EnvironmentOK(req'[o])
    <3>1. Idle(h)
      BY <2>5 DEF Idle
    <3> QED BY <1>1, <3>1, EnvironmentIdle
  <2>6. ASSUME To(h, "bindings")
        PROVE  \A o \in Handler : EnvironmentOK(req'[o])
    BY <1>1, <2>1, <2>6, EnvironmentTo
  <2>7. \/ To(h, "bindings")
        \/ req' = [req EXCEPT ![h] = [req[h] EXCEPT !.pc = "configvars"]]
        \/ req' = [req EXCEPT ![h] = [req[h] EXCEPT !.pc = "bindings"]]
        \/ req' = [req EXCEPT ![h] = NoRequest]
    BY <1>5 DEF ErrorIgnored
  <2> QED BY <1>2, <2>1, <2>4, <2>5, <2>6, <2>7, SameTables
<1>6. ASSUME NEW h \in Handler, NEW r \in Request, ~r.calm, Arrive(h, r)
      PROVE  EnvironmentsOK'
  <2>1. UNCHANGED tables
    BY <1>6 DEF Arrive
  <2>2. PICK others \in SUBSET Handler :
          req' = [o \in Handler |->
                    IF o = h THEN [r EXCEPT !.id = requests + 1, !.alone = others = {}]
                    ELSE IF o \in others THEN [req[o] EXCEPT !.alone = FALSE] ELSE req[o]]
    BY <1>6 DEF Arrive
  <2>3. ASSUME NEW o \in Handler PROVE EnvironmentOK(req'[o])
    <3>1. req[o] \in Request /\ EnvironmentOK(req[o])
      BY <1>1 DEF RequestsOK, EnvironmentsOK
    <3>2. CASE o = h
      <4>1. ASSUME NEW b PROVE ~[r EXCEPT !.id = requests + 1, !.alone = b].calm
        BY <1>6 DEF Request
      <4>2. ~[r EXCEPT !.id = requests + 1, !.alone = others = {}].calm
        BY <4>1, Zenon
      <4>3. req'[o] = [r EXCEPT !.id = requests + 1, !.alone = others = {}]
        BY <2>2, <3>2
      <4>4. ~req'[o].calm
        BY <4>2, <4>3, Zenon
      <4> QED BY <4>4 DEF EnvironmentOK
    <3>3. CASE o # h
      <4>1. req'[o] = req[o] \/ req'[o] = [req[o] EXCEPT !.alone = FALSE]
        BY <2>2, <3>3
      <4>2. EnvironmentOK([req[o] EXCEPT !.alone = FALSE])
        BY <3>1 DEF EnvironmentOK, Request
      <4> QED BY <3>1, <4>1, <4>2
    <3> QED BY <3>2, <3>3
  <2> QED BY <1>2, <2>1, <2>3, SameTables
<1>7. ASSUME NEW h \in Handler, StartRequest(h)
      PROVE  EnvironmentsOK'
  <2>1. NoRequest \in Request /\ NoRequest.calm = FALSE
    BY EmptyTypes DEF NoRequest
  <2>2. PICK m \in Name :
          \/ \E delete \in BOOLEAN : StartDeployJob(h, m, delete)
          \/ StartDeployCronJob(h, m) \/ StartStopJob(h, m) \/ StartCleanJobs(h, m)
          \/ StartStopCronJob(h, m) \/ StartStopOneOffPod(h, m)
          \/ \E k \in Parallelism : StartScaleJob(h, m, k)
          \/ \E env \in Env : StartOneOff(h, m, env)
    BY <1>7 DEF StartRequest, JobsAssumption
  <2>3. ASSUME NEW op \in Op, NEW pc \in (Reading \union Writing), Begin(h, op, pc, m)
        PROVE  EnvironmentsOK'
    <3> DEFINE r == [NoRequest EXCEPT !.op = op, !.pc = pc, !.name = m]
    <3>1. r \in Request /\ r.calm = FALSE
      BY <2>1 DEF Request
    <3>2. Arrive(h, r)
      BY <2>3 DEF Begin
    <3> HIDE DEF r
    <3> QED BY <1>6, <3>1, <3>2
  <2>4. CASE \E delete \in BOOLEAN : StartDeployJob(h, m, delete)
    <3>1. Begin(h, "run", "row", m) \/ Begin(h, "rerun", "row", m)
      BY <2>4 DEF StartDeployJob
    <3> QED BY <2>3, <3>1 DEF Op, Reading
  <2>5. CASE StartDeployCronJob(h, m) \/ StartStopJob(h, m) \/ StartStopOneOffPod(h, m)
    BY <2>3, <2>5 DEF StartDeployCronJob, StartStopJob, StartStopOneOffPod, Op, Reading
  <2>6. CASE StartCleanJobs(h, m) \/ StartStopCronJob(h, m)
    BY <2>3, <2>6 DEF StartCleanJobs, StartStopCronJob, Op, Writing
  <2>7. ASSUME NEW k \in Parallelism, StartScaleJob(h, m, k)
        PROVE  EnvironmentsOK'
    <3> DEFINE r == [NoRequest EXCEPT !.op = "scale", !.pc = "getjob", !.name = m, !.parallelism = k]
    <3>1. r \in Request /\ r.calm = FALSE
      BY <2>1 DEF Request, Op, Reading
    <3>2. Arrive(h, r)
      BY <2>7 DEF StartScaleJob
    <3> HIDE DEF r
    <3> QED BY <1>6, <3>1, <3>2
  <2>8. ASSUME NEW env \in Env, StartOneOff(h, m, env)
        PROVE  EnvironmentsOK'
    <3> DEFINE r == [NoRequest EXCEPT !.op = "oneoff", !.pc = "oneoffexists", !.name = m, !.extra = env]
    <3>1. r \in Request /\ r.calm = FALSE
      BY <2>1 DEF Request, Op, Reading
    <3>2. Arrive(h, r)
      BY <2>8 DEF StartOneOff
    <3> HIDE DEF r
    <3> QED BY <1>6, <3>1, <3>2
  <2> QED BY <2>2, <2>4, <2>5, <2>6, <2>7, <2>8
<1>8. CASE ChangeTables
  <2>1. req' = [h \in Handler |-> [req[h] EXCEPT !.calm = FALSE]]
    BY <1>8 DEF ChangeTables
  <2>2. ASSUME NEW h \in Handler PROVE ~req'[h].calm
    BY <1>1, <2>1 DEF RequestsOK, Request
  <2> QED BY <2>2 DEF EnvironmentsOK, EnvironmentOK
<1>9. CASE \/ CreateASet \/ ChangeRows \/ UNCHANGED vars
           \/ \E n \in JobName : \/ PodsStart(n) \/ PodsScaledDown(n) \/ DeadlinePasses(n)
                                 \/ PodsEnd(n) \/ PodGone(n)
  <2>1. req' = req
    BY <1>9 DEF CreateASet, ChangeRows, PodsStart, PodsScaledDown, DeadlinePasses, PodsEnd, PodGone, vars
  <2>2. UNCHANGED read
    BY <1>9 DEF CreateASet, Createset, ChangeRows, AddJobRow, AddCronJobRow, DeleteJobRow,
                DeleteCronJobRow, PodsStart, PodsScaledDown, DeadlinePasses, PodsEnd, PodGone,
                vars, tables, bound, read
  <2> QED BY <2>1, <2>2, SameTables DEF EnvironmentsOK
<1> QED BY <1>3, <1>4, <1>5, <1>7, <1>8, <1>9 DEF Next

\* Whatever changes in the tables, and whoever else reads: a job or one-off pod that
\* is created without such a change since its binds were read gets what they give it.
THEOREM JobEnvironmentsAsBound == Spec => []EnvironmentAsBound
<1> DEFINE Inv == TypeOK /\ EnvironmentsOK
<1>1. Init => Inv
  <2>1. NoRequest.calm = FALSE
    BY DEF NoRequest
  <2>2. ASSUME Init, NEW h \in Handler PROVE req[h] = NoRequest
    BY <2>2 DEF Init
  <2>3. Init => EnvironmentsOK
    BY <2>1, <2>2 DEF EnvironmentsOK, EnvironmentOK
  <2> QED BY <2>3, InitType, NamesAssumption, JobsAssumption
<1>2. Inv /\ [Next]_vars => Inv'
  <2>1. TypeOK /\ [Next]_vars => TypeOK'
    BY NextType, NamesAssumption, ServicesAssumption, JobsAssumption
  <2>2. TypeOK /\ EnvironmentsOK /\ [Next]_vars => EnvironmentsOK'
    BY EnvironmentNext, NamesAssumption, ServicesAssumption, JobsAssumption
  <2> QED BY <2>1, <2>2
<1>3. Inv => EnvironmentAsBound
  <2>1. ASSUME Inv, NEW h \in Handler, req[h].pc = "create", req[h].calm
        PROVE  IsEnvironmentOf(req[h].env, req[h].name, req[h].extra)
    <3>1. EnvironmentOK(req[h])
      BY <2>1 DEF EnvironmentsOK
    <3>2. PICK configset \in ConfigSets(req[h].name) :
            Complete(req[h].env, req[h].name, configset, req[h].extra)
      BY <2>1, <3>1 DEF EnvironmentOK
    <3> QED BY <3>2, CompleteIsEnvironment
  <2> QED BY <2>1 DEF EnvironmentAsBound
<1> QED BY <1>1, <1>2, <1>3, PTL DEF Spec
==============================================================================
