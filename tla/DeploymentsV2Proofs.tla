-------------------------- MODULE DeploymentsV2Proofs --------------------------
(***************************************************************************)
(* Proofs about the second interface, for any number of concurrent         *)
(* requests, deployments, apps, paths and releases.                        *)
(***************************************************************************)
EXTENDS DeploymentsV2, TLAPS

-----------------------------------------------------------------------------
(* Sequences of tasks. *)

In(t, s) == \E i \in DOMAIN s : s[i] = t

\* An authentication object never comes last.
Paired(s) == \A i \in DOMAIN s : s[i].object = "authentication" => i + 1 \in DOMAIN s

\* What is in a concatenation.
LEMMA InBoth ==
  ASSUME NEW T, NEW s \in Seq(T), NEW u \in Seq(T)
  PROVE  /\ s \o u \in Seq(T)
         /\ \A t : In(t, s \o u) <=> In(t, s) \/ In(t, u)
<1>1. s \o u \in Seq(T) /\ Len(s \o u) = Len(s) + Len(u)
  OBVIOUS
<1>2. \A i \in 1..Len(s) : (s \o u)[i] = s[i]
  OBVIOUS
<1>3. \A i \in 1..Len(u) : (s \o u)[Len(s) + i] = u[i] /\ Len(s) + i \in 1..Len(s \o u)
  BY <1>1
<1>4. \A i \in 1..Len(s \o u) : i \in 1..Len(s) \/ \E j \in 1..Len(u) : i = Len(s) + j
  <2> SUFFICES ASSUME NEW i \in 1..Len(s \o u), i \notin 1..Len(s)
               PROVE  \E j \in 1..Len(u) : i = Len(s) + j
    OBVIOUS
  <2>1. i - Len(s) \in 1..Len(u) /\ i = Len(s) + (i - Len(s))
    BY <1>1
  <2> QED BY <2>1
<1>5. DOMAIN s = 1..Len(s) /\ DOMAIN u = 1..Len(u) /\ DOMAIN (s \o u) = 1..Len(s \o u)
  BY <1>1
<1>6. \A i \in 1..Len(s) : i \in 1..Len(s \o u)
  BY <1>1
<1>7. ASSUME NEW t, In(t, s \o u) PROVE In(t, s) \/ In(t, u)
  <2>1. PICK i \in 1..Len(s \o u) : (s \o u)[i] = t
    BY <1>5, <1>7 DEF In
  <2>2. CASE i \in 1..Len(s)
    BY <1>2, <1>5, <2>1, <2>2 DEF In
  <2>3. ASSUME NEW j \in 1..Len(u), i = Len(s) + j PROVE In(t, u)
    BY <1>3, <1>5, <2>1, <2>3 DEF In
  <2> QED BY <1>4, <2>2, <2>3
<1>8. ASSUME NEW t, In(t, s) \/ In(t, u) PROVE In(t, s \o u)
  BY <1>2, <1>3, <1>5, <1>6, <1>8 DEF In
<1> QED BY <1>1, <1>7, <1>8

\* Pairs stay pairs in a concatenation.
LEMMA PairedBoth ==
  ASSUME NEW T, NEW s \in Seq(T), NEW u \in Seq(T), Paired(s), Paired(u)
  PROVE  Paired(s \o u)
<1>1. s \o u \in Seq(T) /\ Len(s \o u) = Len(s) + Len(u)
  OBVIOUS
<1>2. DOMAIN s = 1..Len(s) /\ DOMAIN u = 1..Len(u) /\ DOMAIN (s \o u) = 1..Len(s \o u)
  BY <1>1
<1> SUFFICES ASSUME NEW i \in 1..Len(s \o u), (s \o u)[i].object = "authentication"
             PROVE  i + 1 \in 1..Len(s \o u)
  BY <1>2 DEF Paired
<1>3. CASE i \in 1..Len(s)
  <2>1. (s \o u)[i] = s[i]
    BY <1>3
  <2>2. i + 1 \in 1..Len(s)
    BY <1>2, <1>3, <2>1 DEF Paired
  <2> QED BY <1>1, <2>2
<1>4. CASE i \notin 1..Len(s)
  <2> DEFINE j == i - Len(s)
  <2>1. j \in 1..Len(u) /\ i = Len(s) + j
    BY <1>1, <1>4
  <2>2. (s \o u)[i] = u[j]
    BY <2>1
  <2>3. j + 1 \in 1..Len(u)
    BY <1>2, <2>1, <2>2 DEF Paired
  <2> QED BY <1>1, <2>1, <2>3
<1> QED BY <1>3, <1>4

\* Head and tail.
LEMMA HeadTail ==
  ASSUME NEW T, NEW s \in Seq(T), s # <<>>
  PROVE  /\ Head(s) \in T /\ Tail(s) \in Seq(T) /\ In(Head(s), s)
         /\ \A t : In(t, s) <=> t = Head(s) \/ In(t, Tail(s))
         /\ Paired(s) => /\ Paired(Tail(s))
                         /\ Head(s).object = "authentication" => Tail(s) # <<>>
<1>1. /\ Len(s) \in Nat \ {0} /\ Head(s) = s[1] /\ Head(s) \in T
      /\ Tail(s) \in Seq(T) /\ Len(Tail(s)) = Len(s) - 1
      /\ \A i \in 1..Len(Tail(s)) : Tail(s)[i] = s[i + 1]
  OBVIOUS
<1>2. DOMAIN s = 1..Len(s) /\ DOMAIN Tail(s) = 1..Len(Tail(s))
  BY <1>1
<1>3. \A i \in 1..Len(s) : i = 1 \/ (i - 1 \in 1..Len(Tail(s)) /\ (i - 1) + 1 = i)
  BY <1>1
<1>4. 1 \in 1..Len(s) /\ \A i \in 1..Len(Tail(s)) : i + 1 \in 1..Len(s)
  BY <1>1
<1>5. ASSUME NEW t, In(t, s) PROVE t = Head(s) \/ In(t, Tail(s))
  BY <1>1, <1>2, <1>3, <1>5 DEF In
<1>6. ASSUME NEW t, t = Head(s) \/ In(t, Tail(s)) PROVE In(t, s)
  BY <1>1, <1>2, <1>4, <1>6 DEF In
<1>7. ASSUME Paired(s) PROVE Paired(Tail(s))
  <2> SUFFICES ASSUME NEW i \in 1..Len(Tail(s)), Tail(s)[i].object = "authentication"
               PROVE  i + 1 \in 1..Len(Tail(s))
    BY <1>2 DEF Paired
  <2>1. s[i + 1].object = "authentication" /\ i + 1 \in 1..Len(s)
    BY <1>1, <1>4
  <2>2. i + 1 + 1 \in 1..Len(s)
    BY <1>2, <1>7, <2>1 DEF Paired
  <2> QED BY <1>1, <2>2
<1>8. ASSUME Paired(s), Head(s).object = "authentication" PROVE Tail(s) # <<>>
  <2>1. 1 + 1 \in 1..Len(s)
    BY <1>1, <1>2, <1>4, <1>8 DEF Paired
  <2>2. Len(Tail(s)) >= 1
    BY <1>1, <2>1
  <2> QED BY <2>2
<1> QED BY <1>1, <1>5, <1>6, <1>7, <1>8

\* The empty sequence.
LEMMA InNothing ==
  /\ \A T : <<>> \in Seq(T)
  /\ \A t : ~In(t, <<>>)
  /\ Paired(<<>>)
BY DEF In, Paired

-----------------------------------------------------------------------------
(* The tasks of a deployment. *)

ObjectsOf(f, n) ==
  IF f = "jwt" THEN TokenObjects ELSE IF RouteOf[n] = NoPath THEN {n} ELSE {n, Site}
TaskFor(do, f, o) == [do |-> do, filter |-> f, object |-> o]

\* The tasks about a filter are those about its objects.
LEMMA TasksAre ==
  ASSUME NEW do \in {"install", "remove"}, NEW f \in Filter, NEW n \in Name
  PROVE  /\ Tasks(do, f, n) \in Seq(Task) /\ Paired(Tasks(do, f, n)) /\ Tasks(do, f, n) # <<>>
         /\ \A t : In(t, Tasks(do, f, n)) <=> \E o \in ObjectsOf(f, n) : t = TaskFor(do, f, o)
<1> DEFINE s == Tasks(do, f, n)
<1> USE DEF TaskFor
<1>1. CASE f = "jwt"
  <2>1. s = <<TaskFor(do, f, "authentication"), TaskFor(do, f, "policies")>>
    BY <1>1 DEF Tasks, Objects
  <2>2. ObjectsOf(f, n) = {"authentication", "policies"}
    BY <1>1 DEF ObjectsOf, TokenObjects
  <2>3. s \in Seq(Task) /\ s # <<>>
    BY <2>1 DEF Task, TokenObjects
  <2>4. DOMAIN s = {1, 2}
    BY <2>1
  <2>5. Paired(s)
    BY <2>1, <2>4 DEF Paired
  <2> QED BY <2>1, <2>2, <2>3, <2>4, <2>5 DEF In
<1>2. CASE f # "jwt" /\ RouteOf[n] = NoPath
  <2>1. s = <<TaskFor(do, f, n)>>
    BY <1>2 DEF Tasks, Objects
  <2>2. ObjectsOf(f, n) = {n}
    BY <1>2 DEF ObjectsOf
  <2>3. s \in Seq(Task) /\ s # <<>>
    BY <2>1 DEF Task
  <2>4. DOMAIN s = {1} /\ n # "authentication"
    BY <2>1, ObjectsAssumption DEF TokenObjects
  <2>5. Paired(s)
    BY <2>1, <2>4 DEF Paired
  <2> QED BY <2>1, <2>2, <2>3, <2>4, <2>5 DEF In
<1>3. CASE f # "jwt" /\ RouteOf[n] # NoPath
  <2>1. s = <<TaskFor(do, f, n), TaskFor(do, f, Site)>>
    BY <1>3 DEF Tasks, Objects
  <2>2. ObjectsOf(f, n) = {n, Site}
    BY <1>3 DEF ObjectsOf
  <2>3. s \in Seq(Task) /\ s # <<>>
    BY <2>1 DEF Task
  <2>4. DOMAIN s = {1, 2} /\ n # "authentication" /\ Site # "authentication"
    BY <2>1, ObjectsAssumption DEF TokenObjects
  <2>5. Paired(s)
    BY <2>1, <2>4 DEF Paired
  <2> QED BY <2>1, <2>2, <2>3, <2>4, <2>5 DEF In
<1> QED BY <1>1, <1>2, <1>3

\* A deployment's filters, at most three.
LEMMA AskedAre ==
  ASSUME NEW r \in Release
  PROVE  /\ \A i \in DOMAIN FiltersOf[r] : FiltersOf[r][i] \in Filter
         /\ DOMAIN FiltersOf[r] \subseteq {1, 2, 3}
<1>1. FiltersOf[r] \in {<<>>} \union [{1} -> Filter] \union [{1, 2} -> Filter]
                      \union [{1, 2, 3} -> Filter]
  BY ReleasesAssumption
<1> QED BY <1>1

\* The tasks of a deployment first install what was asked for ...
LEMMA InstallationsAre ==
  ASSUME NEW r \in Release, NEW n \in Name
  PROVE  LET s == Installations(FiltersOf[r], n)
             asked == {FiltersOf[r][i] : i \in DOMAIN FiltersOf[r]}
         IN  /\ s \in Seq(Task) /\ Paired(s)
             /\ \A t : In(t, s) <=>
                  \E f \in asked : \E o \in ObjectsOf(f, n) : t = TaskFor("install", f, o)
             /\ s = <<>> => asked = {}
<1> DEFINE fs == FiltersOf[r]
           of(i) == IF i \in DOMAIN fs THEN Tasks("install", fs[i], n) ELSE <<>>
           s == of(1) \o of(2) \o of(3)
<1>1. \A i \in {1, 2, 3} :
        /\ of(i) \in Seq(Task) /\ Paired(of(i)) /\ (i \in DOMAIN fs => of(i) # <<>>)
        /\ \A t : In(t, of(i)) <=>
             i \in DOMAIN fs /\ \E o \in ObjectsOf(fs[i], n) : t = TaskFor("install", fs[i], o)
  BY TasksAre, AskedAre, InNothing
<1> HIDE DEF of
<1>2. /\ of(1) \o of(2) \in Seq(Task) /\ Paired(of(1) \o of(2))
      /\ \A t : In(t, of(1) \o of(2)) <=> In(t, of(1)) \/ In(t, of(2))
  BY <1>1, InBoth, PairedBoth
<1>3. /\ s \in Seq(Task) /\ Paired(s)
      /\ \A t : In(t, s) <=> In(t, of(1)) \/ In(t, of(2)) \/ In(t, of(3))
  BY <1>1, <1>2, InBoth, PairedBoth
<1>4. \A i \in DOMAIN fs : i \in {1, 2, 3}
  BY AskedAre
<1>5. \A t : In(t, s) <=> \E i \in DOMAIN fs : \E o \in ObjectsOf(fs[i], n) : t = TaskFor("install", fs[i], o)
  BY <1>1, <1>3, <1>4
<1>6. s = <<>> => DOMAIN fs = {}
  <2>1. ASSUME NEW i \in DOMAIN fs PROVE s # <<>>
    <3>1. of(i) \in Seq(Task) /\ of(i) # <<>>
      BY <1>1, <1>4
    <3>2. \E t : In(t, of(i))
      BY <3>1, HeadTail
    <3> QED BY <1>3, <1>4, <3>2, InNothing
  <2> QED BY <2>1
<1>7. s = Installations(fs, n)
  BY DEF Installations, of
<1> HIDE DEF s
<1> QED BY <1>3, <1>5, <1>6, <1>7

\* ... and then remove what was not found.
LEMMA RemovalsAre ==
  ASSUME NEW found \in SUBSET Filter, NEW n \in Name
  PROVE  LET s == Removals(found, n)
         IN  /\ s \in Seq(Task) /\ Paired(s)
             /\ \A t : In(t, s) <=>
                  \E f \in Filter \ found : \E o \in ObjectsOf(f, n) : t = TaskFor("remove", f, o)
             /\ s = <<>> => Filter \subseteq found
<1> DEFINE of(f) == IF f \in found THEN <<>> ELSE Tasks("remove", f, n)
           s == of("cors") \o of("csp") \o of("jwt")
<1>1. \A f \in Filter :
        /\ of(f) \in Seq(Task) /\ Paired(of(f)) /\ (f \notin found => of(f) # <<>>)
        /\ \A t : In(t, of(f)) <=>
             f \notin found /\ \E o \in ObjectsOf(f, n) : t = TaskFor("remove", f, o)
  BY TasksAre, InNothing
<1>0. "cors" \in Filter /\ "csp" \in Filter /\ "jwt" \in Filter
  BY DEF Filter
<1> HIDE DEF of
<1>2. /\ of("cors") \o of("csp") \in Seq(Task) /\ Paired(of("cors") \o of("csp"))
      /\ \A t : In(t, of("cors") \o of("csp")) <=> In(t, of("cors")) \/ In(t, of("csp"))
  BY <1>0, <1>1, InBoth, PairedBoth
<1>3. /\ s \in Seq(Task) /\ Paired(s)
      /\ \A t : In(t, s) <=> In(t, of("cors")) \/ In(t, of("csp")) \/ In(t, of("jwt"))
  BY <1>0, <1>1, <1>2, InBoth, PairedBoth
<1>4. \A t : In(t, s) <=> \E f \in Filter : In(t, of(f))
  BY <1>3 DEF Filter
<1>5. s = <<>> => Filter \subseteq found
  <2>1. ASSUME NEW f \in Filter, f \notin found PROVE s # <<>>
    <3>1. of(f) \in Seq(Task) /\ of(f) # <<>>
      BY <1>1, <2>1
    <3>2. \E t : In(t, of(f))
      BY <3>1, HeadTail
    <3> QED BY <1>4, <3>2, InNothing
  <2> QED BY <2>1
<1>6. s = Removals(found, n)
  BY DEF Removals, of
<1> HIDE DEF s
<1> QED BY <1>1, <1>3, <1>4, <1>5, <1>6

\* So there is nothing but to remove.
LEMMA RemovalsRemove ==
  ASSUME NEW found \in SUBSET Filter, NEW n \in Name
  PROVE  Removals(found, n) \in Seq(Task) /\ \A t : In(t, Removals(found, n)) => t.do = "remove"
BY RemovalsAre DEF TaskFor

-----------------------------------------------------------------------------
(* Types. *)

\* The constants, one by one.
LEMMA Constants ==
  /\ NoDeployment.replicas \in Instances /\ NoDeployment.release = NoRelease
  /\ NoDeployment \in Deployment
  /\ FirstRelease \in Release /\ PortOf[FirstRelease] \in Port /\ NoRelease \notin Release
  /\ NoPort \notin Port /\ Unset \notin Port
  /\ \A r \in Release : PortOf[r] \in Port \union {NoPort, Unset}
  /\ \A n \in Name : AppOf[n] \in AppID
  /\ Site \notin Name /\ NoService \notin VirtualService
<1>1. /\ NoDeployment.replicas \in Instances /\ NoDeployment.release = NoRelease
      /\ NoDeployment \in Deployment
  BY ReleasesAssumption DEF NoDeployment, Deployment
<1> QED BY <1>1, ReleasesAssumption, NamesAssumption, ObjectsAssumption

\* The request of an idle handler is well typed.
LEMMA NoRequestType == NoRequest \in Request
<1>1. /\ NoRequest.name \in Name /\ NoRequest.app \in AppID /\ NoRequest.release \in Release
      /\ NoRequest.instances \in Instances /\ NoRequest.todo \in Seq(Task)
  BY Constants, NamesAssumption DEF NoRequest
<1> QED BY <1>1 DEF NoRequest, Request

\* The step belongs to the operation, and the deployment to the app.
AppLoop == {"next", "found", "delservice", "deldeployment", "delrow", "delagain"}
OpOK(r) ==
  /\ r.pc \in {"check", "insert"} => r.op = "add"
  /\ r.pc \in {"snapshot", "write"} => r.op = "update"
  /\ r.pc \in {"setinstances", "scale"} => r.op = "scale"
  /\ r.pc \in {"read", "exists", "deploy", "serviceexists", "service", "filter", "put", "answer"}
       => r.op = "deploy"
  /\ r.pc = "info" => r.op = "delete"
  /\ r.pc \in {"found", "delservice", "deldeployment", "delrow"} => r.op \in Deleting
  /\ r.pc \in {"count", "list", "next", "delagain"} => r.op = "deleteapp"
  /\ r.op = "deleteapp" => /\ r.left \subseteq Touches(r) /\ r.listed \subseteq Touches(r)
                           /\ r.pc \in AppLoop \ {"next"} => r.name \in Touches(r)
  /\ r.pc \in {"serviceexists", "service", "filter", "put"} => PortOf[r.release] # NoPort
  /\ r.pc \in {"read", "exists", "deploy", "serviceexists", "service"} => r.found = {}

\* There is a task to do, all tasks are of one kind and about the right objects; what is
\* to be put back is a virtual service ...
TasksOK(n, s) ==
  /\ Paired(s)
  /\ \E do \in {"install", "remove"} :
       \A t : In(t, s) => t.do = do /\ t.object \in ObjectsOf(t.filter, n)
TodoOK(r) ==
  r.pc \in {"filter", "put"} =>
    /\ r.todo # <<>> /\ TasksOK(r.name, r.todo)
    /\ r.pc = "put" => Head(r.todo).filter # "jwt" /\ r.copy # NoService
GoodRequest(r) == r \in Request /\ OpOK(r) /\ TodoOK(r)

\* ... and the last version of it if it is said to be.
FreshOK(h) == req[h].pc = "put" /\ req[h].fresh => req[h].copy = vs[First(h).object]

\* What requests go on with: all the same, but for the next tasks.
Rest(r, s) ==
  /\ r.op = s.op /\ r.name = s.name /\ r.app = s.app /\ r.release = s.release
  /\ r.instances = s.instances /\ r.seen = s.seen /\ r.found = s.found
  /\ r.left = s.left /\ r.listed = s.listed /\ r.errors = s.errors /\ r.alone = s.alone

\* A request that proceeds is of its type and its next tasks are in order.
LEMMA ProceedIs ==
  ASSUME NEW r \in Request, NEW do \in {"install", "remove"}
  PROVE  LET p == Proceed(r, do)
         IN  /\ p \in Request /\ Rest(p, r)
             /\ p.todo = IF r.todo = <<>> /\ do = "install" THEN Removals(r.found, r.name) ELSE r.todo
             /\ p.pc = IF p.todo = <<>> THEN "answer" ELSE "filter"
             /\ TasksOK(r.name, r.todo) => TasksOK(r.name, p.todo)
<1> DEFINE todo == IF r.todo = <<>> /\ do = "install" THEN Removals(r.found, r.name) ELSE r.todo
           p == [r EXCEPT !.pc = IF todo = <<>> THEN "answer" ELSE "filter",
                          !.todo = todo, !.copy = NoService, !.fresh = TRUE]
<1>1. r.found \in SUBSET Filter /\ r.name \in Name /\ r.todo \in Seq(Task)
  BY DEF Request
<1>2. todo \in Seq(Task)
  BY <1>1, RemovalsAre
<1>3. TasksOK(r.name, r.todo) => TasksOK(r.name, todo)
  <2>1. TasksOK(r.name, Removals(r.found, r.name))
    <3>1. Paired(Removals(r.found, r.name))
      BY <1>1, RemovalsAre
    <3>2. \A t : In(t, Removals(r.found, r.name)) =>
            t.do = "remove" /\ t.object \in ObjectsOf(t.filter, r.name)
      BY <1>1, RemovalsAre DEF TaskFor
    <3> QED BY <3>1, <3>2 DEF TasksOK
  <2> QED BY <2>1
<1>4. Proceed(r, do) = p
  BY DEF Proceed
<1> HIDE DEF todo
<1>5. p \in Request
  BY <1>2 DEF Request, Unbegun, Begun
<1>6. Rest(p, r) /\ p.todo = todo /\ p.pc = IF p.todo = <<>> THEN "answer" ELSE "filter"
  BY DEF Request, Rest
<1> HIDE DEF p
<1> QED BY <1>3, <1>4, <1>5, <1>6 DEF todo

\* The first task of a request.
LEMMA FirstIs ==
  ASSUME NEW h \in Handler, req[h] \in Request, TodoOK(req[h]), req[h].pc \in {"filter", "put"}
  PROVE  /\ First(h) \in Task /\ Tail(req[h].todo) \in Seq(Task)
         /\ First(h).object \in ObjectsOf(First(h).filter, req[h].name)
         /\ TasksOK(req[h].name, Tail(req[h].todo))
         /\ First(h).object = "authentication" =>
              /\ Tail(req[h].todo) # <<>> /\ Tail(Tail(req[h].todo)) \in Seq(Task)
              /\ TasksOK(req[h].name, Tail(Tail(req[h].todo)))
<1> DEFINE s == req[h].todo
           n == req[h].name
<1>1. s \in Seq(Task) /\ s # <<>> /\ TasksOK(n, s)
  BY DEF TodoOK, Request
<1>2. ASSUME NEW u \in Seq(Task), u # <<>>, TasksOK(n, u)
      PROVE  /\ Head(u) \in Task /\ Tail(u) \in Seq(Task) /\ TasksOK(n, Tail(u))
             /\ Head(u).object \in ObjectsOf(Head(u).filter, n)
             /\ Head(u).object = "authentication" => Tail(u) # <<>>
  <2>1. /\ Head(u) \in Task /\ Tail(u) \in Seq(Task) /\ In(Head(u), u)
        /\ \A t : In(t, Tail(u)) => In(t, u)
        /\ Paired(u) => /\ Paired(Tail(u))
                        /\ Head(u).object = "authentication" => Tail(u) # <<>>
    BY <1>2, HeadTail
  <2> QED BY <1>2, <2>1 DEF TasksOK
<1> QED BY <1>1, <1>2 DEF First

\* A task that is done is followed by the next.
LEMMA DoneIs ==
  ASSUME NEW h \in Handler, req[h] \in Request, TodoOK(req[h]), req[h].pc \in {"filter", "put"}
  PROVE  LET t == First(h)
             own == t.do = "install" /\ t.object # Site
             found == IF own THEN req[h].found \union {t.filter} ELSE req[h].found
             r == [req[h] EXCEPT !.todo = Tail(@), !.found = found]
         IN  /\ TaskDone(h) = Proceed(r, t.do) /\ r \in Request /\ t.do \in {"install", "remove"}
             /\ TaskDone(h) \in Request /\ TasksOK(req[h].name, TaskDone(h).todo)
             /\ TaskDone(h).pc = IF TaskDone(h).todo = <<>> THEN "answer" ELSE "filter"
<1> DEFINE t == First(h)
           own == t.do = "install" /\ t.object # Site
           found == IF own THEN req[h].found \union {t.filter} ELSE req[h].found
           r == [req[h] EXCEPT !.todo = Tail(@), !.found = found]
<1>1. t.do \in {"install", "remove"} /\ t.filter \in Filter
  BY FirstIs DEF Task
<1>2. found \subseteq Filter
  BY <1>1 DEF Request
<1>3. TaskDone(h) = Proceed(r, t.do)
  BY DEF TaskDone, Request
<1> HIDE DEF found
<1>4. r \in Request /\ r.todo = Tail(req[h].todo) /\ r.name = req[h].name
  BY <1>2, FirstIs DEF Request
<1>5. TasksOK(r.name, r.todo)
  BY <1>4, FirstIs
<1> HIDE DEF r
<1>6. /\ TaskDone(h) \in Request /\ TasksOK(req[h].name, TaskDone(h).todo)
      /\ TaskDone(h).pc = IF TaskDone(h).todo = <<>> THEN "answer" ELSE "filter"
  <2> HIDE DEF t
  <2>1. LET p == Proceed(r, t.do)
        IN  /\ p \in Request
            /\ p.pc = IF p.todo = <<>> THEN "answer" ELSE "filter"
            /\ TasksOK(r.name, r.todo) => TasksOK(r.name, p.todo)
    BY <1>1, <1>4, ProceedIs
  <2> QED BY <1>3, <1>4, <1>5, <2>1
<1> QED BY <1>1, <1>3, <1>4, <1>6 DEF r, found

\* A task that failed is left out, and the request is no longer alone.
LEMMA FailedIs ==
  ASSUME NEW h \in Handler, req[h] \in Request, TodoOK(req[h]), req[h].pc \in {"filter", "put"}
  PROVE  /\ TaskFailed(h) \in Request /\ TasksOK(req[h].name, TaskFailed(h).todo)
         /\ TaskFailed(h).pc = IF TaskFailed(h).todo = <<>> THEN "answer" ELSE "filter"
         /\ ~TaskFailed(h).alone
         /\ TaskFailed(h).op = req[h].op /\ TaskFailed(h).name = req[h].name
         /\ TaskFailed(h).release = req[h].release /\ TaskFailed(h).instances = req[h].instances
         /\ TaskFailed(h).app = req[h].app
<1> DEFINE t == First(h)
           left == Tail(req[h].todo)
           todo == IF t.object = "authentication" THEN Tail(left) ELSE left
           passes == t.do = "install" /\ t.object # Site /\ (t.filter = "jwt" \/ req[h].pc = "filter")
           found == IF passes THEN req[h].found \union {t.filter} ELSE req[h].found
           r == [req[h] EXCEPT !.alone = FALSE, !.todo = todo, !.found = found]
<1>1. t.do \in {"install", "remove"} /\ t.filter \in Filter
  BY FirstIs DEF Task
<1>2. found \subseteq Filter
  BY <1>1 DEF Request
<1>3. todo \in Seq(Task) /\ TasksOK(req[h].name, todo)
  BY FirstIs
<1>4. TaskFailed(h) = Proceed(r, t.do)
  BY DEF TaskFailed, Request
<1> HIDE DEF found, todo
<1>5. r \in Request /\ r.todo = todo /\ r.name = req[h].name /\ ~r.alone
      /\ r.op = req[h].op /\ r.release = req[h].release /\ r.instances = req[h].instances
      /\ r.app = req[h].app
  BY <1>2, <1>3 DEF Request
<1> HIDE DEF r
<1> QED BY <1>1, <1>3, <1>4, <1>5, ProceedIs DEF Rest

\* A task that is done leaves the purpose of the request.
LEMMA DoneRest ==
  ASSUME NEW h \in Handler, req[h] \in Request, TodoOK(req[h]), req[h].pc \in {"filter", "put"}
  PROVE  /\ TaskDone(h).alone = req[h].alone
         /\ TaskDone(h).op = req[h].op /\ TaskDone(h).name = req[h].name
         /\ TaskDone(h).release = req[h].release /\ TaskDone(h).instances = req[h].instances
         /\ TaskDone(h).app = req[h].app
<1> DEFINE t == First(h)
           own == t.do = "install" /\ t.object # Site
           found == IF own THEN req[h].found \union {t.filter} ELSE req[h].found
           r == [req[h] EXCEPT !.todo = Tail(@), !.found = found]
<1>1. TaskDone(h) = Proceed(r, t.do) /\ r \in Request /\ t.do \in {"install", "remove"}
  BY DoneIs
<1>2. Rest(TaskDone(h), r)
  BY <1>1, ProceedIs
<1>3. /\ r.alone = req[h].alone /\ r.op = req[h].op /\ r.name = req[h].name
      /\ r.release = req[h].release /\ r.instances = req[h].instances /\ r.app = req[h].app
  BY DEF Request
<1> HIDE DEF r
<1> QED BY <1>2, <1>3 DEF Rest

\* Once there is a service the filters are installed.
LEMMA ServicedGood ==
  ASSUME NEW h \in Handler, GoodRequest(req[h]), req[h].pc = "service"
  PROVE  LET r == [req[h] EXCEPT !.todo = Installations(FiltersOf[req[h].release], req[h].name)]
         IN  GoodRequest(Proceed(r, "install")) /\ Rest(Proceed(r, "install"), req[h])
<1> DEFINE n == req[h].name
           todo == Installations(FiltersOf[req[h].release], n)
           r == [req[h] EXCEPT !.todo = todo]
           p == Proceed(r, "install")
<1>1. req[h].release \in Release /\ n \in Name
  BY DEF GoodRequest, Request
<1>2. todo \in Seq(Task) /\ TasksOK(n, todo)
  <2>1. todo \in Seq(Task) /\ Paired(todo)
    BY <1>1, InstallationsAre
  <2>2. \A t : In(t, todo) => t.do = "install" /\ t.object \in ObjectsOf(t.filter, n)
    BY <1>1, InstallationsAre DEF TaskFor
  <2> QED BY <2>1, <2>2 DEF TasksOK
<1> HIDE DEF todo
<1>3. r \in Request /\ r.todo = todo /\ Rest(r, req[h])
  BY <1>2 DEF Rest, GoodRequest, Request
<1> HIDE DEF r
<1>4. /\ p \in Request /\ Rest(p, r) /\ p.pc = IF p.todo = <<>> THEN "answer" ELSE "filter"
      /\ TasksOK(n, p.todo)
  BY <1>2, <1>3, ProceedIs DEF Rest
<1> HIDE DEF p
<1>5. Rest(p, req[h])
  BY <1>3, <1>4 DEF Rest
<1>6. p.op = "deploy" /\ PortOf[p.release] # NoPort /\ p.name = n
  BY <1>5 DEF Rest, GoodRequest, OpOK
<1>7. GoodRequest(p)
  BY <1>4, <1>6 DEF GoodRequest, OpOK, TodoOK, Deleting
<1> QED BY <1>5, <1>7 DEF p, r, todo

\* A step of a request that has arrived.
OwnStep(h) == Step(h) \/ RequestFailure(h) \/ ErrorIgnored(h)

\* What is known of requests on the way: their types, and what they go by.
Machine == TypeOK /\ \A h \in Handler : GoodRequest(req[h]) /\ FreshOK(h)

\* Requests alike but for having been met or overtaken by others.
Like(r, s) ==
  /\ r.pc = s.pc /\ r.op = s.op /\ r.name = s.name /\ r.app = s.app /\ r.release = s.release
  /\ r.instances = s.instances /\ r.seen = s.seen /\ r.todo = s.todo /\ r.found = s.found
  /\ r.copy = s.copy /\ r.left = s.left /\ r.listed = s.listed /\ r.errors = s.errors
  /\ (r.alone => s.alone) /\ (r.fresh => s.fresh)

\* What is alike a good request is one, too,
LEMMA LikeIsGood == ASSUME NEW r \in Request, NEW s, GoodRequest(s), Like(r, s) PROVE GoodRequest(r)
BY DEF GoodRequest, OpOK, TodoOK, Like, Touches

\* ... as is none.
LEMMA NoRequestGood == GoodRequest(NoRequest)
BY NoRequestType DEF NoRequest, GoodRequest, OpOK, TodoOK

\* A request that only goes from one step to another stays a good one.
LEMMA StepGood ==
  ASSUME NEW s, GoodRequest(s), NEW pc \in (Unbegun \union Begun) \ {"filter", "put"},
         OpOK([s EXCEPT !.pc = pc])
  PROVE  GoodRequest([s EXCEPT !.pc = pc])
<1>1. [s EXCEPT !.pc = pc] \in Request
  BY DEF GoodRequest, Request
<1> QED BY <1>1 DEF GoodRequest, TodoOK, Request

\* A deployment of an app that could not be deleted is noted.
LEMMA NotedGood ==
  ASSUME NEW h \in Handler, GoodRequest(req[h]), req[h].op = "deleteapp"
  PROVE  GoodRequest([req[h] EXCEPT !.pc = "next", !.errors = @ \union {req[h].name}])
<1> DEFINE r == [req[h] EXCEPT !.pc = "next", !.errors = @ \union {req[h].name}]
<1>1. r \in Request
  BY DEF GoodRequest, Request, Begun
<1> QED BY <1>1 DEF GoodRequest, OpOK, TodoOK, Request, Touches, AppLoop

\* An error ends a request, or the deletion of one deployment of an app.
LEMMA ErrorMoves ==
  ASSUME Machine, NEW h \in Handler, Error(h)
  PROVE  \E r : GoodRequest(r) /\ req' = [req EXCEPT ![h] = r]
<1>1. CASE req[h].op = "deleteapp" /\ req[h].pc \notin {"count", "list"}
  <2> DEFINE r == [req[h] EXCEPT !.pc = "next", !.errors = @ \union {req[h].name}]
  <2>1. GoodRequest(r)
    BY <1>1, NotedGood DEF Machine
  <2>2. req' = [req EXCEPT ![h] = r]
    BY <1>1 DEF Error, DeletionFailed, NoteError, Machine, TypeOK
  <2> QED BY <2>1, <2>2
<1>2. CASE ~(req[h].op = "deleteapp" /\ req[h].pc \notin {"count", "list"})
  BY <1>2, NoRequestGood DEF Error, Fail
<1> QED BY <1>1, <1>2

\* Each step leaves its request good.
LEMMA RowStepMoves ==
  ASSUME Machine, NEW h \in Handler,
         \/ CheckDeployment(h) \/ InsertDeployment(h) \/ SnapshotRow(h) \/ UpdateRow(h)
         \/ SetInstances(h) \/ Scale(h)
  PROVE  \E r : GoodRequest(r) /\ req' = [req EXCEPT ![h] = r]
<1>0. GoodRequest(req[h]) /\ req[h] \in Request
  BY DEF Machine, GoodRequest
<1>1. CASE CheckDeployment(h)
  <2>1. OpOK([req[h] EXCEPT !.pc = "insert"])
    BY <1>0, <1>1 DEF CheckDeployment, GoodRequest, OpOK, Request, Touches, AppLoop
  <2>2. GoodRequest([req[h] EXCEPT !.pc = "insert"])
    BY <1>0, <2>1, StepGood DEF Unbegun
  <2> QED BY <1>1, <2>2, NoRequestGood DEF CheckDeployment, Refuse, To
<1>2. CASE InsertDeployment(h) \/ UpdateRow(h) \/ Scale(h)
  BY <1>2, NoRequestGood DEF InsertDeployment, UpdateRow, Scale, Refuse
<1>3. CASE SnapshotRow(h)
  <2> DEFINE n == req[h].name
             r == [req[h] EXCEPT !.pc = "write", !.instances = instances[n]]
  <2>1. n \in Name /\ instances[n] \in Instances
    BY <1>0 DEF Machine, TypeOK, Request
  <2>2. r \in Request
    BY <1>0, <2>1 DEF Request, Begun
  <2>3. GoodRequest(r)
    BY <1>0, <1>3, <2>2 DEF SnapshotRow, GoodRequest, OpOK, TodoOK, Request, Touches, AppLoop
  <2>4. req' = [req EXCEPT ![h] = r] \/ Refuse(h)
    BY <1>3 DEF SnapshotRow, Machine, TypeOK
  <2> QED BY <2>3, <2>4, NoRequestGood DEF Refuse
<1>4. CASE SetInstances(h)
  <2>1. OpOK([req[h] EXCEPT !.pc = "scale"])
    BY <1>0, <1>4 DEF SetInstances, GoodRequest, OpOK, Request, Touches, AppLoop
  <2>2. GoodRequest([req[h] EXCEPT !.pc = "scale"])
    BY <1>0, <2>1, StepGood DEF Begun
  <2> QED BY <1>4, <2>2 DEF SetInstances, To
<1> QED BY <1>1, <1>2, <1>3, <1>4

\* The steps of a deployment up to its filters,
LEMMA DeployStepMoves ==
  ASSUME Machine, NEW h \in Handler,
         \/ ReadDeployment(h) \/ DeploymentExists(h) \/ WriteDeployment(h)
         \/ ServiceExists(h) \/ WriteService(h)
  PROVE  \E r : GoodRequest(r) /\ req' = [req EXCEPT ![h] = r]
<1>0. /\ GoodRequest(req[h]) /\ req[h] \in Request /\ req[h].name \in Name
      /\ req[h].release \in Release
  BY DEF Machine, GoodRequest, Request
<1> DEFINE n == req[h].name
<1>1. CASE ReadDeployment(h)
  <2> DEFINE r == [req[h] EXCEPT !.pc = "exists", !.instances = instances[n]]
  <2>1. instances[n] \in Instances
    BY <1>0 DEF Machine, TypeOK
  <2>2. r \in Request
    BY <1>0, <2>1 DEF Request, Unbegun
  <2>3. GoodRequest(r)
    BY <1>0, <1>1, <2>2 DEF ReadDeployment, GoodRequest, OpOK, TodoOK, Request, Touches, AppLoop
  <2>4. req' = [req EXCEPT ![h] = r] \/ Refuse(h)
    BY <1>1 DEF ReadDeployment, Machine, TypeOK
  <2> QED BY <2>3, <2>4, NoRequestGood DEF Refuse
<1>2. CASE DeploymentExists(h)
  <2> DEFINE seen == deployment[n].release # NoRelease
             r == [req[h] EXCEPT !.pc = "deploy", !.seen = seen]
  <2>1. r \in Request
    BY <1>0 DEF Request, Unbegun
  <2>2. GoodRequest(r)
    BY <1>0, <1>2, <2>1 DEF DeploymentExists, GoodRequest, OpOK, TodoOK, Request, Touches, AppLoop
  <2>3. req' = [req EXCEPT ![h] = r]
    BY <1>2 DEF DeploymentExists, Machine, TypeOK
  <2> QED BY <2>2, <2>3
<1>3. CASE WriteDeployment(h)
  <2>1. CASE req[h].seen = (deployment[n].release # NoRelease)
    <3> DEFINE pc == IF PortOf[req[h].release] = NoPort THEN "answer" ELSE "serviceexists"
    <3>1. OpOK([req[h] EXCEPT !.pc = pc])
      BY <1>0, <1>3 DEF WriteDeployment, GoodRequest, OpOK, Request, Touches, AppLoop
    <3>2. GoodRequest([req[h] EXCEPT !.pc = pc])
      BY <1>0, <3>1, StepGood DEF Begun
    <3> QED BY <1>3, <2>1, <3>2 DEF WriteDeployment, To
  <2>2. CASE req[h].seen # (deployment[n].release # NoRelease)
    BY <1>3, <2>2, ErrorMoves DEF WriteDeployment
  <2> QED BY <2>1, <2>2
<1>4. CASE ServiceExists(h)
  <2> DEFINE seen == service[n] # NoPort
             r == [req[h] EXCEPT !.pc = "service", !.seen = seen]
  <2>1. r \in Request
    BY <1>0 DEF Request, Begun
  <2>2. GoodRequest(r)
    BY <1>0, <1>4, <2>1 DEF ServiceExists, GoodRequest, OpOK, TodoOK, Request, Touches, AppLoop
  <2>3. req' = [req EXCEPT ![h] = r]
    BY <1>4 DEF ServiceExists, Machine, TypeOK
  <2> QED BY <2>2, <2>3
<1>5. CASE WriteService(h)
  <2>1. CASE Error(h)
    BY <2>1, ErrorMoves
  <2>2. CASE req' = [req EXCEPT ![h] = Proceed([@ EXCEPT !.todo = Installations(FiltersOf[req[h].release], n)], "install")]
    <3> DEFINE r == [req[h] EXCEPT !.todo = Installations(FiltersOf[req[h].release], n)]
    <3>1. GoodRequest(Proceed(r, "install"))
      BY <1>0, <1>5, ServicedGood DEF WriteService
    <3> QED BY <2>2, <3>1
  <2> QED BY <1>5, <2>1, <2>2 DEF WriteService
<1> QED BY <1>1, <1>2, <1>3, <1>4, <1>5

\* ... those about its filters, of which a put outdates the copies of others,
LEMMA FilterStepMoves ==
  ASSUME Machine, NEW h \in Handler,
         GetVirtualService(h) \/ PutVirtualService(h) \/ SetTokenObject(h) \/ Answer(h)
  PROVE  \E r : /\ GoodRequest(r)
                /\ \/ req' = [req EXCEPT ![h] = r]
                   \/ /\ PutVirtualService(h) /\ r.pc # "put"
                      /\ req' = Outdated([req EXCEPT ![h] = r], First(h).object)
<1>0. /\ GoodRequest(req[h]) /\ req[h] \in Request /\ req[h].name \in Name
      /\ req[h].release \in Release
  BY DEF Machine, GoodRequest, Request
<1>1. ASSUME req[h].pc \in {"filter", "put"} PROVE GoodRequest(TaskDone(h)) /\ TaskDone(h).pc # "put"
  <2>1. /\ TaskDone(h) \in Request /\ TasksOK(TaskDone(h).name, TaskDone(h).todo)
        /\ TaskDone(h).pc = IF TaskDone(h).todo = <<>> THEN "answer" ELSE "filter"
        /\ TaskDone(h).op = "deploy" /\ PortOf[TaskDone(h).release] # NoPort
    BY <1>0, <1>1, DoneIs, DoneRest DEF GoodRequest, OpOK
  <2> QED BY <2>1 DEF GoodRequest, OpOK, TodoOK, Deleting
<1>2. ASSUME req[h].pc \in {"filter", "put"} PROVE GoodRequest(TaskFailed(h))
  <2>1. /\ TaskFailed(h) \in Request /\ TasksOK(TaskFailed(h).name, TaskFailed(h).todo)
        /\ TaskFailed(h).pc = IF TaskFailed(h).todo = <<>> THEN "answer" ELSE "filter"
        /\ TaskFailed(h).op = "deploy" /\ PortOf[TaskFailed(h).release] # NoPort
    BY <1>0, <1>2, FailedIs DEF GoodRequest, OpOK
  <2> QED BY <2>1 DEF GoodRequest, OpOK, TodoOK, Deleting
<1>3. CASE GetVirtualService(h)
  <2> DEFINE o == First(h).object
             r == [req[h] EXCEPT !.pc = "put", !.copy = vs[o], !.fresh = TRUE]
  <2>1. CASE vs[o] = NoService
    BY <1>1, <1>3, <2>1 DEF GetVirtualService
  <2>2. CASE vs[o] # NoService
    <3>1. o \in Name \union {Site} /\ req[h].todo # <<>>
      BY <1>0, <1>3, FirstIs DEF GetVirtualService, GoodRequest, ObjectsOf, TodoOK
    <3>2. vs[o] \in VirtualService
      BY <2>2, <3>1 DEF Machine, TypeOK
    <3>3. r \in Request
      BY <1>0, <3>2 DEF Request, Begun
    <3>4. /\ r.pc = "put" /\ r.todo = req[h].todo /\ r.copy = vs[o] /\ r.name = req[h].name
          /\ r.op = req[h].op /\ r.release = req[h].release
      BY <1>0 DEF Request
    <3>5. Head(r.todo).filter # "jwt"
      BY <1>3, <3>4 DEF GetVirtualService, First
    <3>6. req' = [req EXCEPT ![h] = r]
      BY <1>3, <2>2 DEF GetVirtualService, Machine, TypeOK
    <3> HIDE DEF r
    <3>7. GoodRequest(r)
      BY <1>0, <1>3, <2>2, <3>3, <3>4, <3>5 DEF GetVirtualService, GoodRequest, OpOK, TodoOK, Deleting
    <3> QED BY <3>6, <3>7
  <2> QED BY <2>1, <2>2
<1>4. CASE PutVirtualService(h)
  BY <1>1, <1>2, <1>4 DEF PutVirtualService
<1>5. CASE SetTokenObject(h)
  BY <1>1, <1>5 DEF SetTokenObject
<1>6. CASE Answer(h)
  BY <1>6, NoRequestGood DEF Answer
<1> QED BY <1>3, <1>4, <1>5, <1>6

\* ... those of a deletion,
LEMMA DeleteStepMoves ==
  ASSUME Machine, NEW h \in Handler,
         \/ DeploymentInfo(h) \/ CountDeployments(h) \/ ListDeployments(h)
         \/ NextDeployment(h) \/ DeletionAnswered(h) \/ IterationFails(h) \/ DeploymentFound(h)
         \/ DeleteService(h) \/ DeleteDeployment(h)
         \/ DeleteRow(h) \/ DeleteRowAgain(h)
  PROVE  \E r : GoodRequest(r) /\ req' = [req EXCEPT ![h] = r]
<1>0. /\ GoodRequest(req[h]) /\ req[h] \in Request /\ OpOK(req[h]) /\ req[h].app \in AppID
  BY DEF Machine, GoodRequest, Request
<1>a. ASSUME NEW pc \in {"found", "list", "delservice", "deldeployment", "delrow", "delagain", "next"},
             OpOK([req[h] EXCEPT !.pc = pc])
      PROVE  GoodRequest([req[h] EXCEPT !.pc = pc])
  BY <1>0, <1>a, StepGood DEF Begun, Unbegun
<1> USE DEF OpOK, Request, Touches, AppLoop, Deleting
<1>1. CASE DeploymentInfo(h)
  <2>1. OpOK([req[h] EXCEPT !.pc = "found"])
    BY <1>0, <1>1 DEF DeploymentInfo
  <2> QED BY <1>1, <1>a, <2>1, NoRequestGood DEF DeploymentInfo, Refuse, To
<1>2. CASE CountDeployments(h)
  <2>1. OpOK([req[h] EXCEPT !.pc = "list"])
    BY <1>0, <1>2 DEF CountDeployments
  <2> QED BY <1>2, <1>a, <2>1, NoRequestGood DEF CountDeployments, Refuse, To
<1>3. CASE ListDeployments(h)
  <2> DEFINE listed == OfApp(req[h].app)
             r == [req[h] EXCEPT !.pc = "next", !.left = listed, !.listed = listed]
  <2>1. listed \subseteq Name /\ listed \subseteq {n \in Name : AppOf[n] = req[h].app}
    BY DEF OfApp, Machine, TypeOK
  <2>2. req' = [req EXCEPT ![h] = r]
    BY <1>3 DEF ListDeployments, Machine, TypeOK
  <2> HIDE DEF listed
  <2>3. r \in Request
    BY <1>0, <2>1 DEF Begun
  <2>4. OpOK(r)
    BY <1>0, <1>3, <2>1 DEF ListDeployments
  <2>5. GoodRequest(r)
    BY <1>0, <2>3, <2>4 DEF GoodRequest, TodoOK
  <2> QED BY <2>2, <2>5
<1>4. CASE NextDeployment(h)
  <2>1. PICK n \in req[h].left :
          req' = [req EXCEPT ![h].pc = "found", ![h].name = n, ![h].left = @ \ {n}]
    BY <1>4 DEF NextDeployment
  <2> DEFINE r == [req[h] EXCEPT !.pc = "found", !.name = n, !.left = @ \ {n}]
  <2>2. req' = [req EXCEPT ![h] = r]
    BY <2>1 DEF Machine, TypeOK
  <2>3. n \in Name /\ n \in Touches(req[h])
    BY <1>0, <1>4 DEF NextDeployment
  <2>4. r \in Request
    BY <1>0, <2>3 DEF Begun
  <2>5. OpOK(r)
    BY <1>0, <1>4, <2>3 DEF NextDeployment
  <2>6. GoodRequest(r)
    BY <1>0, <2>4, <2>5 DEF GoodRequest, TodoOK
  <2> QED BY <2>2, <2>6
<1>5. CASE DeletionAnswered(h) \/ IterationFails(h)
  BY <1>5, NoRequestGood DEF DeletionAnswered, IterationFails, Refuse
<1>6. CASE DeploymentFound(h)
  <2>1. OpOK([req[h] EXCEPT !.pc = "delservice"])
    BY <1>0, <1>6 DEF DeploymentFound
  <2> QED BY <1>6, <1>a, <2>1, ErrorMoves DEF DeploymentFound, To
<1>7. CASE DeleteService(h)
  <2>1. OpOK([req[h] EXCEPT !.pc = "deldeployment"])
    BY <1>0, <1>7 DEF DeleteService
  <2>2. GoodRequest([req[h] EXCEPT !.pc = "deldeployment"])
    BY <1>a, <2>1
  <2>3. req' = [req EXCEPT ![h].pc = "deldeployment"]
    BY <1>7 DEF DeleteService, To
  <2> QED BY <2>2, <2>3
<1>8. CASE DeleteDeployment(h)
  <2>1. OpOK([req[h] EXCEPT !.pc = "delrow"])
    BY <1>0, <1>8 DEF DeleteDeployment
  <2>2. GoodRequest([req[h] EXCEPT !.pc = "delrow"])
    BY <1>a, <2>1
  <2>3. req' = [req EXCEPT ![h].pc = "delrow"]
    BY <1>8 DEF DeleteDeployment, To
  <2> QED BY <2>2, <2>3
<1>9. CASE DeleteRow(h)
  <2>1. CASE req[h].op = "delete"
    <3>1. req' = [req EXCEPT ![h] = NoRequest]
      BY <1>9, <2>1 DEF DeleteRow
    <3> QED BY <3>1, NoRequestGood
  <2>2. CASE req[h].op # "delete"
    <3>1. OpOK([req[h] EXCEPT !.pc = "delagain"])
      BY <1>0, <1>9, <2>2 DEF DeleteRow
    <3>2. GoodRequest([req[h] EXCEPT !.pc = "delagain"])
      BY <1>a, <3>1
    <3>3. req' = [req EXCEPT ![h] = [req[h] EXCEPT !.pc = "delagain"]]
      BY <1>9, <2>2 DEF DeleteRow
    <3> QED BY <3>2, <3>3
  <2> QED BY <2>1, <2>2
<1>10. CASE DeleteRowAgain(h)
  <2>1. OpOK([req[h] EXCEPT !.pc = "next"])
    BY <1>0, <1>10 DEF DeleteRowAgain
  <2>2. GoodRequest([req[h] EXCEPT !.pc = "next"])
    BY <1>a, <2>1
  <2>3. req' = [req EXCEPT ![h].pc = "next"]
    BY <1>10 DEF DeleteRowAgain, To
  <2> QED BY <2>2, <2>3
<1> QED BY <1>1, <1>2, <1>3, <1>4, <1>5, <1>6, <1>7, <1>8, <1>9, <1>10

\* ... and the failures change only the request itself.
LEMMA TroubleMoves ==
  ASSUME Machine, NEW h \in Handler, RequestFailure(h) \/ ErrorIgnored(h)
  PROVE  \E r : GoodRequest(r) /\ req' = [req EXCEPT ![h] = r]
<1>0. /\ GoodRequest(req[h]) /\ req[h] \in Request /\ OpOK(req[h])
  BY DEF Machine, GoodRequest, Request
<1>1. CASE RequestFailure(h)
  <2>1. CASE req[h].pc \in {"filter", "put"}
    <3>1. /\ TaskFailed(h) \in Request /\ TasksOK(TaskFailed(h).name, TaskFailed(h).todo)
          /\ TaskFailed(h).pc = IF TaskFailed(h).todo = <<>> THEN "answer" ELSE "filter"
          /\ TaskFailed(h).op = "deploy" /\ PortOf[TaskFailed(h).release] # NoPort
      BY <1>0, <2>1, FailedIs DEF GoodRequest, OpOK
    <3>2. GoodRequest(TaskFailed(h))
      BY <3>1 DEF GoodRequest, OpOK, TodoOK, Deleting
    <3> QED BY <1>1, <2>1, <3>2 DEF RequestFailure
  <2>2. CASE req[h].pc \notin {"filter", "put"}
    BY <1>1, <2>2, ErrorMoves DEF RequestFailure
  <2> QED BY <2>1, <2>2
<1>2. CASE ErrorIgnored(h) /\ req[h].pc = "service"
  <2> DEFINE on == [req[h] EXCEPT !.alone = FALSE, !.pc = "filter"]
             todo == Installations(FiltersOf[req[h].release], req[h].name)
             r == [on EXCEPT !.todo = todo]
  <2>1. req' = [req EXCEPT ![h] = Proceed(r, "install")]
    BY <1>2 DEF ErrorIgnored, Unchecked
  <2>2. req[h].release \in Release /\ req[h].name \in Name
    BY <1>0 DEF Request
  <2>3. todo \in Seq(Task) /\ TasksOK(req[h].name, todo)
    <3>1. todo \in Seq(Task) /\ Paired(todo)
      BY <2>2, InstallationsAre
    <3>2. \A t : In(t, todo) => t.do = "install" /\ t.object \in ObjectsOf(t.filter, req[h].name)
      BY <2>2, InstallationsAre DEF TaskFor
    <3> QED BY <3>1, <3>2 DEF TasksOK
  <2> HIDE DEF todo
  <2>4. r \in Request /\ r.todo = todo /\ r.name = req[h].name /\ r.op = req[h].op
        /\ r.release = req[h].release
    BY <1>0, <2>3 DEF Request, Begun
  <2> DEFINE p == Proceed(r, "install")
  <2> HIDE DEF r
  <2>5. /\ p \in Request /\ Rest(p, r) /\ p.pc = IF p.todo = <<>> THEN "answer" ELSE "filter"
        /\ TasksOK(req[h].name, p.todo)
    BY <2>3, <2>4, ProceedIs
  <2>6. p.op = "deploy" /\ PortOf[p.release] # NoPort /\ p.name = req[h].name
    BY <1>0, <1>2, <2>4, <2>5 DEF Rest, OpOK
  <2> HIDE DEF p
  <2>7. GoodRequest(p)
    BY <2>5, <2>6 DEF GoodRequest, OpOK, TodoOK, Deleting
  <2> QED BY <2>1, <2>7 DEF p
<1>3. CASE ErrorIgnored(h) /\ req[h].pc = "scale"
  BY <1>3, NoRequestGood DEF ErrorIgnored
<1>4. ASSUME ErrorIgnored(h), NEW pc \in {"deldeployment", "delrow"},
             req[h].pc = IF pc = "delrow" THEN "deldeployment" ELSE "delservice"
      PROVE  \E r : GoodRequest(r) /\ req' = [req EXCEPT ![h] = r]
  <2> DEFINE r == [req[h] EXCEPT !.alone = FALSE, !.pc = pc]
  <2>1. req' = [req EXCEPT ![h] = r]
    <3>1. Unchecked[req[h].pc] = pc
      BY <1>4 DEF Unchecked
    <3>2. req[h].pc \notin {"service", "scale"}
      BY <1>4
    <3> QED BY <1>4, <3>1, <3>2 DEF ErrorIgnored
  <2>2. r \in Request
    BY <1>0 DEF Request, Begun
  <2>3. OpOK(r)
    BY <1>0, <1>4 DEF OpOK, Request, Touches, AppLoop, Deleting
  <2>4. GoodRequest(r)
    BY <1>0, <2>2, <2>3 DEF GoodRequest, TodoOK, Request
  <2> QED BY <2>1, <2>4
<1>5. ErrorIgnored(h) => req[h].pc \in {"service", "scale", "delservice", "deldeployment"}
  BY DEF ErrorIgnored, Unchecked
<1>6. CASE ErrorIgnored(h) /\ req[h].pc = "delservice"
  BY <1>4, <1>6
<1>7. CASE ErrorIgnored(h) /\ req[h].pc = "deldeployment"
  BY <1>4, <1>7
<1> QED BY <1>1, <1>2, <1>3, <1>5, <1>6, <1>7

\* A request with another version of its copy is as good.
LEMMA OutdatedIs ==
  ASSUME NEW reqs \in [Handler -> Request], NEW o
  PROVE  /\ Outdated(reqs, o) \in [Handler -> Request]
         /\ \A g \in Handler : /\ Like(Outdated(reqs, o)[g], reqs[g])
                               /\ Outdated(reqs, o)[g].alone = reqs[g].alone
                               /\ Outdated(reqs, o)[g].fresh =>
                                    ~(reqs[g].pc = "put" /\ Head(reqs[g].todo).object = o)
                               /\ reqs[g].pc # "put" => Outdated(reqs, o)[g] = reqs[g]
<1> SUFFICES ASSUME NEW g \in Handler
             PROVE  /\ Outdated(reqs, o)[g] \in Request
                    /\ Like(Outdated(reqs, o)[g], reqs[g])
                    /\ Outdated(reqs, o)[g].alone = reqs[g].alone
                    /\ Outdated(reqs, o)[g].fresh =>
                         ~(reqs[g].pc = "put" /\ Head(reqs[g].todo).object = o)
                    /\ reqs[g].pc # "put" => Outdated(reqs, o)[g] = reqs[g]
  BY DEF Outdated
<1>1. Outdated(reqs, o)[g] = IF reqs[g].pc = "put" /\ Head(reqs[g].todo).object = o
                             THEN [reqs[g] EXCEPT !.fresh = FALSE] ELSE reqs[g]
  BY DEF Outdated
<1>2. reqs[g] \in Request
  OBVIOUS
<1> DEFINE s == reqs[g]
           u == [s EXCEPT !.fresh = FALSE]
<1>3. u \in Request /\ Like(u, s) /\ u.alone = s.alone /\ ~u.fresh /\ Like(s, s)
  <2> HIDE DEF s
  <2> QED BY <1>2 DEF Request, Like, s
<1> HIDE DEF u
<1>4. CASE s.pc = "put" /\ Head(s.todo).object = o
  <2>1. Outdated(reqs, o)[g] = u
    BY <1>1, <1>4 DEF u
  <2> QED BY <1>3, <1>4, <2>1
<1>5. CASE ~(s.pc = "put" /\ Head(s.todo).object = o)
  <2>1. Outdated(reqs, o)[g] = s
    BY <1>1, <1>5
  <2> QED BY <1>2, <1>3, <1>5, <2>1
<1> QED BY <1>4, <1>5

\* The steps of a request change nobody else's but for the versions of copies.
LEMMA OwnMove ==
  ASSUME Machine, NEW h \in Handler, OwnStep(h)
  PROVE  /\ req' \in [Handler -> Request]
         /\ GoodRequest(req'[h])
         /\ \A o \in Handler : o # h => Like(req'[o], req[o]) /\ req'[o].alone = req[o].alone
         /\ ~PutVirtualService(h) => \A o \in Handler : o # h => req'[o] = req[o]
<1>0. req \in [Handler -> Request]
  BY DEF Machine, TypeOK
<1>1. \A s : Like(s, s)
  BY DEF Like
<1>2. CASE \E r : GoodRequest(r) /\ req' = [req EXCEPT ![h] = r]
  <2>1. PICK r : GoodRequest(r) /\ req' = [req EXCEPT ![h] = r]
    BY <1>2
  <2>2. r \in Request
    BY <2>1 DEF GoodRequest
  <2>3. /\ req' \in [Handler -> Request] /\ req'[h] = r
        /\ \A o \in Handler : o # h => req'[o] = req[o]
    BY <1>0, <2>1, <2>2
  <2> QED BY <1>1, <2>1, <2>3
<1>3. CASE \E r : /\ GoodRequest(r) /\ PutVirtualService(h) /\ r.pc # "put"
                 /\ req' = Outdated([req EXCEPT ![h] = r], First(h).object)
  <2>1. PICK r : /\ GoodRequest(r) /\ PutVirtualService(h) /\ r.pc # "put"
                 /\ req' = Outdated([req EXCEPT ![h] = r], First(h).object)
    BY <1>3
  <2> DEFINE reqs == [req EXCEPT ![h] = r]
  <2>2. /\ reqs \in [Handler -> Request] /\ reqs[h] = r
        /\ \A o \in Handler : o # h => reqs[o] = req[o]
    BY <1>0, <2>1 DEF GoodRequest
  <2>3. req' = Outdated(reqs, First(h).object)
    BY <2>1
  <2> HIDE DEF reqs
  <2>4. req'[h] = r
    BY <2>1, <2>2, <2>3, OutdatedIs
  <2>5. req' \in [Handler -> Request]
    BY <2>2, <2>3, OutdatedIs
  <2>6. \A o \in Handler : o # h => Like(req'[o], req[o]) /\ req'[o].alone = req[o].alone
    BY <2>2, <2>3, OutdatedIs
  <2> QED BY <2>1, <2>4, <2>5, <2>6
<1>4. CASE RequestFailure(h) \/ ErrorIgnored(h)
  BY <1>2, <1>4, TroubleMoves
<1>5. CASE Step(h)
  <2>1. CASE \/ CheckDeployment(h) \/ InsertDeployment(h) \/ SnapshotRow(h) \/ UpdateRow(h)
             \/ SetInstances(h) \/ Scale(h)
    BY <1>2, <2>1, RowStepMoves
  <2>2. CASE \/ ReadDeployment(h) \/ DeploymentExists(h) \/ WriteDeployment(h)
             \/ ServiceExists(h) \/ WriteService(h)
    BY <1>2, <2>2, DeployStepMoves
  <2>3. CASE GetVirtualService(h) \/ PutVirtualService(h) \/ SetTokenObject(h) \/ Answer(h)
    BY <1>2, <1>3, <2>3, FilterStepMoves
  <2>4. CASE \/ DeploymentInfo(h) \/ CountDeployments(h) \/ ListDeployments(h)
             \/ NextDeployment(h) \/ DeletionAnswered(h) \/ IterationFails(h) \/ DeploymentFound(h)
             \/ DeleteService(h) \/ DeleteDeployment(h)
             \/ DeleteRow(h) \/ DeleteRowAgain(h)
    BY <1>2, <2>4, DeleteStepMoves
  <2> QED BY <1>5, <2>1, <2>2, <2>3, <2>4 DEF Step
<1> QED BY <1>4, <1>5 DEF OwnStep

\* A request arrives: those it meets are no longer alone, and what they share is suspect.
LEMMA ArriveMove ==
  ASSUME Machine, NEW h \in Handler, NEW r, GoodRequest(r), r.alone, Arrive(h, r)
  PROVE  /\ req' \in [Handler -> Request] /\ GoodRequest(req'[h]) /\ Like(req'[h], r)
         /\ req[h].pc = "idle" /\ req'[h].fresh = r.fresh
         /\ \A o \in Handler : o # h => Like(req'[o], req[o])
         /\ \A o \in Handler : o # h /\ req[o].pc # "idle" =>
              \A n \in Touches(req[o]) \intersect Touches(r) :
                /\ ~req'[o].alone /\ ~req'[h].alone /\ n \in suspect'
                /\ Deleting \intersect {r.op, req[o].op} # {} => n \in raced'
         /\ suspect \subseteq suspect' /\ raced \subseteq raced'
         /\ suspect' \subseteq Name /\ raced' \subseteq Name
         /\ requests' \in 0..MaxRequests /\ deploys' \in 0..MaxDeploys
<1> DEFINE others == {o \in Handler : req[o].pc # "idle" /\ Touches(req[o]) \intersect Touches(r) # {}}
<1>0. req \in [Handler -> Request] /\ r \in Request
  BY DEF Machine, TypeOK, GoodRequest
<1>1. [r EXCEPT !.alone = others = {}] \in Request /\ Like([r EXCEPT !.alone = others = {}], r)
  <2> DEFINE none == others = {}
  <2>1. none \in BOOLEAN
    OBVIOUS
  <2> HIDE DEF none
  <2>2. [r EXCEPT !.alone = none] \in Request /\ Like([r EXCEPT !.alone = none], r)
    BY <1>0, <2>1 DEF Request, Like
  <2> QED BY <2>2 DEF none
<1>2. \A o \in Handler : /\ [req[o] EXCEPT !.alone = FALSE] \in Request
                          /\ Like([req[o] EXCEPT !.alone = FALSE], req[o])
                          /\ Like(req[o], req[o]) /\ ~[req[o] EXCEPT !.alone = FALSE].alone
  BY <1>0 DEF Request, Like
<1>3. req' = [o \in Handler |->
                IF o = h THEN [r EXCEPT !.alone = others = {}]
                ELSE IF o \in others THEN [req[o] EXCEPT !.alone = FALSE] ELSE req[o]]
  BY DEF Arrive
<1>4. req'[h] = [r EXCEPT !.alone = others = {}] /\ req'[h].fresh = r.fresh
      /\ (req'[h].alone <=> others = {})
  BY <1>0, <1>3 DEF Request
<1> HIDE DEF others
<1>5. req' \in [Handler -> Request]
  BY <1>0, <1>1, <1>2, <1>3
<1>6. \A o \in Handler : o # h => Like(req'[o], req[o])
  BY <1>2, <1>3
<1>7. GoodRequest(req'[h]) /\ Like(req'[h], r)
  BY <1>1, <1>4, LikeIsGood
<1>8. /\ suspect' = suspect \union UNION {Touches(req[o]) \intersect Touches(r) : o \in others}
      /\ raced' = raced \union UNION {Touches(req[o]) \intersect Touches(r) :
                     o \in {p \in others : Deleting \intersect {r.op, req[p].op} # {}}}
  BY DEF Arrive, others
<1>9. ASSUME NEW o \in Handler, o # h, req[o].pc # "idle", NEW n \in Touches(req[o]) \intersect Touches(r)
      PROVE  /\ ~req'[o].alone /\ ~req'[h].alone /\ n \in suspect'
             /\ Deleting \intersect {r.op, req[o].op} # {} => n \in raced'
  <2>1. o \in others
    BY <1>9 DEF others
  <2>2. req'[o] = [req[o] EXCEPT !.alone = FALSE]
    BY <1>3, <1>9, <2>1
  <2> QED BY <1>2, <1>4, <1>8, <1>9, <2>1, <2>2
<1>10. \A s \in Request : Touches(s) \subseteq Name
  BY DEF Touches, Request
<1>11. suspect' \subseteq Name /\ raced' \subseteq Name
  BY <1>0, <1>8, <1>10 DEF Machine, TypeOK
<1>12. requests' \in 0..MaxRequests /\ deploys' \in 0..MaxDeploys
  <2>1. MaxRequests \in Nat /\ MaxDeploys \in Nat /\ requests \in Nat /\ deploys \in 0..MaxDeploys
    BY BoundsAssumption DEF Machine, TypeOK
  <2>2. requests < MaxRequests /\ requests' = requests + 1
    BY DEF Arrive
  <2>3. deploys' = deploys \/ (deploys < MaxDeploys /\ deploys' = deploys + 1)
    BY DEF Arrive
  <2> QED BY <2>1, <2>2, <2>3
<1>13. req[h].pc = "idle" /\ suspect \subseteq suspect' /\ raced \subseteq raced'
  BY <1>8 DEF Arrive
<1> QED BY <1>4, <1>5, <1>6, <1>7, <1>9, <1>11, <1>12, <1>13

\* What arrives.
Starting == {"check", "read", "snapshot", "setinstances", "info", "count"}
\* A request arrives at one of its first steps and alone.
LEMMA StartIs ==
  ASSUME NEW h \in Handler, Start(h)
  PROVE  \E r : GoodRequest(r) /\ r.alone /\ r.pc \in Starting /\ Arrive(h, r)
<1>0. NoRequest \in Request /\ NoRequest.alone
  BY NoRequestType DEF NoRequest
<1>g. ASSUME NEW r \in Request, r.pc \in Starting, OpOK(r) PROVE GoodRequest(r)
  BY <1>g DEF GoodRequest, TodoOK, Starting
<1> USE DEF OpOK, Unbegun, Starting, Request, Touches, AppLoop
<1>1. ASSUME NEW n \in Name, StartUpdate(h, n)
      PROVE  \E r : GoodRequest(r) /\ r.alone /\ r.pc \in Starting /\ Arrive(h, r)
  <2> DEFINE r == [NoRequest EXCEPT !.pc = "snapshot", !.op = "update", !.name = n]
  <2>1. r \in Request /\ r.alone /\ r.pc \in Starting /\ OpOK(r) /\ Arrive(h, r)
    BY <1>0, <1>1 DEF StartUpdate, Begin
  <2>2. GoodRequest(r)
    BY <1>g, <2>1
  <2> QED BY <2>1, <2>2
<1>2. ASSUME NEW n \in Name, StartDelete(h, n)
      PROVE  \E r : GoodRequest(r) /\ r.alone /\ r.pc \in Starting /\ Arrive(h, r)
  <2> DEFINE r == [NoRequest EXCEPT !.pc = "info", !.op = "delete", !.name = n]
  <2>1. r \in Request /\ r.alone /\ r.pc \in Starting /\ OpOK(r) /\ Arrive(h, r)
    BY <1>0, <1>2 DEF StartDelete, Begin, Deleting
  <2>2. GoodRequest(r)
    BY <1>g, <2>1
  <2> QED BY <2>1, <2>2
<1>3. ASSUME NEW n \in Name, NEW x \in Release, StartDeployment(h, n, x)
      PROVE  \E r : GoodRequest(r) /\ r.alone /\ r.pc \in Starting /\ Arrive(h, r)
  <2> DEFINE r == [NoRequest EXCEPT !.pc = "read", !.name = n, !.release = x]
  <2>1. r \in Request /\ r.alone /\ r.pc \in Starting /\ Arrive(h, r)
    BY <1>0, <1>3 DEF StartDeployment
  <2>2. OpOK(r)
    BY <1>0 DEF NoRequest
  <2>3. GoodRequest(r)
    BY <1>g, <2>1, <2>2
  <2> QED BY <2>1, <2>3
<1>4. ASSUME NEW n \in Name, NEW i \in Instances, StartAdd(h, n, i)
      PROVE  \E r : GoodRequest(r) /\ r.alone /\ r.pc \in Starting /\ Arrive(h, r)
  <2> DEFINE r == [NoRequest EXCEPT !.pc = "check", !.op = "add", !.name = n, !.instances = i]
  <2>1. r \in Request /\ r.alone /\ r.pc \in Starting /\ OpOK(r) /\ Arrive(h, r)
    BY <1>0, <1>4 DEF StartAdd
  <2>2. GoodRequest(r)
    BY <1>g, <2>1
  <2> QED BY <2>1, <2>2
<1>5. ASSUME NEW n \in Name, NEW i \in Instances, StartScale(h, n, i)
      PROVE  \E r : GoodRequest(r) /\ r.alone /\ r.pc \in Starting /\ Arrive(h, r)
  <2> DEFINE r == [NoRequest EXCEPT !.pc = "setinstances", !.op = "scale", !.name = n, !.instances = i]
  <2>1. r \in Request /\ r.alone /\ r.pc \in Starting /\ OpOK(r) /\ Arrive(h, r)
    BY <1>0, <1>5 DEF StartScale
  <2>2. GoodRequest(r)
    BY <1>g, <2>1
  <2> QED BY <2>1, <2>2
<1>6. ASSUME NEW a \in AppID, StartDeleteApp(h, a)
      PROVE  \E r : GoodRequest(r) /\ r.alone /\ r.pc \in Starting /\ Arrive(h, r)
  <2> DEFINE r == [NoRequest EXCEPT !.pc = "count", !.op = "deleteapp", !.app = a]
  <2>1. r \in Request /\ r.alone /\ r.pc \in Starting /\ Arrive(h, r)
    BY <1>0, <1>6 DEF StartDeleteApp, Deleting
  <2>2. OpOK(r)
    BY <1>0 DEF NoRequest
  <2>3. GoodRequest(r)
    BY <1>g, <2>1, <2>2
  <2> QED BY <2>1, <2>3
<1> QED BY <1>1, <1>2, <1>3, <1>4, <1>5, <1>6 DEF Start

-----------------------------------------------------------------------------
(* The state but for the requests. *)

StateOK ==
  /\ placed \subseteq Name /\ instances \in [Name -> Instances]
  /\ \A n \in Name \ placed : instances[n] = NoDeployment.replicas
  /\ deployment \in [Name -> Deployment] /\ service \in [Name -> Port \union {NoPort}]
  /\ vs \in [Name \union {Site} -> VirtualService \union {NoService}]
  /\ jwt \in [Name -> SUBSET TokenObjects]
  /\ answered \in [Name -> Release \union {NoRelease}]
  /\ guarded \in [Name -> (SUBSET Filter) \union {Unknown}]
  /\ suspect \subseteq Name /\ raced \subseteq Name
  /\ requests \in 0..MaxRequests /\ deploys \in 0..MaxDeploys
  /\ troubles \in 0..MaxTroubles

\* With that of the requests it is the type of the state.
LEMMA TypeIs == TypeOK <=> StateOK /\ req \in [Handler -> Request]
BY DEF TypeOK, StateOK

\* How an error leaves the ghosts.
LEMMA ErrorGhosts ==
  ASSUME Machine, NEW h \in Handler, Error(h), req[h].pc # "idle"
  PROVE  /\ UNCHANGED <<answered, guarded, raced>>
         /\ suspect' = IF req[h].pc \in Begun THEN suspect \union {req[h].name} ELSE suspect
<1>1. OpOK(req[h]) /\ req[h] \in Request
  BY DEF Machine, GoodRequest
<1>2. CASE req[h].op = "deleteapp" /\ req[h].pc \notin {"count", "list"}
  <2>1. req[h].pc \in Begun
    BY <1>1, <1>2 DEF OpOK, Request, Begun, Unbegun
  <2> QED BY <1>2, <2>1 DEF Error, DeletionFailed, NoteError
<1>3. CASE ~(req[h].op = "deleteapp" /\ req[h].pc \notin {"count", "list"})
  BY <1>1, <1>3 DEF Error, Fail, Touches, Begun
<1> QED BY <1>2, <1>3

\* What is put back is a virtual service.
LEMMA EditedType ==
  ASSUME Machine, NEW h \in Handler, req[h].pc = "put"
  PROVE  /\ Edited(h) \in VirtualService /\ req[h].copy \in VirtualService
         /\ First(h).object \in Name \union {Site} /\ First(h).filter \in {"cors", "csp"}
         /\ First(h).object = Site \/ First(h).object = req[h].name
<1>1. GoodRequest(req[h]) /\ req[h] \in Request /\ TodoOK(req[h])
  BY DEF Machine, GoodRequest
<1>2. First(h) \in Task /\ First(h).filter # "jwt"
      /\ First(h).object \in ObjectsOf(First(h).filter, req[h].name)
  BY <1>1, FirstIs DEF TodoOK, First
<1>3. First(h).filter \in {"cors", "csp"} /\ First(h).object \in {req[h].name, Site}
  BY <1>2 DEF Task, Filter, ObjectsOf
<1>4. req[h].copy \in VirtualService
  BY <1>1 DEF TodoOK, Request
<1>5. Edited(h) \in VirtualService
  BY <1>3, <1>4 DEF Edited, VirtualService
<1> QED BY <1>1, <1>3, <1>4, <1>5 DEF Request

\* The steps of a request keep the types.
LEMMA OwnState ==
  ASSUME Machine, NEW h \in Handler, OwnStep(h)
  PROVE  StateOK'
<1>0. /\ req[h] \in Request /\ req[h].name \in Name /\ req[h].release \in Release
      /\ req[h].instances \in Instances /\ StateOK /\ GoodRequest(req[h])
  BY TypeIs DEF Machine, GoodRequest, Request
<1>e. ASSUME Error(h), req[h].pc # "idle", UNCHANGED <<rows, cluster, filters, requests, deploys>>,
             troubles' \in 0..MaxTroubles
      PROVE  StateOK'
  BY <1>0, <1>e, ErrorGhosts DEF StateOK, rows, cluster, filters
<1>s. ASSUME UNCHANGED <<rows, cluster, filters, ghosts, counters>> PROVE StateOK'
  BY <1>0, <1>s DEF StateOK, rows, cluster, filters, ghosts, counters
<1>1. CASE Step(h)
  <2>c. UNCHANGED <<requests, deploys, troubles>>
    BY <1>1 DEF Step, counters
  <2>e. ASSUME Error(h), req[h].pc # "idle", UNCHANGED <<rows, cluster, filters>> PROVE StateOK'
    BY <1>0, <1>e, <2>c, <2>e DEF StateOK
  <2>s. ASSUME UNCHANGED <<rows, cluster, filters, ghosts>> PROVE StateOK'
    BY <1>s, <2>c, <2>s DEF counters
  <2>1. CASE CheckDeployment(h) \/ SnapshotRow(h) \/ ReadDeployment(h) \/ DeploymentExists(h)
             \/ ServiceExists(h) \/ GetVirtualService(h) \/ DeploymentInfo(h)
             \/ CountDeployments(h) \/ ListDeployments(h) \/ NextDeployment(h)
             \/ DeletionAnswered(h) \/ IterationFails(h)
    BY <2>1, <2>s DEF CheckDeployment, SnapshotRow, ReadDeployment, DeploymentExists,
         ServiceExists, GetVirtualService, DeploymentInfo, CountDeployments, ListDeployments,
         NextDeployment, DeletionAnswered, IterationFails, Refuse, To
  <2>2. CASE InsertDeployment(h)
    BY <1>0, <2>2, <2>c DEF InsertDeployment, Refuse, StateOK, cluster, filters, ghosts
  <2>3. CASE UpdateRow(h)
    BY <1>0, <2>3, <2>c DEF UpdateRow, Refuse, StateOK, cluster, filters, ghosts
  <2>4. CASE SetInstances(h)
    BY <1>0, <2>4, <2>c DEF SetInstances, To, StateOK, cluster, filters, ghosts
  <2>5. CASE Scale(h)
    <3>1. deployment' \in [Name -> Deployment]
      BY <1>0, <2>5 DEF Scale, StateOK, Deployment
    <3> QED BY <1>0, <2>5, <2>c, <3>1 DEF Scale, Refuse, StateOK, rows, filters, ghosts
  <2>6. CASE WriteDeployment(h)
    <3>1. CASE Error(h) /\ deployment' = deployment
      BY <2>6, <2>e, <3>1 DEF WriteDeployment, cluster
    <3>2. CASE deployment' = [deployment EXCEPT
                 ![req[h].name] = [release |-> req[h].release, replicas |-> req[h].instances]]
               /\ UNCHANGED ghosts
      <4>1. deployment' \in [Name -> Deployment]
        BY <1>0, <3>2 DEF StateOK, Deployment
      <4> QED BY <1>0, <2>6, <2>c, <3>2, <4>1 DEF WriteDeployment, StateOK, rows, filters, ghosts
    <3> QED BY <2>6, <3>1, <3>2 DEF WriteDeployment, To
  <2>7. CASE WriteService(h)
    <3>1. CASE Error(h) /\ service' = service
      BY <2>7, <2>e, <3>1 DEF WriteService, cluster
    <3>2. CASE ~(Error(h) /\ service' = service)
      <4>1. PortOf[req[h].release] \in Port \union {NoPort}
        BY <1>0, <2>7, <3>2, Constants DEF WriteService
      <4>2. service' \in [Name -> Port \union {NoPort}]
        BY <1>0, <2>7, <3>2, <4>1 DEF WriteService, StateOK
      <4>3. guarded' \in [Name -> (SUBSET Filter) \union {Unknown}]
        BY <1>0, <2>7, <3>2 DEF WriteService, StateOK
      <4> QED BY <1>0, <2>7, <2>c, <3>2, <4>2, <4>3 DEF WriteService, StateOK, rows, filters
    <3> QED BY <3>1, <3>2
  <2>8. CASE PutVirtualService(h)
    <3>1. vs' \in [Name \union {Site} -> VirtualService \union {NoService}]
      BY <1>0, <2>8, EditedType DEF PutVirtualService, StateOK
    <3> QED BY <1>0, <2>8, <2>c, <3>1 DEF PutVirtualService, StateOK, rows, cluster, ghosts
  <2>9. CASE SetTokenObject(h)
    <3>1. First(h).object \in TokenObjects
      BY <1>0, <2>9, FirstIs DEF SetTokenObject, GoodRequest, ObjectsOf
    <3>2. jwt' \in [Name -> SUBSET TokenObjects]
      BY <1>0, <2>9, <3>1 DEF SetTokenObject, StateOK
    <3> QED BY <1>0, <2>9, <2>c, <3>2 DEF SetTokenObject, StateOK, rows, cluster, ghosts
  <2>10. CASE Answer(h)
    <3>1. {FiltersOf[req[h].release][i] : i \in DOMAIN FiltersOf[req[h].release]} \subseteq Filter
      BY <1>0, AskedAre
    <3>2. guarded' \in [Name -> (SUBSET Filter) \union {Unknown}]
      BY <1>0, <2>10, <3>1 DEF Answer, StateOK
    <3> QED BY <1>0, <2>10, <2>c, <3>2 DEF Answer, StateOK, rows, cluster, filters
  <2>11. CASE DeploymentFound(h)
    BY <2>11, <2>e, <2>s DEF DeploymentFound, To
  <2>12. CASE DeleteService(h)
    BY <1>0, <2>12, <2>c DEF DeleteService, To, StateOK, rows, filters, ghosts
  <2>13. CASE DeleteDeployment(h)
    BY <1>0, <2>13, <2>c, Constants DEF DeleteDeployment, To, StateOK, rows, filters, ghosts
  <2>14. CASE DeleteRow(h)
    BY <1>0, <2>14, <2>c, Constants DEF DeleteRow, RemoveRow, StateOK, cluster, filters
  <2>15. CASE DeleteRowAgain(h)
    BY <1>0, <2>15, <2>c, Constants DEF DeleteRowAgain, RemoveRow, To, StateOK, cluster, filters, ghosts
  <2> QED BY <1>1, <2>1, <2>2, <2>3, <2>4, <2>5, <2>6, <2>7, <2>8, <2>9, <2>10, <2>11, <2>12,
             <2>13, <2>14, <2>15 DEF Step
<1>2. ASSUME troubles < MaxTroubles, troubles' = troubles + 1 PROVE troubles' \in 0..MaxTroubles
  BY <1>0, <1>2, BoundsAssumption DEF StateOK
<1>3. CASE RequestFailure(h)
  <2>1. CASE req[h].pc \in {"filter", "put"}
    BY <1>0, <1>2, <1>3, <2>1 DEF RequestFailure, StateOK, rows, cluster, filters, ghosts
  <2>2. CASE req[h].pc \notin {"filter", "put"}
    BY <1>2, <1>3, <1>e, <2>2 DEF RequestFailure
  <2> QED BY <2>1, <2>2
<1>4. CASE ErrorIgnored(h)
  BY <1>0, <1>2, <1>4 DEF ErrorIgnored, StateOK, rows, cluster, filters
<1> QED BY <1>1, <1>3, <1>4 DEF OwnStep

\* What others do to the virtual services.
LEMMA OutsideState ==
  ASSUME Machine, (\E n \in Name : AppVirtualService(n)) \/ PublishSite
  PROVE  /\ StateOK' /\ req' \in [Handler -> Request]
         /\ \A h \in Handler : Like(req'[h], req[h])
         /\ UNCHANGED <<rows, cluster, jwt, answered, suspect, raced>>
         /\ \A h \in Handler : req[h].pc = "put" /\ req'[h].fresh =>
              vs'[First(h).object] = vs[First(h).object]
         /\ \A n \in Name : \/ vs'[n] = vs[n] /\ guarded'[n] = guarded[n]
                           \/ /\ guarded'[n] = Unknown
                              /\ \A h \in Handler : n \in Touches(req[h]) /\ req[h].pc # "idle" =>
                                   ~req'[h].alone
<1>0. StateOK /\ req \in [Handler -> Request]
  BY TypeIs DEF Machine
<1>1. ASSUME NEW o \in Name \union {Site}, NEW v \in VirtualService \union {NoService}, Change(o, v),
             guarded' \in [Name -> (SUBSET Filter) \union {Unknown}]
      PROVE  StateOK' /\ UNCHANGED <<rows, cluster, jwt, answered, suspect, raced>>
  <2>1. troubles' \in 0..MaxTroubles
    BY <1>0, <1>1, BoundsAssumption DEF Change, StateOK
  <2>2. vs' \in [Name \union {Site} -> VirtualService \union {NoService}]
    BY <1>0, <1>1 DEF Change, StateOK
  <2> QED BY <1>0, <1>1, <2>1, <2>2 DEF Change, StateOK, rows, cluster
<1>2. ASSUME NEW n \in Name, AppVirtualService(n)
      PROVE  /\ StateOK' /\ req' \in [Handler -> Request]
             /\ \A h \in Handler : Like(req'[h], req[h])
             /\ UNCHANGED <<rows, cluster, jwt, answered, suspect, raced>>
             /\ \A h \in Handler : req[h].pc = "put" /\ req'[h].fresh =>
                  vs'[First(h).object] = vs[First(h).object]
             /\ guarded' = [guarded EXCEPT ![n] = Unknown]
             /\ \A m \in Name : m # n => vs'[m] = vs[m]
             /\ \A h \in Handler : n \in Touches(req[h]) /\ req[h].pc # "idle" => ~req'[h].alone
  <2>1. Bare \in VirtualService
    BY DEF Bare, VirtualService
  <2>2. guarded' \in [Name -> (SUBSET Filter) \union {Unknown}]
    BY <1>0, <1>2 DEF AppVirtualService, StateOK
  <2>3. StateOK' /\ UNCHANGED <<rows, cluster, jwt, answered, suspect, raced>>
    <3> DEFINE v == IF vs[n] = NoService THEN Bare ELSE NoService
    <3>1. v \in VirtualService \union {NoService} /\ Change(n, v)
      BY <1>2, <2>1 DEF AppVirtualService
    <3> QED BY <1>1, <2>2, <3>1
  <2> DEFINE reqs == [h \in Handler |-> IF n \in Touches(req[h]) /\ req[h].pc # "idle"
                                         THEN [req[h] EXCEPT !.alone = FALSE] ELSE req[h]]
  <2>4. /\ reqs \in [Handler -> Request] /\ \A h \in Handler : Like(reqs[h], req[h])
        /\ \A h \in Handler : n \in Touches(req[h]) /\ req[h].pc # "idle" => ~reqs[h].alone
    <3>1. ASSUME NEW s \in Request
          PROVE  /\ [s EXCEPT !.alone = FALSE] \in Request /\ Like(s, s)
                 /\ Like([s EXCEPT !.alone = FALSE], s) /\ ~[s EXCEPT !.alone = FALSE].alone
      BY DEF Request, Like
    <3>2. \A h \in Handler : reqs[h] = IF n \in Touches(req[h]) /\ req[h].pc # "idle"
                                      THEN [req[h] EXCEPT !.alone = FALSE] ELSE req[h]
      OBVIOUS
    <3> QED BY <1>0, <3>1, <3>2
  <2>5. req' = Outdated(reqs, n)
    BY <1>2 DEF AppVirtualService
  <2> HIDE DEF reqs
  <2>6. req' \in [Handler -> Request] /\ \A h \in Handler : Like(req'[h], reqs[h])
    BY <2>4, <2>5, OutdatedIs
  <2>7. \A h \in Handler : Like(req'[h], req[h])
    BY <2>4, <2>6 DEF Like
  <2>8. \A h \in Handler : n \in Touches(req[h]) /\ req[h].pc # "idle" => ~req'[h].alone
    BY <2>4, <2>6 DEF Like
  <2>9. \A o \in Name \union {Site} : o # n => vs'[o] = vs[o]
    BY <1>0, <1>2 DEF AppVirtualService, Change, StateOK
  <2>10. \A h \in Handler : reqs[h].pc = req[h].pc /\ reqs[h].todo = req[h].todo
    BY <2>4 DEF Like
  <2>11. ASSUME NEW h \in Handler, req[h].pc = "put", req'[h].fresh
         PROVE  vs'[First(h).object] = vs[First(h).object]
    <3>1. First(h).object # n
      BY <2>4, <2>5, <2>10, <2>11, OutdatedIs DEF First
    <3> QED BY <2>9, <2>11, <3>1, EditedType
  <2>12. guarded' = [guarded EXCEPT ![n] = Unknown]
    BY <1>2 DEF AppVirtualService
  <2> QED BY <2>3, <2>6, <2>7, <2>8, <2>9, <2>11, <2>12
<1>3. ASSUME PublishSite
      PROVE  /\ StateOK' /\ req' \in [Handler -> Request]
             /\ \A h \in Handler : Like(req'[h], req[h])
             /\ UNCHANGED <<rows, cluster, jwt, answered, suspect, raced>>
             /\ \A h \in Handler : req[h].pc = "put" /\ req'[h].fresh =>
                  vs'[First(h).object] = vs[First(h).object]
             /\ guarded' = guarded /\ \A m \in Name : vs'[m] = vs[m]
  <2>1. Published \in VirtualService
    BY NamesAssumption DEF VirtualService
  <2>2. StateOK' /\ UNCHANGED <<rows, cluster, jwt, answered, suspect, raced>>
    BY <1>0, <1>1, <1>3, <2>1 DEF PublishSite, StateOK
  <2>3. req' \in [Handler -> Request] /\ \A h \in Handler : Like(req'[h], req[h])
    BY <1>0, <1>3, OutdatedIs DEF PublishSite
  <2>4. \A o \in Name \union {Site} : o # Site => vs'[o] = vs[o]
    BY <1>0, <1>3 DEF PublishSite, Change, StateOK
  <2>5. ASSUME NEW h \in Handler, req[h].pc = "put", req'[h].fresh
        PROVE  vs'[First(h).object] = vs[First(h).object]
    <3>1. First(h).object # Site
      BY <1>0, <1>3, <2>5, OutdatedIs DEF First, PublishSite
    <3> QED BY <2>4, <2>5, <3>1, EditedType
  <2>6. guarded' = guarded /\ \A m \in Name : vs'[m] = vs[m]
    BY <1>3, <2>4, Constants DEF PublishSite
  <2> QED BY <2>2, <2>3, <2>5, <2>6
<1>4. guarded \in [Name -> (SUBSET Filter) \union {Unknown}]
  BY <1>0 DEF StateOK
<1>5. CASE PublishSite
  BY <1>3, <1>5
<1>6. CASE \E n \in Name : AppVirtualService(n)
  <2>1. PICK n \in Name : AppVirtualService(n)
    BY <1>6
  <2>2. \A m \in Name : m # n => guarded'[m] = guarded[m] /\ vs'[m] = vs[m]
    BY <1>2, <1>4, <2>1
  <2>3. guarded'[n] = Unknown
    BY <1>2, <1>4, <2>1
  <2> QED BY <1>2, <2>1, <2>2, <2>3
<1> QED BY <1>5, <1>6

\* An error ends a request or goes on with the next deployment.
LEMMA ErrorGoes ==
  ASSUME Machine, NEW h \in Handler, Error(h)
  PROVE  req'[h].pc \in {"idle", "next"}
<1>0. req[h] \in Request /\ req \in [Handler -> Request] /\ NoRequest.pc = "idle"
  BY DEF Machine, TypeOK, NoRequest
<1>1. NoteError(h) \/ Fail(h)
  BY DEF Error, DeletionFailed
<1>2. NoteError(h) => req'[h].pc = "next"
  BY <1>0 DEF NoteError, Request
<1>3. Fail(h) => req'[h] = NoRequest
  BY <1>0 DEF Fail
<1> QED BY <1>0, <1>1, <1>2, <1>3

-----------------------------------------------------------------------------
(* The types, and the versions of the copies. *)

\* Only the steps about filters, and the service, go on with filters.
LEMMA NoFilters ==
  ASSUME Machine, NEW h \in Handler, OwnStep(h), ~GetVirtualService(h), ~PutVirtualService(h),
         ~SetTokenObject(h), ~WriteService(h), ~RequestFailure(h), ~ErrorIgnored(h)
  PROVE  /\ req'[h].pc \notin {"filter", "put"}
         /\ req'[h].pc = "answer" => PortOf[req'[h].release] = NoPort
<1>0. /\ GoodRequest(req[h]) /\ req[h] \in Request /\ OpOK(req[h]) /\ TodoOK(req[h])
      /\ req \in [Handler -> Request]
  BY DEF Machine, TypeOK, GoodRequest
<1>n. NoRequest.pc = "idle"
  BY DEF NoRequest
<1>e. ASSUME Error(h) PROVE req'[h].pc \in {"idle", "next"}
  BY <1>e, ErrorGoes
<1>q. /\ Refuse(h) => req'[h].pc = "idle"
      /\ \A pc : To(h, pc) => req'[h].pc = pc /\ req'[h].release = req[h].release
  BY <1>0, <1>n DEF Refuse, To, Request
<1>1. CASE \/ CheckDeployment(h) \/ InsertDeployment(h) \/ UpdateRow(h)
           \/ SetInstances(h) \/ Scale(h) \/ DeploymentInfo(h) \/ CountDeployments(h)
           \/ DeletionAnswered(h) \/ IterationFails(h) \/ DeleteService(h) \/ DeleteDeployment(h)
           \/ DeleteRowAgain(h)
           \/ DeploymentFound(h)
  BY <1>1, <1>q, <1>e DEF CheckDeployment, InsertDeployment, UpdateRow, SetInstances,
     Scale, DeploymentInfo, CountDeployments, DeletionAnswered, IterationFails, DeleteService,
     DeleteDeployment, DeleteRowAgain, DeploymentFound
<1>2. CASE WriteDeployment(h)
  <2>1. \/ Error(h) \/ To(h, "serviceexists")
        \/ To(h, "answer") /\ PortOf[req[h].release] = NoPort
    BY <1>2 DEF WriteDeployment
  <2> QED BY <1>q, <1>e, <2>1
<1>8. CASE \/ SnapshotRow(h) \/ ReadDeployment(h) \/ DeploymentExists(h)
           \/ ServiceExists(h) \/ ListDeployments(h) \/ NextDeployment(h)
  <2>1. CASE SnapshotRow(h) \/ ReadDeployment(h)
    BY <1>0, <1>q, <2>1 DEF SnapshotRow, ReadDeployment, Request
  <2>2. CASE DeploymentExists(h) \/ ServiceExists(h)
    BY <1>0, <2>2 DEF DeploymentExists, ServiceExists, Request
  <2>3. CASE ListDeployments(h)
    BY <1>0, <2>3 DEF ListDeployments, Request
  <2>4. CASE NextDeployment(h)
    BY <1>0, <2>4 DEF NextDeployment, Request
  <2> QED BY <1>8, <2>1, <2>2, <2>3, <2>4
<1>9. CASE Answer(h) \/ DeleteRow(h)
  BY <1>0, <1>9, <1>n DEF Answer, DeleteRow, Request
<1> QED BY <1>1, <1>2, <1>8, <1>9 DEF OwnStep, Step

\* After a step of its own only a request that got a virtual service is about to put it.
LEMMA NotPut ==
  ASSUME Machine, NEW h \in Handler, OwnStep(h), ~GetVirtualService(h)
  PROVE  req'[h].pc # "put"
<1>0. /\ GoodRequest(req[h]) /\ req[h] \in Request /\ OpOK(req[h]) /\ TodoOK(req[h])
      /\ req \in [Handler -> Request]
  BY DEF Machine, TypeOK, GoodRequest
<1>n. NoRequest.pc # "put"
  BY DEF NoRequest
<1>e. ASSUME Error(h) PROVE req'[h].pc # "put"
  BY <1>e, ErrorGoes
<1>p. ASSUME NEW r \in Request, NEW do \in {"install", "remove"} PROVE Proceed(r, do).pc # "put"
  <2>1. LET p == Proceed(r, do) IN p.pc = IF p.todo = <<>> THEN "answer" ELSE "filter"
    BY ProceedIs
  <2> QED BY <2>1
<1>t. ASSUME req[h].pc \in {"filter", "put"} PROVE TaskDone(h).pc # "put" /\ TaskFailed(h).pc # "put"
  <2>1. TaskDone(h).pc = IF TaskDone(h).todo = <<>> THEN "answer" ELSE "filter"
    BY <1>0, <1>t, DoneIs
  <2>2. TaskFailed(h).pc = IF TaskFailed(h).todo = <<>> THEN "answer" ELSE "filter"
    BY <1>0, <1>t, FailedIs
  <2> QED BY <2>1, <2>2
<1>1. CASE /\ ~PutVirtualService(h) /\ ~SetTokenObject(h) /\ ~WriteService(h)
           /\ ~RequestFailure(h) /\ ~ErrorIgnored(h)
  BY <1>1, NoFilters
<1>3. CASE WriteService(h)
  <2>1. CASE Error(h)
    BY <2>1, <1>e
  <2>2. CASE ~Error(h)
    <3> DEFINE r == [req[h] EXCEPT !.todo = Installations(FiltersOf[req[h].release], req[h].name)]
    <3>1. req'[h] = Proceed(r, "install")
      BY <1>0, <1>3, <2>2 DEF WriteService
    <3>2. r \in Request
      <4>1. Installations(FiltersOf[req[h].release], req[h].name) \in Seq(Task)
        BY <1>0, InstallationsAre DEF Request
      <4> QED BY <1>0, <4>1 DEF Request
    <3> QED BY <1>p, <3>1, <3>2
  <2> QED BY <2>1, <2>2
<1>4. CASE PutVirtualService(h)
  <2>1. CASE VersionIsLast(h)
    <3> DEFINE reqs == [req EXCEPT ![h] = TaskDone(h)]
    <3>1. TaskDone(h) \in Request
      BY <1>0, <1>4, DoneIs DEF PutVirtualService
    <3>2. reqs \in [Handler -> Request] /\ reqs[h] = TaskDone(h) /\ reqs[h].pc # "put"
      BY <1>0, <1>4, <1>t, <3>1 DEF PutVirtualService
    <3>3. req' = Outdated(reqs, First(h).object)
      BY <1>4, <2>1 DEF PutVirtualService
    <3> QED BY <3>2, <3>3, OutdatedIs
  <2>2. CASE ~VersionIsLast(h)
    BY <1>0, <1>4, <1>t, <2>2 DEF PutVirtualService
  <2> QED BY <2>1, <2>2
<1>5. CASE SetTokenObject(h)
  BY <1>0, <1>5, <1>t DEF SetTokenObject
<1>6. CASE RequestFailure(h)
  BY <1>0, <1>6, <1>t, <1>e DEF RequestFailure
<1>7. CASE ErrorIgnored(h)
  <2>1. CASE req[h].pc = "service"
    <3> DEFINE on == [req[h] EXCEPT !.alone = FALSE, !.pc = Unchecked[req[h].pc]]
               r == [on EXCEPT !.todo = Installations(FiltersOf[req[h].release], req[h].name)]
    <3>1. req'[h] = Proceed(r, "install")
      BY <1>0, <1>7, <2>1 DEF ErrorIgnored
    <3>2. r \in Request
      <4>1. Installations(FiltersOf[req[h].release], req[h].name) \in Seq(Task)
        BY <1>0, InstallationsAre DEF Request
      <4>2. Unchecked[req[h].pc] = "filter"
        BY <2>1 DEF Unchecked
      <4> QED BY <1>0, <4>1, <4>2 DEF Request, Begun
    <3> QED BY <1>p, <3>1, <3>2
  <2>2. CASE req[h].pc = "scale"
    BY <1>0, <1>7, <1>n, <2>2 DEF ErrorIgnored
  <2>3. CASE req[h].pc \in {"delservice", "deldeployment"}
    <3>1. Unchecked[req[h].pc] \in {"deldeployment", "delrow"}
      BY <2>3 DEF Unchecked
    <3>2. req'[h] = [req[h] EXCEPT !.alone = FALSE, !.pc = Unchecked[req[h].pc]]
      BY <1>0, <1>7, <2>3 DEF ErrorIgnored
    <3> QED BY <1>0, <3>1, <3>2 DEF Request
  <2> QED BY <1>7, <2>1, <2>2, <2>3 DEF ErrorIgnored, Unchecked
<1> QED BY <1>1, <1>3, <1>4, <1>5, <1>6, <1>7

\* Only what is put back changes a virtual service.
LEMMA SameServices ==
  ASSUME NEW h \in Handler, OwnStep(h), ~PutVirtualService(h)
  PROVE  vs' = vs
BY DEF OwnStep, Step, RequestFailure, ErrorIgnored, CheckDeployment, InsertDeployment,
     SnapshotRow, UpdateRow, SetInstances, Scale, ReadDeployment, DeploymentExists,
     WriteDeployment, ServiceExists, WriteService, GetVirtualService, SetTokenObject, Answer,
     DeploymentInfo, CountDeployments, ListDeployments, NextDeployment, DeletionAnswered,
     IterationFails,
     DeploymentFound, DeleteService, DeleteDeployment, DeleteRow, DeleteRowAgain, filters

\* A copy is the last version of its virtual service, or marked as an older one.
LEMMA OwnFresh ==
  ASSUME Machine, NEW h \in Handler, OwnStep(h), NEW g \in Handler
  PROVE  FreshOK(g)'
<1>0. /\ GoodRequest(req[h]) /\ req[h] \in Request /\ TodoOK(req[h])
      /\ req \in [Handler -> Request] /\ FreshOK(g)
  BY DEF Machine, TypeOK, GoodRequest
<1>1. CASE g = h /\ ~GetVirtualService(h)
  BY <1>1, NotPut DEF FreshOK
<1>2. CASE g = h /\ GetVirtualService(h)
  <2> DEFINE o == First(h).object
  <2>1. CASE vs[o] = NoService
    <3>1. req'[h] = TaskDone(h)
      BY <1>0, <1>2, <2>1 DEF GetVirtualService
    <3>2. TaskDone(h).pc = IF TaskDone(h).todo = <<>> THEN "answer" ELSE "filter"
      BY <1>0, <1>2, DoneIs DEF GetVirtualService
    <3> QED BY <1>2, <3>1, <3>2 DEF FreshOK
  <2>2. CASE vs[o] # NoService
    <3>1. req'[h] = [req[h] EXCEPT !.pc = "put", !.copy = vs[o], !.fresh = TRUE] /\ vs' = vs
      BY <1>0, <1>2, <2>2 DEF GetVirtualService, filters
    <3>2. req'[h].copy = vs[o] /\ req'[h].todo = req[h].todo
      BY <1>0, <3>1 DEF Request
    <3> QED BY <1>2, <3>1, <3>2 DEF FreshOK, First
  <2> QED BY <2>1, <2>2
<1>3. CASE g # h /\ ~PutVirtualService(h)
  <2>1. req'[g] = req[g] /\ vs' = vs
    BY <1>3, OwnMove, SameServices
  <2> QED BY <1>0, <2>1 DEF FreshOK, First
<1>4. CASE g # h /\ PutVirtualService(h)
  <2>1. CASE VersionIsLast(h)
    <3> DEFINE reqs == [req EXCEPT ![h] = TaskDone(h)]
               o == First(h).object
    <3>1. TaskDone(h) \in Request
      BY <1>0, <1>4, DoneIs DEF PutVirtualService
    <3>2. reqs \in [Handler -> Request] /\ reqs[g] = req[g]
      BY <1>0, <1>4, <3>1
    <3>3. req' = Outdated(reqs, o) /\ vs' = [vs EXCEPT ![o] = Edited(h)]
      BY <1>4, <2>1 DEF PutVirtualService
    <3> HIDE DEF reqs
    <3>4. ASSUME req'[g].pc = "put", req'[g].fresh
          PROVE  req'[g].copy = vs'[Head(req'[g].todo).object]
      <4>1. Like(req'[g], req[g]) /\ ~(req[g].pc = "put" /\ Head(req[g].todo).object = o)
        BY <3>2, <3>3, <3>4, OutdatedIs
      <4>2. /\ req[g].pc = "put" /\ req[g].fresh /\ req'[g].copy = req[g].copy
            /\ req'[g].todo = req[g].todo
        BY <3>4, <4>1 DEF Like
      <4>3. req[g].copy = vs[First(g).object] /\ First(g).object # o
        BY <1>0, <4>1, <4>2 DEF FreshOK, First
      <4>4. First(g).object \in Name \union {Site}
        BY <4>2, EditedType
      <4>5. vs'[First(g).object] = vs[First(g).object]
        BY <3>3, <4>3, <4>4 DEF Machine, TypeOK
      <4> QED BY <4>2, <4>3, <4>5 DEF First
    <3> QED BY <3>4 DEF FreshOK, First
  <2>2. CASE ~VersionIsLast(h)
    <3>1. req'[g] = req[g] /\ vs' = vs
      BY <1>0, <1>4, <2>2 DEF PutVirtualService
    <3> QED BY <1>0, <3>1 DEF FreshOK, First
  <2> QED BY <2>1, <2>2
<1> QED BY <1>1, <1>2, <1>3, <1>4

\* What is known of requests is so at first and after every step.
LEMMA MachineInit == Init => Machine
<1> SUFFICES ASSUME Init PROVE Machine
  OBVIOUS
<1>1. req \in [Handler -> Request] /\ \A h \in Handler : req[h] = NoRequest
  BY NoRequestType DEF Init
<1>2. StateOK
  <2>1. [NoDeployment EXCEPT !.release = FirstRelease] \in Deployment
    BY Constants DEF Deployment
  <2>2. Published \in VirtualService /\ Bare \in VirtualService
    BY NamesAssumption DEF VirtualService, Bare
  <2>3. /\ deployment \in [Name -> Deployment] /\ service \in [Name -> Port \union {NoPort}]
        /\ instances \in [Name -> Instances]
        /\ \A n \in Name : instances[n] = NoDeployment.replicas
    BY <2>1, Constants DEF Init
  <2>4. vs \in [Name \union {Site} -> VirtualService \union {NoService}]
    BY <2>2 DEF Init
  <2>5. answered \in [Name -> Release \union {NoRelease}]
    BY <2>3 DEF Init, Deployment
  <2>6. /\ placed \subseteq Name /\ jwt \in [Name -> SUBSET TokenObjects]
        /\ guarded \in [Name -> (SUBSET Filter) \union {Unknown}]
        /\ suspect = {} /\ raced = {}
    BY DEF Init
  <2>7. requests \in 0..MaxRequests /\ deploys \in 0..MaxDeploys /\ troubles \in 0..MaxTroubles
    BY BoundsAssumption DEF Init
  <2> QED BY <2>3, <2>4, <2>5, <2>6, <2>7 DEF StateOK
<1>3. \A h \in Handler : FreshOK(h)
  BY <1>1 DEF FreshOK, NoRequest
<1> QED BY <1>1, <1>2, <1>3, TypeIs, NoRequestGood DEF Machine

\* Every step keeps the types, the order of tasks, and the copies last or marked.
LEMMA MachineStep == Machine /\ [Next]_vars => Machine'
<1> SUFFICES ASSUME Machine, [Next]_vars PROVE Machine'
  OBVIOUS
<1>0. StateOK /\ req \in [Handler -> Request] /\ \A h \in Handler : GoodRequest(req[h]) /\ FreshOK(h)
  BY TypeIs DEF Machine
<1>a. ASSUME StateOK', req' \in [Handler -> Request],
             \A h \in Handler : GoodRequest(req'[h]) /\ FreshOK(h)'
      PROVE  Machine'
  <2>1. TypeOK'
    BY <1>a DEF StateOK, TypeOK
  <2> QED BY <1>a, <2>1 DEF Machine
<1>1. ASSUME NEW h \in Handler, OwnStep(h) PROVE Machine'
  <2>1. StateOK' /\ req' \in [Handler -> Request] /\ GoodRequest(req'[h])
    BY <1>1, OwnState, OwnMove
  <2>2. ASSUME NEW o \in Handler, o # h PROVE GoodRequest(req'[o])
    <3>1. Like(req'[o], req[o]) /\ req'[o] \in Request
      BY <1>1, <2>1, <2>2, OwnMove
    <3> QED BY <1>0, <3>1, LikeIsGood
  <2>3. \A g \in Handler : FreshOK(g)'
    BY <1>1, OwnFresh
  <2> QED BY <1>a, <2>1, <2>2, <2>3
<1>2. ASSUME NEW h \in Handler, Start(h) PROVE Machine'
  <2>1. PICK r : GoodRequest(r) /\ r.alone /\ r.pc \in Starting /\ Arrive(h, r)
    BY <1>2, StartIs
  <2>2. /\ req' \in [Handler -> Request] /\ GoodRequest(req'[h]) /\ Like(req'[h], r)
        /\ \A o \in Handler : o # h => Like(req'[o], req[o])
        /\ suspect' \subseteq Name /\ raced' \subseteq Name
        /\ requests' \in 0..MaxRequests /\ deploys' \in 0..MaxDeploys
    BY <2>1, ArriveMove
  <2>3. UNCHANGED <<rows, cluster, filters, answered, guarded, troubles>>
    BY <2>1 DEF Arrive
  <2>4. StateOK'
    BY <1>0, <2>2, <2>3 DEF StateOK, rows, cluster, filters
  <2>5. ASSUME NEW o \in Handler PROVE GoodRequest(req'[o]) /\ FreshOK(o)'
    <3>1. CASE o = h
      <4>1. req'[h].pc # "put"
        BY <2>1, <2>2 DEF Like, Starting
      <4> QED BY <2>2, <3>1, <4>1 DEF FreshOK
    <3>2. CASE o # h
      <4>1. Like(req'[o], req[o]) /\ req'[o] \in Request
        BY <2>2, <3>2
      <4>2. GoodRequest(req'[o])
        BY <1>0, <4>1, LikeIsGood
      <4>3. FreshOK(o)'
        BY <1>0, <2>3, <4>1 DEF FreshOK, First, Like, filters
      <4> QED BY <4>2, <4>3
    <3> QED BY <3>1, <3>2
  <2> QED BY <1>a, <2>2, <2>4, <2>5
<1>3. CASE (\E n \in Name : AppVirtualService(n)) \/ PublishSite
  <2>1. /\ StateOK' /\ req' \in [Handler -> Request]
        /\ \A h \in Handler : Like(req'[h], req[h])
        /\ \A h \in Handler : req[h].pc = "put" /\ req'[h].fresh =>
             vs'[First(h).object] = vs[First(h).object]
    BY <1>3, OutsideState
  <2>2. ASSUME NEW o \in Handler PROVE GoodRequest(req'[o]) /\ FreshOK(o)'
    <3>1. Like(req'[o], req[o]) /\ req'[o] \in Request
      BY <2>1
    <3>2. GoodRequest(req'[o])
      BY <1>0, <3>1, LikeIsGood
    <3>3. FreshOK(o)'
      BY <1>0, <2>1, <3>1 DEF FreshOK, First, Like
    <3> QED BY <3>2, <3>3
  <2> QED BY <1>a, <2>1, <2>2
<1>4. CASE UNCHANGED vars
  <2>1. StateOK'
    BY <1>0, <1>4 DEF StateOK, vars, rows, cluster, filters, ghosts, counters
  <2>2. req' = req /\ vs' = vs
    BY <1>4 DEF vars, filters
  <2>3. \A h \in Handler : FreshOK(h)'
    BY <1>0, <2>2 DEF FreshOK, First
  <2> QED BY <1>0, <1>a, <2>1, <2>2, <2>3
<1> QED BY <1>1, <1>2, <1>3, <1>4 DEF Next, OwnStep

\* The state is of its type, and nothing is known of a row that is not there
\* (TypeOK of DeploymentsV2), for any number of requests and deployments.
THEOREM DeploymentsTyped == Spec => []TypeOK
<1>1. Machine => TypeOK
  BY DEF Machine
<1> QED BY <1>1, MachineInit, MachineStep, PTL DEF Spec

\* What is put back changes one filter on the routes it is about and nothing else
\* (OnlyItsFilterChanges): the copy is the virtual service as it is.
THEOREM FiltersChangeAlone == Spec => OnlyItsFilterChanges
<1> DEFINE A == \A h \in Handler : req[h].pc = "put" /\ req'[h].pc # "put" =>
       \A o \in Name \union {Site}, n \in Name, f \in Filter :
         /\ (vs[o] = NoService) = (vs'[o] = NoService)
         /\ vs[o] # NoService /\ ((f \in vs[o][n]) # (f \in vs'[o][n])) =>
              o = First(h).object /\ n \in Reached(h) /\ f = First(h).filter
<1>1. ASSUME Machine, [Next]_vars PROVE [A]_vars
  <2> SUFFICES ASSUME NEW h \in Handler, req[h].pc = "put", req'[h].pc # "put",
                      NEW o \in Name \union {Site}, NEW n \in Name, NEW f \in Filter
               PROVE  /\ (vs[o] = NoService) = (vs'[o] = NoService)
                      /\ vs[o] # NoService /\ ((f \in vs[o][n]) # (f \in vs'[o][n])) =>
                           o = First(h).object /\ n \in Reached(h) /\ f = First(h).filter
    OBVIOUS
  <2>0. /\ vs \in [Name \union {Site} -> VirtualService \union {NoService}]
        /\ req \in [Handler -> Request] /\ FreshOK(h)
    BY <1>1 DEF Machine, TypeOK
  <2>1. ASSUME NEW g \in Handler, OwnStep(g), g # h PROVE FALSE
    <3>1. Like(req'[h], req[h])
      BY <1>1, <2>1, OwnMove
    <3> QED BY <3>1 DEF Like
  <2>2. ASSUME NEW g \in Handler, Start(g) PROVE FALSE
    <3>1. PICK r : GoodRequest(r) /\ r.alone /\ r.pc \in Starting /\ Arrive(g, r)
      BY <2>2, StartIs
    <3>2. req[g].pc = "idle" /\ \A p \in Handler : p # g => Like(req'[p], req[p])
      BY <1>1, <3>1, ArriveMove
    <3> QED BY <3>2 DEF Like
  <2>3. ASSUME (\E m \in Name : AppVirtualService(m)) \/ PublishSite PROVE FALSE
    <3>1. Like(req'[h], req[h])
      BY <1>1, <2>3, OutsideState
    <3> QED BY <3>1 DEF Like
  <2>4. CASE OwnStep(h) /\ ~PutVirtualService(h)
    BY <1>1, <2>4, SameServices
  <2>5. CASE PutVirtualService(h)
    <3>1. CASE VersionIsLast(h)
      <4> DEFINE u == First(h).object
      <4>1. vs' = [vs EXCEPT ![u] = Edited(h)] /\ req[h].fresh
        BY <2>5, <3>1 DEF PutVirtualService, VersionIsLast
      <4>2. /\ Edited(h) \in VirtualService /\ req[h].copy \in VirtualService
            /\ u \in Name \union {Site}
        BY <1>1, EditedType
      <4>3. req[h].copy = vs[u]
        BY <2>0, <4>1 DEF FreshOK
      <4>4. CASE o = u
        <5>1. vs'[o] = Edited(h) /\ vs[o] # NoService /\ vs'[o] # NoService
          BY <2>0, <4>1, <4>2, <4>3, <4>4, Constants
        <5>2. (f \in vs[o][n]) # (f \in Edited(h)[n]) => n \in Reached(h) /\ f = First(h).filter
          BY <4>3, <4>4 DEF Edited
        <5> QED BY <4>4, <5>1, <5>2
      <4>5. CASE o # u
        <5>1. vs'[o] = vs[o]
          BY <2>0, <4>1, <4>5
        <5> QED BY <5>1
      <4> QED BY <4>4, <4>5
    <3>2. CASE ~VersionIsLast(h)
      BY <2>5, <3>2 DEF PutVirtualService
    <3> QED BY <3>1, <3>2
  <2>6. CASE UNCHANGED vars
    BY <2>6 DEF vars
  <2> QED BY <1>1, <2>1, <2>2, <2>3, <2>4, <2>5, <2>6 DEF Next, OwnStep
<1> QED BY <1>1, MachineInit, MachineStep, PTL DEF Spec, OnlyItsFilterChanges

-----------------------------------------------------------------------------
(* What a step of a request leaves alone. *)

At(r, n) == r.pc # "idle" /\ n \in Touches(r)

\* A request at work on a deployment has arrived for it.
LEMMA AtName ==
  ASSUME NEW r, GoodRequest(r), r.pc \notin {"idle", "count", "list", "next"}
  PROVE  At(r, r.name) /\ r.name \in Name
<1>1. r \in Request /\ OpOK(r)
  BY DEF GoodRequest
<1>2. r.op = "deleteapp" => r.pc \in AppLoop \ {"next"}
  BY <1>1 DEF OpOK, Request, Begun, Unbegun, AppLoop, Deleting
<1> QED BY <1>1, <1>2 DEF At, OpOK, Touches, Request

\* The request goes on for the same purpose.
GoesOn(r, s) ==
  /\ r.op = s.op /\ r.app = s.app /\ r.release = s.release /\ (r.alone => s.alone)
  /\ r.name = s.name \/ (s.pc = "next" /\ r.pc = "found" /\ r.name \in s.left)

\* A request goes on for the same purpose, or ends.
LEMMA OwnGoes ==
  ASSUME Machine, NEW h \in Handler, OwnStep(h)
  PROVE  req'[h] = NoRequest \/ GoesOn(req'[h], req[h])
<1>0. /\ GoodRequest(req[h]) /\ req[h] \in Request /\ OpOK(req[h]) /\ TodoOK(req[h])
      /\ req \in [Handler -> Request]
  BY DEF Machine, TypeOK, GoodRequest
<1>e. ASSUME Error(h) PROVE req'[h] = NoRequest \/ GoesOn(req'[h], req[h])
  <2>1. NoteError(h) \/ Fail(h)
    BY <1>e DEF Error, DeletionFailed
  <2>2. NoteError(h) => GoesOn(req'[h], req[h])
    BY <1>0 DEF NoteError, Request, GoesOn
  <2>3. Fail(h) => req'[h] = NoRequest
    BY <1>0 DEF Fail
  <2> QED BY <2>1, <2>2, <2>3
<1>q. /\ Refuse(h) => req'[h] = NoRequest
      /\ \A pc : To(h, pc) => GoesOn(req'[h], req[h])
  BY <1>0 DEF Refuse, To, Request, GoesOn
<1>r. \A r, s : Rest(r, s) => GoesOn(r, s)
  BY DEF Rest, GoesOn
<1>d. ASSUME req[h].pc \in {"filter", "put"}
      PROVE  GoesOn(TaskDone(h), req[h]) /\ GoesOn(TaskFailed(h), req[h])
  BY <1>0, <1>d, DoneRest, FailedIs DEF GoesOn
<1>1. CASE \/ CheckDeployment(h) \/ InsertDeployment(h) \/ UpdateRow(h)
           \/ SetInstances(h) \/ Scale(h) \/ DeploymentInfo(h) \/ CountDeployments(h)
           \/ DeletionAnswered(h) \/ IterationFails(h) \/ DeleteService(h) \/ DeleteDeployment(h)
           \/ DeleteRowAgain(h)
           \/ DeploymentFound(h)
  BY <1>1, <1>q, <1>e DEF CheckDeployment, InsertDeployment, UpdateRow, SetInstances,
     Scale, DeploymentInfo, CountDeployments, DeletionAnswered, IterationFails, DeleteService,
     DeleteDeployment, DeleteRowAgain, DeploymentFound
<1>2. CASE WriteDeployment(h)
  <2>1. Error(h) \/ To(h, "answer") \/ To(h, "serviceexists")
    BY <1>2 DEF WriteDeployment
  <2> QED BY <1>q, <1>e, <2>1
<1>3. CASE SnapshotRow(h) \/ ReadDeployment(h)
  BY <1>0, <1>q, <1>3 DEF SnapshotRow, ReadDeployment, Request, GoesOn
<1>4. CASE DeploymentExists(h) \/ ServiceExists(h)
  BY <1>0, <1>4 DEF DeploymentExists, ServiceExists, Request, GoesOn
<1>5. CASE ListDeployments(h)
  BY <1>0, <1>5 DEF ListDeployments, Request, GoesOn
<1>6. CASE NextDeployment(h)
  <2>1. PICK n \in req[h].left :
          req' = [req EXCEPT ![h].pc = "found", ![h].name = n, ![h].left = @ \ {n}]
    BY <1>6 DEF NextDeployment
  <2> QED BY <1>0, <1>6, <2>1 DEF NextDeployment, Request, GoesOn
<1>7. CASE WriteService(h)
  <2>1. CASE Error(h)
    BY <2>1, <1>e
  <2>2. CASE ~Error(h)
    <3> DEFINE r == [req[h] EXCEPT !.todo = Installations(FiltersOf[req[h].release], req[h].name)]
    <3>1. req'[h] = Proceed(r, "install")
      BY <1>0, <1>7, <2>2 DEF WriteService
    <3>2. Rest(Proceed(r, "install"), req[h])
      BY <1>0, <1>7, ServicedGood DEF WriteService
    <3> QED BY <1>r, <3>1, <3>2
  <2> QED BY <2>1, <2>2
<1>8. CASE GetVirtualService(h)
  BY <1>0, <1>8, <1>d DEF GetVirtualService, Request, GoesOn
<1>9. CASE PutVirtualService(h)
  <2>1. CASE VersionIsLast(h)
    <3> DEFINE reqs == [req EXCEPT ![h] = TaskDone(h)]
    <3>1. TaskDone(h) \in Request /\ GoesOn(TaskDone(h), req[h])
      BY <1>0, <1>9, <1>d, DoneIs DEF PutVirtualService
    <3>2. TaskDone(h).pc # "put"
      <4>1. TaskDone(h).pc = IF TaskDone(h).todo = <<>> THEN "answer" ELSE "filter"
        BY <1>0, <1>9, DoneIs DEF PutVirtualService
      <4> QED BY <4>1
    <3>3. reqs \in [Handler -> Request] /\ reqs[h] = TaskDone(h)
      BY <1>0, <3>1
    <3>4. req' = Outdated(reqs, First(h).object)
      BY <1>9, <2>1 DEF PutVirtualService
    <3> HIDE DEF reqs
    <3>5. req'[h] = TaskDone(h)
      BY <3>2, <3>3, <3>4, OutdatedIs
    <3> QED BY <3>1, <3>5
  <2>2. CASE ~VersionIsLast(h)
    BY <1>0, <1>9, <1>d, <2>2 DEF PutVirtualService
  <2> QED BY <2>1, <2>2
<1>10. CASE SetTokenObject(h)
  BY <1>0, <1>10, <1>d DEF SetTokenObject
<1>11. CASE Answer(h)
  BY <1>0, <1>11 DEF Answer
<1>12. CASE DeleteRow(h)
  BY <1>0, <1>12 DEF DeleteRow, Request, GoesOn
<1>13. CASE RequestFailure(h)
  BY <1>0, <1>13, <1>d, <1>e DEF RequestFailure
<1>14. CASE ErrorIgnored(h)
  <2> DEFINE pc == Unchecked[req[h].pc]
             on == [req[h] EXCEPT !.alone = FALSE, !.pc = pc]
  <2>0. pc \in {"filter", "idle", "deldeployment", "delrow"}
    BY <1>14 DEF ErrorIgnored, Unchecked
  <2>1. CASE req[h].pc = "service"
    <3> DEFINE todo == Installations(FiltersOf[req[h].release], req[h].name)
               r == [on EXCEPT !.todo = todo]
    <3>1. req'[h] = Proceed(r, "install")
      BY <1>0, <1>14, <2>1 DEF ErrorIgnored
    <3>2. todo \in Seq(Task)
      BY <1>0, InstallationsAre DEF Request
    <3> HIDE DEF pc, todo
    <3>3. r \in Request /\ r.op = req[h].op /\ r.app = req[h].app /\ r.release = req[h].release
          /\ ~r.alone /\ r.name = req[h].name
      BY <1>0, <2>0, <3>2 DEF Request, Begun
    <3> HIDE DEF r
    <3>4. Rest(Proceed(r, "install"), r)
      BY <3>3, ProceedIs
    <3> QED BY <3>1, <3>3, <3>4 DEF Rest, GoesOn
  <2>2. CASE req[h].pc = "scale"
    BY <1>0, <1>14, <2>2 DEF ErrorIgnored
  <2>3. CASE req[h].pc \in {"delservice", "deldeployment"}
    <3>1. req'[h] = on
      BY <1>0, <1>14, <2>3 DEF ErrorIgnored
    <3> HIDE DEF pc
    <3> QED BY <1>0, <3>1 DEF Request, GoesOn
  <2> QED BY <1>14, <2>1, <2>2, <2>3 DEF ErrorIgnored, Unchecked
<1> QED BY <1>1, <1>2, <1>3, <1>4, <1>5, <1>6, <1>7, <1>8, <1>9, <1>10, <1>11, <1>12, <1>13, <1>14
        DEF OwnStep, Step

\* The rest of the state of a deployment.
Same(n) ==
  /\ (n \in placed') = (n \in placed) /\ instances'[n] = instances[n]
  /\ deployment'[n] = deployment[n] /\ service'[n] = service[n]
  /\ answered'[n] = answered[n]
  /\ (n \in suspect') = (n \in suspect) /\ (n \in raced') = (n \in raced)
SameFilters(n) == vs'[n] = vs[n] /\ jwt'[n] = jwt[n] /\ guarded'[n] = guarded[n]

\* A request changes nothing of the deployments it is not at work on; one that met others
\* clears no suspicion, and only a deletion takes a row away or forgets a race.
LEMMA OwnFrame ==
  ASSUME Machine, NEW h \in Handler, OwnStep(h)
  PROVE  /\ \A n \in Name : n # req[h].name => Same(n) /\ SameFilters(n)
         /\ ~req[h].alone => suspect \subseteq suspect' /\ raced \subseteq raced'
         /\ req[h].op \notin Deleting => raced \subseteq raced' /\ placed \subseteq placed'
<1>0. /\ GoodRequest(req[h]) /\ req[h] \in Request /\ OpOK(req[h]) /\ TodoOK(req[h]) /\ StateOK
  BY TypeIs DEF Machine, GoodRequest
<1> DEFINE Goal == /\ \A n \in Name : n # req[h].name => Same(n) /\ SameFilters(n)
                   /\ ~req[h].alone => suspect \subseteq suspect' /\ raced \subseteq raced'
                   /\ req[h].op \notin Deleting => raced \subseteq raced' /\ placed \subseteq placed'
<1> USE DEF Same, SameFilters
<1>s. ASSUME UNCHANGED <<rows, cluster, filters, ghosts>> PROVE Goal
  BY <1>s DEF rows, cluster, filters, ghosts
<1>e. ASSUME UNCHANGED <<rows, cluster, filters>>, Error(h), req[h].pc # "idle" PROVE Goal
  BY <1>e, ErrorGhosts DEF rows, cluster, filters
<1>1. CASE \/ CheckDeployment(h) \/ SnapshotRow(h) \/ ReadDeployment(h) \/ DeploymentExists(h)
           \/ ServiceExists(h) \/ GetVirtualService(h) \/ DeploymentInfo(h)
           \/ CountDeployments(h) \/ ListDeployments(h) \/ NextDeployment(h)
           \/ DeletionAnswered(h) \/ IterationFails(h)
  <2> HIDE DEF Same, SameFilters
  <2> QED BY <1>1, <1>s DEF CheckDeployment, SnapshotRow, ReadDeployment, DeploymentExists,
       ServiceExists, GetVirtualService, DeploymentInfo, CountDeployments, ListDeployments,
       NextDeployment, DeletionAnswered, IterationFails, Refuse, To
<1>2. CASE InsertDeployment(h)
  BY <1>0, <1>2 DEF InsertDeployment, Refuse, StateOK, cluster, filters, ghosts
<1>3. CASE UpdateRow(h)
  BY <1>0, <1>3 DEF UpdateRow, Refuse, StateOK, cluster, filters, ghosts
<1>4. CASE SetInstances(h)
  BY <1>0, <1>4 DEF SetInstances, To, StateOK, cluster, filters, ghosts
<1>5. CASE Scale(h)
  BY <1>0, <1>5 DEF Scale, Refuse, StateOK, rows, filters, ghosts
<1>6. CASE WriteDeployment(h)
  <2>1. CASE Error(h) /\ deployment' = deployment
    BY <1>6, <1>e, <2>1 DEF WriteDeployment, cluster
  <2>2. CASE ~(Error(h) /\ deployment' = deployment)
    BY <1>0, <1>6, <2>2 DEF WriteDeployment, To, StateOK, rows, filters, ghosts
  <2> QED BY <2>1, <2>2
<1>7. CASE WriteService(h)
  <2>1. CASE Error(h) /\ service' = service
    BY <1>7, <1>e, <2>1 DEF WriteService, cluster
  <2>2. CASE ~(Error(h) /\ service' = service)
    BY <1>0, <1>7, <2>2 DEF WriteService, StateOK, rows, filters
  <2> QED BY <2>1, <2>2
<1>8. CASE PutVirtualService(h)
  <2>1. \A n \in Name : n # req[h].name => vs'[n] = vs[n]
    BY <1>0, <1>8, EditedType, Constants DEF PutVirtualService, StateOK
  <2> QED BY <1>8, <2>1 DEF PutVirtualService, rows, cluster, ghosts
<1>9. CASE SetTokenObject(h)
  BY <1>0, <1>9 DEF SetTokenObject, StateOK, rows, cluster, ghosts
<1>10. CASE Answer(h)
  BY <1>0, <1>10 DEF Answer, StateOK, rows, cluster, filters
<1>11. CASE DeploymentFound(h)
  <2> HIDE DEF Same, SameFilters
  <2> QED BY <1>11, <1>e, <1>s DEF DeploymentFound, To
<1>12. CASE DeleteService(h)
  BY <1>0, <1>12 DEF DeleteService, To, StateOK, rows, filters, ghosts
<1>13. CASE DeleteDeployment(h)
  BY <1>0, <1>13 DEF DeleteDeployment, To, StateOK, rows, filters, ghosts
<1>14. CASE DeleteRow(h)
  <2>1. req[h].op \in Deleting
    BY <1>0, <1>14 DEF DeleteRow, OpOK
  <2> QED BY <1>0, <1>14, <2>1 DEF DeleteRow, RemoveRow, StateOK, cluster, filters
<1>15. CASE DeleteRowAgain(h)
  <2>1. req[h].op \in Deleting
    BY <1>0, <1>15 DEF DeleteRowAgain, OpOK, Deleting
  <2> QED BY <1>0, <1>15, <2>1 DEF DeleteRowAgain, RemoveRow, To, StateOK, cluster, filters, ghosts
<1>16. CASE RequestFailure(h)
  <2> HIDE DEF Same, SameFilters
  <2> QED BY <1>16, <1>e, <1>s DEF RequestFailure
<1>17. CASE ErrorIgnored(h)
  BY <1>0, <1>17 DEF ErrorIgnored, StateOK, rows, cluster, filters
<1> QED BY <1>1, <1>2, <1>3, <1>4, <1>5, <1>6, <1>7, <1>8, <1>9, <1>10, <1>11, <1>12, <1>13, <1>14,
           <1>15, <1>16, <1>17 DEF OwnStep, Step

\* Between the deployments of an app a request clears nothing either.
LEMMA QuietGhosts ==
  ASSUME Machine, NEW h \in Handler, OwnStep(h), req[h].pc \in {"count", "list", "next"}
  PROVE  /\ suspect \subseteq suspect' /\ raced \subseteq raced'
         /\ UNCHANGED <<rows, cluster, filters, answered, guarded>>
<1>1. RequestFailure(h) => Error(h)
  BY DEF RequestFailure
<1>2. Error(h) => suspect \subseteq suspect' /\ raced \subseteq raced' /\ UNCHANGED <<answered, guarded>>
  BY ErrorGhosts
<1> QED BY <1>1, <1>2 DEF OwnStep, Step, RequestFailure, ErrorIgnored, CheckDeployment, InsertDeployment,
     SnapshotRow, UpdateRow, SetInstances, Scale, ReadDeployment, DeploymentExists,
     WriteDeployment, ServiceExists, WriteService, GetVirtualService, PutVirtualService,
     SetTokenObject, Answer, DeploymentInfo, CountDeployments, ListDeployments, NextDeployment,
     DeletionAnswered, IterationFails, DeploymentFound, DeleteService, DeleteDeployment, DeleteRow,
     DeleteRowAgain, Unchecked, To, Refuse, ghosts, rows, cluster, filters

\* Requests at one deployment at the same time know of each other.
Apart(n) ==
  \A h, o \in Handler : h # o /\ At(req[h], n) /\ At(req[o], n) =>
    /\ n \in suspect /\ ~req[h].alone
    /\ req[h].op \in Deleting => n \in raced

\* A request that goes on is still at no other deployments than before.
LEMMA StillAt ==
  ASSUME NEW r, NEW s, GoodRequest(s), GoesOn(r, s), NEW n, At(r, n), s.pc # "idle"
  PROVE  At(s, n) /\ (s.op \in Deleting <=> r.op \in Deleting)
<1>1. s.pc = "next" => s.op = "deleteapp"
  BY DEF GoodRequest, OpOK
<1> QED BY <1>1 DEF GoesOn, At, Touches

\* Only a request that has arrived takes steps.
LEMMA OwnBusy ==
  ASSUME Machine, NEW h \in Handler, OwnStep(h)
  PROVE  req[h].pc # "idle"
BY DEF OwnStep, Step, RequestFailure, ErrorIgnored, CheckDeployment, InsertDeployment,
     SnapshotRow, UpdateRow, SetInstances, Scale, ReadDeployment, DeploymentExists,
     WriteDeployment, ServiceExists, WriteService, GetVirtualService, PutVirtualService,
     SetTokenObject, Answer, DeploymentInfo, CountDeployments, ListDeployments, NextDeployment,
     DeletionAnswered, IterationFails, DeploymentFound, DeleteService, DeleteDeployment, DeleteRow,
     DeleteRowAgain, Unchecked

\* What one request does to another: it is only told of.
LEMMA ApartStep ==
  ASSUME Machine, \A n \in Name : Apart(n), [Next]_vars
  PROVE  \A n \in Name : Apart(n)'
<1>0. /\ \A h \in Handler : GoodRequest(req[h]) /\ req[h] \in Request
      /\ \A r, s, n : Like(r, s) => (At(r, n) <=> At(s, n)) /\ r.op = s.op /\ (r.alone => s.alone)
  BY DEF Machine, TypeOK, Like, At, Touches
<1> SUFFICES ASSUME NEW n \in Name, NEW g \in Handler, NEW o \in Handler, g # o,
                    At(req'[g], n), At(req'[o], n)
             PROVE  n \in suspect' /\ ~req'[g].alone /\ (req'[g].op \in Deleting => n \in raced')
  BY DEF Apart
<1>1. ASSUME NEW h \in Handler, OwnStep(h)
      PROVE  n \in suspect' /\ ~req'[g].alone /\ (req'[g].op \in Deleting => n \in raced')
  <2>1. \A p \in Handler : /\ At(req'[p], n) => At(req[p], n)
                           /\ At(req'[p], n) /\ req'[p].alone => req[p].alone
                           /\ At(req'[p], n) /\ req'[p].op \in Deleting => req[p].op \in Deleting
    <3> SUFFICES ASSUME NEW p \in Handler, At(req'[p], n)
                 PROVE  /\ At(req[p], n) /\ (req'[p].alone => req[p].alone)
                        /\ req'[p].op \in Deleting => req[p].op \in Deleting
      OBVIOUS
    <3>1. CASE p = h
      <4>1. req'[h] # NoRequest
        BY <3>1 DEF At, NoRequest
      <4>2. GoesOn(req'[h], req[h]) /\ req[h].pc # "idle"
        BY <1>1, <4>1, OwnGoes, OwnBusy
      <4>3. At(req[h], n) /\ (req[h].op \in Deleting <=> req'[h].op \in Deleting)
        BY <1>0, <3>1, <4>2, StillAt
      <4> QED BY <3>1, <4>2, <4>3 DEF GoesOn
    <3>2. CASE p # h
      <4>1. Like(req'[p], req[p])
        BY <1>1, <3>2, OwnMove
      <4> QED BY <1>0, <4>1
    <3> QED BY <3>1, <3>2
  <2>2. /\ n \in suspect /\ ~req[g].alone /\ ~req[o].alone
        /\ req[g].op \in Deleting => n \in raced
    BY <2>1 DEF Apart
  <2>3. n \in suspect' /\ (n \in raced => n \in raced')
    <3>1. CASE h \in {g, o}
      BY <1>1, <2>2, <3>1, OwnFrame
    <3>2. CASE h \notin {g, o}
      <4>1. CASE At(req[h], n)
        <5>1. ~req[h].alone
          BY <2>1, <3>2, <4>1 DEF Apart
        <5> QED BY <1>1, <2>2, <5>1, OwnFrame
      <4>2. CASE ~At(req[h], n)
        <5>1. CASE req[h].name # n
          BY <1>1, <2>2, <5>1, OwnFrame DEF Same
        <5>2. CASE req[h].pc \in {"count", "list", "next"}
          <6>1. suspect \subseteq suspect' /\ raced \subseteq raced'
            BY <1>1, <5>2, QuietGhosts
          <6> QED BY <2>2, <6>1
        <5> QED BY <1>0, <1>1, <4>2, <5>1, <5>2, AtName, OwnBusy
      <4> QED BY <4>1, <4>2
    <3> QED BY <3>1, <3>2
  <2> QED BY <2>1, <2>2, <2>3
<1>2. ASSUME NEW h \in Handler, Start(h)
      PROVE  n \in suspect' /\ ~req'[g].alone /\ (req'[g].op \in Deleting => n \in raced')
  <2>1. PICK r : GoodRequest(r) /\ r.alone /\ r.pc \in Starting /\ Arrive(h, r)
    BY <1>2, StartIs
  <2>2. /\ Like(req'[h], r) /\ req[h].pc = "idle"
        /\ \A p \in Handler : p # h => Like(req'[p], req[p])
        /\ \A p \in Handler : p # h /\ req[p].pc # "idle" =>
             \A m \in Touches(req[p]) \intersect Touches(r) :
               /\ ~req'[p].alone /\ ~req'[h].alone /\ m \in suspect'
               /\ Deleting \intersect {r.op, req[p].op} # {} => m \in raced'
        /\ suspect \subseteq suspect' /\ raced \subseteq raced'
    BY <2>1, ArriveMove
  <2>3. CASE g # h /\ o # h
    <3>1. Like(req'[g], req[g]) /\ Like(req'[o], req[o])
      BY <2>2, <2>3
    <3>2. At(req[g], n) /\ At(req[o], n)
      BY <1>0, <3>1
    <3>3. n \in suspect /\ ~req[g].alone /\ (req[g].op \in Deleting => n \in raced)
      BY <3>2 DEF Apart
    <3> QED BY <1>0, <2>2, <3>1, <3>3
  <2>4. ASSUME NEW p \in Handler, p # h, At(req'[p], n), At(req'[h], n)
        PROVE  /\ n \in suspect' /\ ~req'[p].alone /\ ~req'[h].alone
               /\ req'[p].op \in Deleting \/ req'[h].op \in Deleting => n \in raced'
    <3>1. Like(req'[p], req[p]) /\ At(req[p], n) /\ At(r, n)
      BY <1>0, <2>2, <2>4
    <3>2. req'[p].op = req[p].op /\ req'[h].op = r.op
      BY <1>0, <2>2, <3>1
    <3> QED BY <2>2, <2>4, <3>1, <3>2 DEF At
  <2>5. CASE g = h
    BY <2>4, <2>5
  <2>6. CASE o = h
    BY <2>4, <2>6
  <2> QED BY <2>3, <2>5, <2>6
<1>3. CASE (\E m \in Name : AppVirtualService(m)) \/ PublishSite
  <2>1. Like(req'[g], req[g]) /\ Like(req'[o], req[o]) /\ suspect' = suspect /\ raced' = raced
    BY <1>3, OutsideState
  <2>2. At(req[g], n) /\ At(req[o], n)
    BY <1>0, <2>1
  <2> QED BY <1>0, <2>1, <2>2 DEF Apart
<1>4. CASE UNCHANGED vars
  BY <1>4 DEF vars, ghosts, Apart
<1> QED BY <1>1, <1>2, <1>3, <1>4 DEF Next, OwnStep

-----------------------------------------------------------------------------
(* What runs, and its rows. *)

\* At work alone, or on what nothing interfered with.
Sole(h) == req[h].alone \/ req[h].name \notin suspect

\* Between these steps what runs is not what was answered.
Mid == {"serviceexists", "service", "filter", "put", "answer", "scale", "deldeployment", "delrow"}
Runs(n) ==
  IF answered[n] = NoRelease
  THEN deployment[n].release = NoRelease /\ service[n] = NoPort
  ELSE /\ n \in placed
       /\ deployment[n] = [release |-> answered[n], replicas |-> instances[n]]
       /\ PortOf[answered[n]] = NoPort \/ service[n] = PortOf[answered[n]]
RunsOK(n) ==
  n \notin suspect /\ (\A h \in Handler : req[h].name = n => req[h].pc \notin Mid) => Runs(n)

\* What a deployment has done so far,
DeployOK(h) ==
  LET r == req[h]
      n == req[h].name
  IN  Sole(h) =>
        /\ r.pc \in {"exists", "deploy", "serviceexists", "service", "filter", "put", "answer"} =>
             n \in placed /\ r.instances = instances[n]
        /\ r.pc \in {"serviceexists", "service", "filter", "put", "answer"} =>
             deployment[n] = [release |-> r.release, replicas |-> r.instances]
        /\ r.pc = "service" => r.seen = (service[n] # NoPort)
        /\ r.pc \in {"filter", "put"} => service[n] = PortOf[r.release]
        /\ r.pc = "answer" => PortOf[r.release] = NoPort \/ service[n] = PortOf[r.release]

\* ... an update of the row, a request to scale, the deletion of the row of an app's,
RowsOK(h) ==
  LET r == req[h]
      n == req[h].name
  IN  n \notin suspect =>
        /\ r.pc = "write" => n \in placed /\ r.instances = instances[n]
        /\ r.pc = "scale" =>
             IF answered[n] = NoRelease
             THEN deployment[n].release = NoRelease /\ service[n] = NoPort
             ELSE /\ n \in placed /\ r.instances = instances[n]
                  /\ deployment[n].release = answered[n]
                  /\ PortOf[answered[n]] = NoPort \/ service[n] = PortOf[answered[n]]
        /\ r.pc = "delagain" => answered[n] = NoRelease

\* ... and a deletion, unless something is deployed meanwhile.
RemoveOK(h) ==
  LET r == req[h]
      n == req[h].name
  IN  Sole(h) \/ n \notin raced =>
        /\ r.pc \in {"deldeployment", "delrow", "delagain"} => service[n] = NoPort
        /\ r.pc \in {"delrow", "delagain"} => deployment[n].release = NoRelease

\* What is deployed has a row, unless that is deleted meanwhile.
RowHere(h) ==
  req[h].pc \in {"exists", "deploy", "serviceexists", "service"} /\ req[h].name \notin raced =>
    req[h].name \in placed
RowLast(n) ==
  n \notin raced /\ (deployment[n].release # NoRelease \/ service[n] # NoPort) => n \in placed

RowsKnown(h) == DeployOK(h) /\ RowsOK(h) /\ RemoveOK(h) /\ RowHere(h)
RowsInv == /\ Machine /\ \A n \in Name : Apart(n) /\ RunsOK(n) /\ RowLast(n)
           /\ \A h \in Handler : RowsKnown(h)

\* What is known for a request stays known while its deployment is left alone.
LEMMA Carried ==
  ASSUME NEW h \in Handler, RowsKnown(h), Like(req'[h], req[h]),
         req[h].name \in suspect => req[h].name \in suspect',
         req[h].name \in raced => req[h].name \in raced',
         (req[h].name \in placed') = (req[h].name \in placed),
         instances'[req[h].name] = instances[req[h].name],
         deployment'[req[h].name] = deployment[req[h].name],
         service'[req[h].name] = service[req[h].name],
         answered'[req[h].name] = answered[req[h].name]
  PROVE  RowsKnown(h)'
<1> DEFINE n == req[h].name
<1>1. /\ req'[h].pc = req[h].pc /\ req'[h].name = n /\ req'[h].release = req[h].release
      /\ req'[h].instances = req[h].instances /\ req'[h].seen = req[h].seen
      /\ req'[h].alone => req[h].alone
  BY DEF Like
<1>2. (Sole(h)' => Sole(h)) /\ (n \notin suspect' => n \notin suspect) /\ (n \notin raced' => n \notin raced)
  BY <1>1 DEF Sole
<1>3. DeployOK(h)'
  BY <1>1, <1>2 DEF RowsKnown, DeployOK
<1>4. RowsOK(h)'
  BY <1>1, <1>2 DEF RowsKnown, RowsOK
<1>5. RemoveOK(h)'
  BY <1>1, <1>2 DEF RowsKnown, RemoveOK
<1>6. RowHere(h)'
  BY <1>1, <1>2 DEF RowsKnown, RowHere
<1> QED BY <1>3, <1>4, <1>5, <1>6 DEF RowsKnown

\* Nothing is claimed for a request at one of these steps.
LEMMA NothingKnown ==
  ASSUME NEW h \in Handler,
         req[h].pc \in {"idle", "info", "count", "list", "next", "found", "delservice", "check",
                        "insert", "read", "snapshot", "setinstances"}
  PROVE  RowsKnown(h)
BY DEF RowsKnown, DeployOK, RowsOK, RemoveOK, RowHere

\* What is known for the others stays known.
LEMMA OthersKnown ==
  ASSUME RowsInv, NEW h \in Handler, OwnStep(h), NEW o \in Handler, o # h
  PROVE  RowsKnown(o)'
<1> DEFINE n == req[o].name
<1>0. /\ Machine /\ GoodRequest(req[o]) /\ GoodRequest(req[h]) /\ n \in Name /\ OpOK(req[o])
      /\ RowsKnown(o) /\ Apart(n)
  BY DEF RowsInv, Machine, GoodRequest, Request
<1>1. Like(req'[o], req[o]) /\ req'[o].alone = req[o].alone
  BY <1>0, OwnMove
<1>2. CASE n # req[h].name
  BY <1>0, <1>1, <1>2, OwnFrame, Carried DEF Same
<1>3. CASE req[h].pc \in {"count", "list", "next"}
  <2>1. suspect \subseteq suspect' /\ raced \subseteq raced'
        /\ UNCHANGED <<placed, instances, deployment, service, answered>>
    BY <1>0, <1>3, QuietGhosts DEF rows, cluster
  <2> QED BY <1>0, <1>1, <2>1, Carried
<1>4. CASE req[o].pc \in {"idle", "count", "list", "next"}
  <2>1. req'[o].pc = req[o].pc
    BY <1>1 DEF Like
  <2> QED BY <1>4, <2>1 DEF RowsKnown, DeployOK, RowsOK, RemoveOK, RowHere
<1>5. CASE /\ n = req[h].name /\ req[h].pc \notin {"count", "list", "next"}
           /\ req[o].pc \notin {"idle", "count", "list", "next"}
  <2>1. At(req[o], n) /\ At(req[h], n)
    BY <1>0, <1>5, AtName, OwnBusy
  <2>2. /\ n \in suspect /\ ~req[o].alone /\ ~req[h].alone
        /\ req[o].op \in Deleting \/ req[h].op \in Deleting => n \in raced
    BY <1>0, <2>1 DEF Apart
  <2>3. n \in suspect' /\ (n \in raced => n \in raced')
    BY <1>0, <2>2, OwnFrame
  <2>4. /\ req'[o].pc = req[o].pc /\ req'[o].name = n /\ ~req'[o].alone
    BY <1>1, <2>2 DEF Like
  <2>5. ~Sole(o)'
    BY <2>3, <2>4 DEF Sole
  <2>6. req[o].pc \in {"deldeployment", "delrow", "delagain"} => n \in raced'
    BY <1>0, <2>2, <2>3 DEF OpOK, Deleting
  <2>7. n \notin raced' /\ n \in placed => n \in placed'
    BY <1>0, <2>2, <2>3, OwnFrame
  <2>8. RowHere(o)'
    BY <1>0, <2>3, <2>4, <2>7 DEF RowHere, RowsKnown
  <2> QED BY <2>3, <2>4, <2>5, <2>6, <2>8 DEF RowsKnown, DeployOK, RowsOK, RemoveOK
<1> QED BY <1>2, <1>3, <1>4, <1>5

\* How requests go on with their filters.
LEMMA FilterGoes ==
  ASSUME Machine, NEW h \in Handler, GetVirtualService(h) \/ PutVirtualService(h) \/ SetTokenObject(h)
  PROVE  /\ req[h].pc \in {"filter", "put"}
         /\ \/ req'[h] = TaskDone(h)
            \/ PutVirtualService(h) /\ ~VersionIsLast(h) /\ req'[h] = TaskFailed(h)
            \/ /\ GetVirtualService(h) /\ vs[First(h).object] # NoService
               /\ req'[h] = [req[h] EXCEPT !.pc = "put", !.copy = vs[First(h).object], !.fresh = TRUE]
         /\ PutVirtualService(h) /\ VersionIsLast(h) => req'[h] = TaskDone(h)
         /\ req'[h].pc \in {"filter", "put", "answer"} /\ req'[h].instances = req[h].instances
<1>0. /\ GoodRequest(req[h]) /\ req[h] \in Request /\ TodoOK(req[h]) /\ req \in [Handler -> Request]
      /\ req[h].pc \in {"filter", "put"}
  BY DEF Machine, TypeOK, GoodRequest, GetVirtualService, PutVirtualService, SetTokenObject
<1>d. /\ TaskDone(h).pc \in {"filter", "answer"} /\ TaskFailed(h).pc \in {"filter", "answer"}
      /\ TaskDone(h).instances = req[h].instances /\ TaskFailed(h).instances = req[h].instances
      /\ TaskDone(h) \in Request
  <2>1. TaskDone(h).pc \in {"filter", "answer"} /\ TaskDone(h).instances = req[h].instances
        /\ TaskDone(h) \in Request
    BY <1>0, DoneIs, DoneRest
  <2>2. TaskFailed(h).pc \in {"filter", "answer"} /\ TaskFailed(h).instances = req[h].instances
    BY <1>0, FailedIs
  <2> QED BY <2>1, <2>2
<1>1. PutVirtualService(h) /\ VersionIsLast(h) => req'[h] = TaskDone(h)
  <2> SUFFICES ASSUME PutVirtualService(h), VersionIsLast(h) PROVE req'[h] = TaskDone(h)
    OBVIOUS
  <2> DEFINE reqs == [req EXCEPT ![h] = TaskDone(h)]
  <2>1. reqs \in [Handler -> Request] /\ reqs[h] = TaskDone(h)
    BY <1>0, <1>d
  <2>2. req' = Outdated(reqs, First(h).object)
    BY DEF PutVirtualService
  <2> HIDE DEF reqs
  <2> QED BY <1>d, <2>1, <2>2, OutdatedIs
<1>2. PutVirtualService(h) /\ ~VersionIsLast(h) => req'[h] = TaskFailed(h)
  BY <1>0 DEF PutVirtualService
<1>3. SetTokenObject(h) => req'[h] = TaskDone(h)
  BY <1>0 DEF SetTokenObject
<1>4. GetVirtualService(h) =>
        \/ req'[h] = TaskDone(h)
        \/ /\ vs[First(h).object] # NoService
           /\ req'[h] = [req[h] EXCEPT !.pc = "put", !.copy = vs[First(h).object], !.fresh = TRUE]
  BY <1>0 DEF GetVirtualService
<1>5. \A v : LET r == [req[h] EXCEPT !.pc = "put", !.copy = v, !.fresh = TRUE]
             IN  r.pc = "put" /\ r.instances = req[h].instances
  BY <1>0 DEF Request
<1> QED BY <1>0, <1>1, <1>2, <1>3, <1>4, <1>d, <1>5

\* How requests go on after an error nobody looked at.
LEMMA IgnoredGoes ==
  ASSUME Machine, NEW h \in Handler, ErrorIgnored(h)
  PROVE  /\ \/ req[h].pc = "scale" /\ req'[h] = NoRequest
            \/ req[h].pc = "service" /\ req'[h].pc \in {"filter", "answer"}
            \/ req[h].pc = "delservice" /\ req'[h].pc = "deldeployment"
            \/ req[h].pc = "deldeployment" /\ req'[h].pc = "delrow"
         /\ req'[h] = NoRequest \/ (req'[h].name = req[h].name /\ ~req'[h].alone)
<1>0. /\ GoodRequest(req[h]) /\ req[h] \in Request /\ OpOK(req[h]) /\ req \in [Handler -> Request]
  BY DEF Machine, TypeOK, GoodRequest
<1>1. CASE req[h].pc = "service"
  <2> DEFINE on == [req[h] EXCEPT !.alone = FALSE, !.pc = "filter"]
             todo == Installations(FiltersOf[req[h].release], req[h].name)
             r == [on EXCEPT !.todo = todo]
  <2>0. Unchecked[req[h].pc] = "filter"
    BY <1>1 DEF Unchecked
  <2>1. req'[h] = Proceed(r, "install")
    BY <1>0, <1>1, <2>0 DEF ErrorIgnored
  <2>2. todo \in Seq(Task)
    BY <1>0, InstallationsAre DEF Request
  <2> HIDE DEF todo
  <2>3. r \in Request /\ ~r.alone /\ r.name = req[h].name
    BY <1>0, <2>2 DEF Request, Begun
  <2> HIDE DEF r
  <2>4. LET p == Proceed(r, "install")
        IN  Rest(p, r) /\ p.pc = IF p.todo = <<>> THEN "answer" ELSE "filter"
    BY <2>3, ProceedIs
  <2> QED BY <1>1, <2>1, <2>3, <2>4 DEF Rest
<1>2. CASE req[h].pc = "scale"
  BY <1>0, <1>2 DEF ErrorIgnored
<1>3. ASSUME NEW pc \in {"deldeployment", "delrow"},
             req[h].pc = IF pc = "delrow" THEN "deldeployment" ELSE "delservice"
      PROVE  req'[h].pc = pc /\ req'[h].name = req[h].name /\ ~req'[h].alone
  <2>1. Unchecked[req[h].pc] = pc
    BY <1>3 DEF Unchecked
  <2>2. req'[h] = [req[h] EXCEPT !.alone = FALSE, !.pc = pc]
    BY <1>0, <1>3, <2>1 DEF ErrorIgnored
  <2> QED BY <1>0, <2>2 DEF Request
<1>4. CASE req[h].pc = "delservice"
  BY <1>3, <1>4
<1>5. CASE req[h].pc = "deldeployment"
  BY <1>3, <1>5
<1> QED BY <1>1, <1>2, <1>4, <1>5 DEF ErrorIgnored, Unchecked

\* The release of a request that is at work, and who else is.
LEMMA OwnRuns ==
  ASSUME RowsInv, NEW h \in Handler, OwnStep(h), NEW n \in Name, n = req[h].name
  PROVE  RowsKnown(h)' /\ RunsOK(n)' /\ RowLast(n)'
<1>0. /\ Machine /\ GoodRequest(req[h]) /\ OpOK(req[h]) /\ TodoOK(req[h]) /\ req[h] \in Request
      /\ n \in Name /\ req[h].release \in Release /\ StateOK /\ req[h].pc # "idle"
      /\ req \in [Handler -> Request]
  BY TypeIs, OwnBusy DEF RowsInv, Machine, GoodRequest, Request
<1>k. DeployOK(h) /\ RowsOK(h) /\ RemoveOK(h) /\ RowHere(h) /\ RunsOK(n) /\ RowLast(n) /\ Apart(n)
  BY <1>0 DEF RowsInv, RowsKnown
<1>n. NoRequest.pc = "idle"
  BY DEF NoRequest
<1>q. /\ Refuse(h) => req'[h].pc = "idle" /\ UNCHANGED <<answered, suspect, raced>>
      /\ \A pc : To(h, pc) => req'[h].pc = pc /\ req'[h].name = n /\ UNCHANGED <<answered, suspect, raced>>
  BY <1>0, <1>n DEF Refuse, To, Request, ghosts
<1>v. ASSUME req'[h].pc \in {"idle", "info", "count", "list", "next", "found", "delservice", "check",
                             "insert", "read", "snapshot", "setinstances"}
      PROVE  RowsKnown(h)'
  BY <1>v DEF RowsKnown, DeployOK, RowsOK, RemoveOK, RowHere
\* As long as only what runs changes, by a request that did not begin ...
<1>u. ASSUME req[h].pc \notin Mid, n \notin suspect,
             \A g \in Handler : req'[g].name = n => req'[g].pc \notin Mid
      PROVE  Runs(n)
  <2>1. \A g \in Handler : g # h => req'[g].pc = req[g].pc /\ req'[g].name = req[g].name
    BY <1>0, OwnMove DEF Like
  <2>2. \A g \in Handler : req[g].name = n => req[g].pc \notin Mid
    BY <1>u, <2>1
  <2> QED BY <1>k, <1>u, <2>2 DEF RunsOK
<1>w. ASSUME Same(n), req[h].pc \notin Mid PROVE RunsOK(n)'
  BY <1>u, <1>w DEF RunsOK, Runs, Same
<1>x. ASSUME req'[h].name = n, req'[h].pc \in Mid PROVE RunsOK(n)'
  BY <1>x DEF RunsOK
<1>y. ASSUME n \in suspect' PROVE RunsOK(n)'
  BY <1>y DEF RunsOK
<1>l. ASSUME (n \in raced') = (n \in raced), (n \in placed') = (n \in placed),
             deployment'[n] = deployment[n], service'[n] = service[n]
      PROVE  RowLast(n)'
  BY <1>k, <1>l DEF RowLast
<1>e. ASSUME Error(h), UNCHANGED <<rows, cluster>> PROVE RowsKnown(h)' /\ RunsOK(n)' /\ RowLast(n)'
  <2>1. req'[h].pc \in {"idle", "next"}
    <3>1. NoteError(h) \/ Fail(h)
      BY <1>e DEF Error, DeletionFailed
    <3>2. NoteError(h) => req'[h].pc = "next"
      BY <1>0 DEF NoteError, Request
    <3>3. Fail(h) => req'[h] = NoRequest
      BY <1>0 DEF Fail
    <3> QED BY <1>n, <3>1, <3>2, <3>3
  <2>2. /\ UNCHANGED <<placed, instances, deployment, service, answered, raced>>
        /\ suspect' = IF req[h].pc \in Begun THEN suspect \union {n} ELSE suspect
    BY <1>0, <1>e, ErrorGhosts DEF rows, cluster
  <2>3. RunsOK(n)'
    <3>1. CASE req[h].pc \in Begun
      BY <1>y, <2>2, <3>1
    <3>2. CASE req[h].pc \notin Begun
      <4>1. Same(n) /\ req[h].pc \notin Mid
        BY <2>2, <3>2 DEF Same, Mid, Begun
      <4> QED BY <1>w, <4>1
    <3> QED BY <3>1, <3>2
  <2> QED BY <1>v, <1>l, <2>1, <2>2, <2>3
\* ... a step that reads only,
<1>s. ASSUME UNCHANGED <<rows, cluster, answered, suspect, raced>>, req[h].pc \notin Mid
      PROVE  RunsOK(n)' /\ RowLast(n)'
  <2>1. Same(n)
    BY <1>s DEF Same, rows, cluster
  <2> QED BY <1>w, <1>l, <1>s, <2>1 DEF Same
<1>1. CASE \/ CheckDeployment(h) \/ DeploymentInfo(h) \/ CountDeployments(h)
           \/ DeletionAnswered(h) \/ IterationFails(h)
  <2>1. UNCHANGED <<rows, cluster, answered, suspect, raced>> /\ req[h].pc \notin Mid
    BY <1>1, <1>q DEF CheckDeployment, DeploymentInfo, CountDeployments, DeletionAnswered,
                       IterationFails, Mid
  <2>2. req'[h].pc \in {"idle", "insert", "found", "list"}
    BY <1>1, <1>q DEF CheckDeployment, DeploymentInfo, CountDeployments, DeletionAnswered,
                       IterationFails
  <2> QED BY <1>s, <1>v, <2>1, <2>2
<1>2. CASE ListDeployments(h) \/ NextDeployment(h)
  <2>1. UNCHANGED <<rows, cluster, answered, suspect, raced>> /\ req[h].pc \notin Mid
    BY <1>2 DEF ListDeployments, NextDeployment, Mid, ghosts
  <2>2. ListDeployments(h) => req'[h].pc = "next"
    BY <1>0 DEF ListDeployments, Request
  <2>3. NextDeployment(h) => req'[h].pc = "found"
    BY <1>0 DEF NextDeployment, Request
  <2> QED BY <1>2, <1>s, <1>v, <2>1, <2>2, <2>3
<1>3. CASE SnapshotRow(h) \/ ReadDeployment(h)
  <2>1. UNCHANGED <<rows, cluster, answered, suspect, raced>> /\ req[h].pc \notin Mid
    BY <1>3, <1>q DEF SnapshotRow, ReadDeployment, Mid, ghosts
  <2>2. CASE Refuse(h)
    BY <1>q, <1>s, <1>v, <2>1, <2>2
  <2>3. CASE ~Refuse(h)
    <3>1. /\ req'[h].pc \in {"write", "exists"} /\ req'[h].name = n
          /\ req'[h].instances = instances[n] /\ n \in placed
      BY <1>0, <1>3, <2>3 DEF SnapshotRow, ReadDeployment, Request
    <3>2. n \in placed' /\ instances'[n] = instances[n]
      BY <2>1, <3>1 DEF rows
    <3>3. RowsKnown(h)'
      BY <3>1, <3>2 DEF RowsKnown, DeployOK, RowsOK, RemoveOK, RowHere
    <3> QED BY <1>s, <2>1, <3>3
  <2> QED BY <2>2, <2>3
<1>4. CASE DeploymentExists(h)
  <2>1. UNCHANGED <<rows, cluster, answered, suspect, raced>> /\ req[h].pc \notin Mid
    BY <1>4 DEF DeploymentExists, Mid, ghosts
  <2>2. /\ req[h].pc = "exists" /\ req'[h].pc = "deploy" /\ req'[h].name = n
        /\ req'[h].instances = req[h].instances /\ req'[h].alone = req[h].alone
    BY <1>0, <1>4 DEF DeploymentExists, Request
  <2>3. RowsKnown(h)'
    BY <1>k, <2>1, <2>2 DEF RowsKnown, DeployOK, RowsOK, RemoveOK, RowHere, Sole, rows
  <2> QED BY <1>s, <2>1, <2>3
<1>5. CASE ServiceExists(h)
  <2>1. UNCHANGED <<rows, cluster, answered, suspect, raced>>
    BY <1>5 DEF ServiceExists, ghosts
  <2>2. /\ req[h].pc = "serviceexists" /\ req'[h].pc = "service" /\ req'[h].name = n
        /\ req'[h].instances = req[h].instances /\ req'[h].alone = req[h].alone
        /\ req'[h].release = req[h].release /\ req'[h].seen = (service[n] # NoPort)
    BY <1>0, <1>5 DEF ServiceExists, Request
  <2>3. RowsKnown(h)'
    BY <1>k, <2>1, <2>2 DEF RowsKnown, DeployOK, RowsOK, RemoveOK, RowHere, Sole, rows, cluster
  <2>4. RunsOK(n)'
    BY <1>x, <2>2 DEF Mid
  <2> QED BY <1>l, <2>1, <2>3, <2>4 DEF rows, cluster
\* ... the steps about rows,
<1>6. CASE InsertDeployment(h)
  <2>1. /\ placed' = placed \union {n} /\ UNCHANGED <<deployment, service, answered, suspect, raced>>
        /\ n \in placed => instances' = instances
        /\ req[h].pc = "insert" /\ req'[h].pc = "idle"
    BY <1>6, <1>q DEF InsertDeployment, cluster
  <2>2. RunsOK(n)'
    BY <1>u, <2>1 DEF RunsOK, Runs, Mid
  <2>3. RowLast(n)'
    BY <2>1 DEF RowLast
  <2> QED BY <1>v, <2>1, <2>2, <2>3
<1>7. CASE UpdateRow(h)
  <2>1. /\ UNCHANGED <<placed, deployment, service, answered, suspect, raced>>
        /\ instances' = IF n \in placed THEN [instances EXCEPT ![n] = req[h].instances] ELSE instances
        /\ req[h].pc = "write" /\ req'[h].pc = "idle"
    BY <1>7, <1>q DEF UpdateRow, cluster
  <2>2. n \notin suspect => instances'[n] = instances[n]
    BY <1>0, <1>k, <2>1 DEF RowsOK, StateOK
  <2>3. RunsOK(n)'
    BY <1>u, <2>1, <2>2 DEF RunsOK, Runs, Mid
  <2> QED BY <1>l, <1>v, <2>1, <2>3
<1>8. CASE SetInstances(h)
  <2>1. /\ UNCHANGED <<placed, deployment, service, answered, suspect, raced>>
        /\ instances' = IF n \in placed THEN [instances EXCEPT ![n] = req[h].instances] ELSE instances
        /\ req[h].pc = "setinstances" /\ req'[h].pc = "scale" /\ req'[h].name = n
    BY <1>8, <1>q DEF SetInstances, cluster
  <2>2. req'[h].instances = req[h].instances
    BY <1>0, <1>8 DEF SetInstances, To, Request
  <2>3. RunsOK(n)'
    BY <1>x, <2>1 DEF Mid
  <2>4. n \notin suspect => Runs(n)
    <3> SUFFICES ASSUME n \notin suspect PROVE Runs(n)
      OBVIOUS
    <3>1. At(req[h], n)
      BY <1>0, <2>1, AtName
    <3>2. ASSUME NEW g \in Handler, req[g].name = n, req[g].pc \in Mid PROVE FALSE
      <4>1. g # h
        BY <2>1, <3>2 DEF Mid
      <4>2. GoodRequest(req[g])
        BY <1>0 DEF Machine
      <4>3. At(req[g], n)
        BY <3>2, <4>2, AtName DEF Mid
      <4> QED BY <1>k, <3>1, <4>1, <4>3 DEF Apart
    <3> QED BY <1>k, <3>2 DEF RunsOK
  <2>5. n \in placed => instances'[n] = req[h].instances
    BY <1>0, <2>1 DEF StateOK
  <2>6. RowsOK(h)'
    BY <2>1, <2>2, <2>4, <2>5 DEF RowsOK, Runs
  <2>7. DeployOK(h)' /\ RemoveOK(h)' /\ RowHere(h)'
    BY <2>1 DEF DeployOK, RemoveOK, RowHere
  <2> QED BY <1>l, <2>1, <2>3, <2>6, <2>7 DEF RowsKnown
<1>9. CASE Scale(h)
  <2>1. /\ UNCHANGED <<placed, instances, service, answered, suspect, raced>>
        /\ deployment' = IF deployment[n].release = NoRelease THEN deployment
                         ELSE [deployment EXCEPT ![n].replicas = req[h].instances]
        /\ req[h].pc = "scale" /\ req'[h].pc = "idle"
    BY <1>9, <1>q DEF Scale, rows
  <2>2. deployment[n] \in Deployment
    BY <1>0 DEF StateOK
  <2>3. deployment'[n].release = deployment[n].release
    BY <1>0, <2>1, <2>2 DEF StateOK, Deployment
  <2>4. deployment[n].release # NoRelease =>
          deployment'[n] = [release |-> deployment[n].release, replicas |-> req[h].instances]
    BY <1>0, <2>1, <2>2 DEF StateOK, Deployment
  <2>5. answered[n] # NoRelease /\ deployment[n].release = answered[n] => deployment[n].release # NoRelease
    OBVIOUS
  <2>6. RunsOK(n)'
    BY <1>k, <2>1, <2>3, <2>4 DEF RunsOK, Runs, RowsOK
  <2>7. RowLast(n)'
    BY <1>k, <2>1, <2>3 DEF RowLast
  <2> QED BY <1>v, <2>1, <2>6, <2>7
\* ... a deployment,
<1>10. CASE WriteDeployment(h)
  <2>1. CASE Error(h) /\ deployment' = deployment
    BY <1>10, <1>e, <2>1 DEF WriteDeployment, cluster
  <2>2. CASE ~(Error(h) /\ deployment' = deployment)
    <3> DEFINE pc == IF PortOf[req[h].release] = NoPort THEN "answer" ELSE "serviceexists"
    <3>1. /\ deployment' = [deployment EXCEPT
                ![n] = [release |-> req[h].release, replicas |-> req[h].instances]]
          /\ To(h, pc) /\ req[h].pc = "deploy"
          /\ UNCHANGED <<placed, instances, service>>
      BY <1>10, <2>2 DEF WriteDeployment, rows
    <3>2. req'[h].pc = pc /\ req'[h].name = n /\ UNCHANGED <<answered, suspect, raced>>
      BY <1>q, <3>1
    <3>3. /\ req'[h].release = req[h].release /\ req'[h].instances = req[h].instances
          /\ req'[h].alone = req[h].alone
      BY <1>0, <3>1 DEF To, Request
    <3>4. deployment'[n] = [release |-> req[h].release, replicas |-> req[h].instances]
      BY <1>0, <3>1 DEF StateOK
    <3>5. RowsKnown(h)'
      BY <1>k, <3>1, <3>2, <3>3, <3>4 DEF RowsKnown, DeployOK, RowsOK, RemoveOK, RowHere, Sole
    <3>6. RunsOK(n)'
      BY <1>x, <3>2 DEF Mid
    <3>7. RowLast(n)'
      BY <1>k, <3>1, <3>2 DEF RowLast, RowHere
    <3> QED BY <3>5, <3>6, <3>7
  <2> QED BY <2>1, <2>2
<1>11. CASE WriteService(h)
  <2>1. CASE Error(h) /\ service' = service
    BY <1>11, <1>e, <2>1 DEF WriteService, cluster
  <2>2. CASE ~(Error(h) /\ service' = service)
    <3> DEFINE r == [req[h] EXCEPT !.todo = Installations(FiltersOf[req[h].release], n)]
    <3>1. /\ service' = IF req[h].seen \/ service[n] = NoPort
                        THEN [service EXCEPT ![n] = PortOf[req[h].release]] ELSE service
          /\ req[h].pc = "service" /\ UNCHANGED <<placed, instances, deployment, answered, suspect, raced>>
      BY <1>11, <2>2 DEF WriteService, rows
    <3>2. req'[h] = Proceed(r, "install")
      BY <1>0, <1>11, <2>2 DEF WriteService
    <3>3. Rest(req'[h], req[h]) /\ GoodRequest(req'[h])
      BY <1>0, <3>1, <3>2, ServicedGood
    <3>4. req'[h].pc \in {"filter", "answer"}
      <4>1. r \in Request
        <5>1. Installations(FiltersOf[req[h].release], n) \in Seq(Task)
          BY <1>0, InstallationsAre
        <5> QED BY <1>0, <5>1 DEF Request
      <4> QED BY <3>2, <4>1, ProceedIs
    <3>5. Sole(h) => service'[n] = PortOf[req[h].release]
      BY <1>0, <1>k, <3>1 DEF DeployOK, StateOK
    <3>6. RowsKnown(h)'
      BY <1>k, <3>1, <3>3, <3>4, <3>5 DEF Rest, RowsKnown, DeployOK, RowsOK, RemoveOK, RowHere, Sole
    <3>7. RunsOK(n)'
      BY <1>x, <3>3, <3>4 DEF Rest, Mid
    <3>8. RowLast(n)'
      BY <1>k, <3>1 DEF RowLast, RowHere
    <3> QED BY <3>6, <3>7, <3>8
  <2> QED BY <2>1, <2>2
\* ... its filters,
<1>f. ASSUME UNCHANGED <<rows, cluster, answered, suspect, raced>>, req[h].pc \in {"filter", "put"},
             req'[h].pc \in {"filter", "put", "answer"}, GoesOn(req'[h], req[h]),
             req'[h].instances = req[h].instances
      PROVE  RowsKnown(h)' /\ RunsOK(n)' /\ RowLast(n)'
  <2>1. req'[h].name = n /\ req'[h].release = req[h].release /\ (Sole(h)' => Sole(h))
    BY <1>f DEF GoesOn, Sole
  <2>2. RowsKnown(h)'
    BY <1>k, <1>f, <2>1 DEF RowsKnown, DeployOK, RowsOK, RemoveOK, RowHere, rows, cluster
  <2>3. RunsOK(n)'
    BY <1>f, <1>x, <2>1 DEF Mid
  <2> QED BY <1>f, <1>l, <2>2, <2>3 DEF rows, cluster
<1>d. ASSUME req[h].pc \in {"filter", "put"}
      PROVE  /\ TaskDone(h).pc \in {"filter", "answer"} /\ TaskFailed(h).pc \in {"filter", "answer"}
             /\ TaskDone(h).instances = req[h].instances /\ TaskFailed(h).instances = req[h].instances
             /\ TaskDone(h) # NoRequest /\ TaskFailed(h) # NoRequest
  <2>1. TaskDone(h).pc \in {"filter", "answer"} /\ TaskDone(h).instances = req[h].instances
    BY <1>0, <1>d, DoneIs, DoneRest
  <2>2. TaskFailed(h).pc \in {"filter", "answer"} /\ TaskFailed(h).instances = req[h].instances
    BY <1>0, <1>d, FailedIs
  <2> QED BY <1>n, <2>1, <2>2
<1>12. CASE GetVirtualService(h) \/ PutVirtualService(h) \/ SetTokenObject(h)
  <2>0. req[h].pc \in {"filter", "put"} /\ UNCHANGED <<rows, cluster, answered, suspect, raced>>
    BY <1>12 DEF GetVirtualService, PutVirtualService, SetTokenObject, ghosts
  <2>1. req'[h].pc \in {"filter", "put", "answer"} /\ req'[h].instances = req[h].instances
    BY <1>0, <1>12, <1>d, <2>0, FilterGoes
  <2>2. GoesOn(req'[h], req[h])
    BY <1>0, <1>n, <2>1, OwnGoes
  <2> QED BY <1>f, <2>0, <2>1, <2>2
<1>13. CASE Answer(h)
  <2>1. /\ answered' = [answered EXCEPT ![n] = req[h].release] /\ req[h].pc = "answer"
        /\ suspect' = IF req[h].alone THEN suspect \ {n} ELSE suspect
        /\ UNCHANGED <<placed, instances, deployment, service, raced>>
    BY <1>13 DEF Answer, rows, cluster
  <2>2. req'[h].pc = "idle"
    BY <1>0, <1>n, <1>13 DEF Answer
  <2>3. answered'[n] = req[h].release /\ req[h].release # NoRelease
    BY <1>0, <2>1, Constants DEF StateOK
  <2>4. n \notin suspect' => Sole(h)
    BY <2>1 DEF Sole
  <2>5. RunsOK(n)'
    BY <1>k, <2>1, <2>3, <2>4 DEF RunsOK, Runs, DeployOK
  <2> QED BY <1>l, <1>v, <2>1, <2>2, <2>5
\* ... a deletion,
<1>14. CASE DeploymentFound(h)
  <2>1. CASE Error(h)
    BY <1>14, <1>e, <2>1 DEF DeploymentFound
  <2>2. CASE To(h, "delservice")
    <3>1. req'[h].pc = "delservice" /\ UNCHANGED <<rows, cluster, answered, suspect, raced>>
      BY <1>14, <1>q, <2>2 DEF DeploymentFound
    <3>2. req[h].pc \notin Mid
      BY <1>14 DEF DeploymentFound, Mid
    <3> QED BY <1>s, <1>v, <3>1, <3>2
  <2> QED BY <1>14, <2>1, <2>2 DEF DeploymentFound
<1>15. CASE DeleteService(h)
  <2>1. /\ service' = [service EXCEPT ![n] = NoPort] /\ req'[h].pc = "deldeployment" /\ req'[h].name = n
        /\ UNCHANGED <<placed, instances, deployment, answered, suspect, raced>>
    BY <1>15, <1>q DEF DeleteService, rows
  <2>2. service'[n] = NoPort
    BY <1>0, <2>1 DEF StateOK
  <2>3. RowsKnown(h)'
    BY <2>1, <2>2 DEF RowsKnown, DeployOK, RowsOK, RemoveOK, RowHere
  <2>4. RunsOK(n)'
    BY <1>x, <2>1 DEF Mid
  <2>5. RowLast(n)'
    BY <1>k, <2>1, <2>2 DEF RowLast
  <2> QED BY <2>3, <2>4, <2>5
<1>16. CASE DeleteDeployment(h)
  <2>1. /\ deployment' = [deployment EXCEPT ![n] = NoDeployment]
        /\ req[h].pc = "deldeployment" /\ req'[h].pc = "delrow" /\ req'[h].name = n
        /\ UNCHANGED <<placed, instances, service, answered, suspect, raced>>
    BY <1>16, <1>q DEF DeleteDeployment, rows
  <2>2. deployment'[n].release = NoRelease
    BY <1>0, <2>1, Constants DEF StateOK
  <2>3. req'[h].alone = req[h].alone
    BY <1>0, <1>16 DEF DeleteDeployment, To, Request
  <2>4. RowsKnown(h)'
    BY <1>k, <2>1, <2>2, <2>3 DEF RowsKnown, DeployOK, RowsOK, RemoveOK, RowHere, Sole
  <2>5. RunsOK(n)'
    BY <1>x, <2>1 DEF Mid
  <2>6. RowLast(n)'
    BY <1>k, <2>1, <2>2 DEF RowLast
  <2> QED BY <2>4, <2>5, <2>6
<1>17. CASE DeleteRow(h)
  <2>1. /\ req[h].pc = "delrow" /\ placed' = placed \ {n}
        /\ answered' = [answered EXCEPT ![n] = NoRelease]
        /\ suspect' = IF req[h].alone THEN suspect \ {n} ELSE suspect
        /\ raced' = IF req[h].alone THEN raced \ {n} ELSE raced
        /\ UNCHANGED <<deployment, service>>
    BY <1>17 DEF DeleteRow, RemoveRow, cluster
  <2>2. \/ req'[h].pc = "idle"
        \/ req'[h].pc = "delagain" /\ req'[h].name = n /\ req'[h].alone = req[h].alone
    BY <1>0, <1>n, <1>17 DEF DeleteRow, Request
  <2>3. answered'[n] = NoRelease
    BY <1>0, <2>1 DEF StateOK
  <2>4. (n \notin suspect' => Sole(h)) /\ (n \notin raced' => Sole(h) \/ n \notin raced)
    BY <2>1 DEF Sole
  <2>5. Sole(h) \/ n \notin raced => service[n] = NoPort /\ deployment[n].release = NoRelease
    BY <1>k, <2>1 DEF RemoveOK
  <2>6. RunsOK(n)' /\ RowLast(n)'
    BY <2>1, <2>3, <2>4, <2>5 DEF RunsOK, Runs, RowLast
  <2>7. CASE req'[h].pc = "idle"
    BY <1>v, <2>6, <2>7
  <2>8. CASE req'[h].pc = "delagain" /\ req'[h].name = n /\ req'[h].alone = req[h].alone
    <3>1. Sole(h)' => Sole(h)
      BY <2>4, <2>8 DEF Sole
    <3>2. RowsKnown(h)'
      BY <2>1, <2>3, <2>4, <2>5, <2>8, <3>1 DEF RowsKnown, DeployOK, RowsOK, RemoveOK, RowHere
    <3> QED BY <2>6, <3>2
  <2> QED BY <2>2, <2>7, <2>8
<1>18. CASE DeleteRowAgain(h)
  <2>1. /\ req[h].pc = "delagain" /\ req'[h].pc = "next"
        /\ UNCHANGED <<deployment, service, answered, suspect, raced>>
    BY <1>18, <1>q DEF DeleteRowAgain, cluster
  <2>2. /\ n \notin suspect => /\ answered[n] = NoRelease /\ service[n] = NoPort
                               /\ deployment[n].release = NoRelease
        /\ n \notin raced => service[n] = NoPort /\ deployment[n].release = NoRelease
    BY <1>k, <2>1 DEF RowsOK, RemoveOK, Sole
  <2>3. RunsOK(n)' /\ RowLast(n)'
    BY <2>1, <2>2 DEF RunsOK, Runs, RowLast
  <2> QED BY <1>v, <2>1, <2>3
\* ... and what goes wrong.
<1>19. CASE RequestFailure(h)
  <2>1. CASE req[h].pc \in {"filter", "put"}
    <3>1. req'[h] = TaskFailed(h) /\ UNCHANGED <<rows, cluster, answered, suspect, raced>>
      BY <1>0, <1>19, <2>1 DEF RequestFailure, ghosts
    <3>2. GoesOn(req'[h], req[h])
      BY <1>0, <1>d, <2>1, <3>1, OwnGoes
    <3> QED BY <1>d, <1>f, <2>1, <3>1, <3>2
  <2>2. CASE req[h].pc \notin {"filter", "put"}
    BY <1>19, <1>e, <2>2 DEF RequestFailure
  <2> QED BY <2>1, <2>2
<1>20. CASE ErrorIgnored(h)
  <2>1. /\ suspect' = suspect \union {n} /\ UNCHANGED <<placed, instances, deployment, service, answered>>
        /\ raced' = IF req[h].op \in Deleting THEN raced \union {n} ELSE raced
    BY <1>20 DEF ErrorIgnored, rows, cluster
  <2>2. \/ req'[h].pc \in {"idle", "filter", "answer"}
        \/ req'[h].pc \in {"deldeployment", "delrow"} /\ req[h].op \in Deleting
    <3>1. \/ req[h].pc = "scale" /\ req'[h] = NoRequest
          \/ req[h].pc = "service" /\ req'[h].pc \in {"filter", "answer"}
          \/ req[h].pc = "delservice" /\ req'[h].pc = "deldeployment"
          \/ req[h].pc = "deldeployment" /\ req'[h].pc = "delrow"
      BY <1>0, <1>20, IgnoredGoes
    <3> QED BY <1>0, <1>n, <3>1 DEF OpOK
  <2>3. req'[h] = NoRequest \/ (req'[h].name = n /\ ~req'[h].alone)
    BY <1>0, <1>20, IgnoredGoes
  <2>4. RunsOK(n)' /\ RowLast(n)'
    BY <1>k, <1>y, <2>1 DEF RowLast
  <2>5. RowsKnown(h)'
    <3>1. CASE req'[h].pc = "idle"
      BY <1>v, <3>1
    <3>2. CASE req'[h].pc # "idle"
      <4>1. req'[h].name = n /\ ~req'[h].alone
        BY <1>n, <2>3, <3>2
      <4> QED BY <2>1, <2>2, <4>1, <3>2 DEF RowsKnown, DeployOK, RowsOK, RemoveOK, RowHere, Sole
    <3> QED BY <3>1, <3>2
  <2> QED BY <2>4, <2>5
<1> QED BY <1>1, <1>2, <1>3, <1>4, <1>5, <1>6, <1>7, <1>8, <1>9, <1>10, <1>11, <1>12, <1>13, <1>14,
           <1>15, <1>16, <1>17, <1>18, <1>19, <1>20 DEF OwnStep, Step

\* The invariant of rows holds at first and after every step.
LEMMA RowsInit == Init => RowsInv
<1> SUFFICES ASSUME Init PROVE RowsInv
  OBVIOUS
<1>1. Machine
  BY MachineInit
<1>2. \A h \in Handler : req[h].pc = "idle" /\ RowsKnown(h)
  <2>1. \A h \in Handler : req[h].pc = "idle"
    BY DEF Init, NoRequest
  <2> QED BY <2>1, NothingKnown
<1>3. \A n \in Name : Apart(n)
  BY <1>2 DEF Apart, At
<1>4. ASSUME NEW n \in Name PROVE RunsOK(n) /\ RowLast(n)
  <2>1. CASE n \in placed
    <3>1. deployment[n] = [NoDeployment EXCEPT !.release = FirstRelease]
          /\ service[n] = PortOf[FirstRelease] /\ instances[n] = NoDeployment.replicas
      BY <2>1 DEF Init
    <3>2. deployment[n] = [release |-> FirstRelease, replicas |-> NoDeployment.replicas]
      BY <3>1, Constants DEF Deployment
    <3>3. answered[n] = deployment[n].release
      BY DEF Init
    <3> QED BY <2>1, <3>1, <3>2, <3>3, Constants DEF RunsOK, Runs, RowLast
  <2>2. CASE n \notin placed
    <3>1. deployment[n] = NoDeployment /\ service[n] = NoPort
      BY <2>2 DEF Init
    <3>2. answered[n] = deployment[n].release
      BY DEF Init
    <3> QED BY <3>1, <3>2, Constants DEF RunsOK, Runs, RowLast
  <2> QED BY <2>1, <2>2
<1> QED BY <1>1, <1>2, <1>3, <1>4 DEF RowsInv

\* Every step keeps it: the request at work on a deployment knows its rows, the others were met.
LEMMA RowsStep == RowsInv /\ [Next]_vars => RowsInv'
<1> SUFFICES ASSUME RowsInv, [Next]_vars PROVE RowsInv'
  OBVIOUS
<1>0. /\ Machine /\ Machine' /\ \A n \in Name : Apart(n)' /\ RunsOK(n) /\ RowLast(n)
      /\ \A h \in Handler : RowsKnown(h) /\ GoodRequest(req[h]) /\ req[h].name \in Name
  BY MachineStep, ApartStep DEF RowsInv, Machine, GoodRequest, Request
<1>a. ASSUME \A n \in Name : RunsOK(n)' /\ RowLast(n)', \A h \in Handler : RowsKnown(h)'
      PROVE  RowsInv'
  BY <1>0, <1>a DEF RowsInv
<1>1. ASSUME NEW h \in Handler, OwnStep(h) PROVE RowsInv'
  <2>1. ASSUME NEW n \in Name PROVE RunsOK(n)' /\ RowLast(n)'
    <3>1. CASE n = req[h].name
      BY <1>1, <3>1, OwnRuns
    <3>2. CASE n # req[h].name
      <4>1. Same(n)
        BY <1>0, <1>1, <3>2, OwnFrame
      <4>2. \A g \in Handler : g # h => req'[g].pc = req[g].pc /\ req'[g].name = req[g].name
        BY <1>0, <1>1, OwnMove DEF Like
      <4>3. RunsOK(n)'
        BY <1>0, <3>2, <4>1, <4>2 DEF RunsOK, Runs, Same
      <4>4. RowLast(n)'
        BY <1>0, <4>1 DEF RowLast, Same
      <4> QED BY <4>3, <4>4
    <3> QED BY <3>1, <3>2
  <2>2. ASSUME NEW o \in Handler PROVE RowsKnown(o)'
    BY <1>0, <1>1, OwnRuns, OthersKnown
  <2> QED BY <1>a, <2>1, <2>2
<1>2. ASSUME NEW h \in Handler, Start(h) PROVE RowsInv'
  <2>1. PICK r : GoodRequest(r) /\ r.alone /\ r.pc \in Starting /\ Arrive(h, r)
    BY <1>2, StartIs
  <2>2. /\ Like(req'[h], r) /\ req[h].pc = "idle"
        /\ \A o \in Handler : o # h => Like(req'[o], req[o])
        /\ suspect \subseteq suspect' /\ raced \subseteq raced'
    BY <1>0, <2>1, ArriveMove
  <2>3. UNCHANGED <<placed, instances, deployment, service, answered>>
    BY <2>1 DEF Arrive, rows, cluster
  <2>4. RowsKnown(h)'
    <3>1. req'[h].pc \in Starting
      BY <2>1, <2>2 DEF Like
    <3> QED BY <3>1 DEF Starting, RowsKnown, DeployOK, RowsOK, RemoveOK, RowHere
  <2>5. \A o \in Handler : o # h => RowsKnown(o)'
    BY <1>0, <2>2, <2>3, Carried
  <2>6. ASSUME NEW n \in Name PROVE RunsOK(n)' /\ RowLast(n)'
    <3>1. \A g \in Handler : req[g].pc \in Mid => req'[g].pc = req[g].pc /\ req'[g].name = req[g].name
      BY <2>2 DEF Like, Mid
    <3>2. RunsOK(n)'
      BY <1>0, <2>2, <2>3, <3>1 DEF RunsOK, Runs
    <3> QED BY <1>0, <2>2, <2>3, <3>2 DEF RowLast
  <2> QED BY <1>a, <2>4, <2>5, <2>6
<1>3. CASE ((\E n \in Name : AppVirtualService(n)) \/ PublishSite) \/ UNCHANGED vars
  <2>1. /\ \A h \in Handler : Like(req'[h], req[h])
        /\ UNCHANGED <<placed, instances, deployment, service, answered, suspect, raced>>
    <3>1. CASE (\E n \in Name : AppVirtualService(n)) \/ PublishSite
      BY <1>0, <3>1, OutsideState DEF rows, cluster
    <3>2. CASE UNCHANGED vars
      BY <3>2 DEF vars, rows, cluster, ghosts, Like
    <3> QED BY <1>3, <3>1, <3>2
  <2>2. \A o \in Handler : RowsKnown(o)'
    BY <1>0, <2>1, Carried
  <2>3. ASSUME NEW n \in Name PROVE RunsOK(n)' /\ RowLast(n)'
    BY <1>0, <2>1 DEF RunsOK, Runs, RowLast, Like
  <2> QED BY <1>a, <2>2, <2>3
<1> QED BY <1>1, <1>2, <1>3 DEF Next, OwnStep

\* What was deployed last runs, once nobody is at work on it and nothing interfered
\* (RunsAsAnswered): requests that overlap are told apart from those that were alone.
THEOREM DeployedRuns == Spec => []RunsAsAnswered
<1>1. RowsInv => RunsAsAnswered
  <2> SUFFICES ASSUME RowsInv, NEW n \in Name, Settled(n) PROVE Runs(n)
    BY DEF RunsAsAnswered, Runs
  <2>1. ASSUME NEW h \in Handler, req[h].name = n, req[h].pc \in Mid PROVE FALSE
    <3>1. At(req[h], n)
      BY <2>1, AtName DEF RowsInv, Machine, Mid
    <3> QED BY <2>1, <3>1 DEF Settled, At, Mid, Begun
  <2> QED BY <2>1 DEF RowsInv, RunsOK, Settled
<1> QED BY <1>1, RowsInit, RowsStep, PTL DEF Spec

\* What is in Kubernetes has a row, by which it can be deleted again (RowIsDeletedLast),
\* however requests overlap and fail.
THEOREM RowsGoLast == Spec => []RowIsDeletedLast
<1>1. RowsInv => RowIsDeletedLast
  BY DEF RowsInv, RowLast, RowIsDeletedLast
<1> QED BY <1>1, RowsInit, RowsStep, PTL DEF Spec

-----------------------------------------------------------------------------
(* The deletion of an app. *)

\* Of the deployments listed all those are gone that were neither left nor noted, but for
\* the one that is being deleted.
AppOK(h) ==
  req[h].alone /\ req[h].pc \in AppLoop /\ req[h].op = "deleteapp" =>
    \A n \in req[h].listed : \/ n \in req[h].left \union req[h].errors
                             \/ n \notin placed
                             \/ n = req[h].name /\ req[h].pc \notin {"next", "delagain"}
AppInv == RowsInv /\ \A h \in Handler : AppOK(h)

\* The deletion of an app leaves none of the listed deployments but those it noted.
LEMMA OwnApp ==
  ASSUME AppInv, NEW h \in Handler, OwnStep(h)
  PROVE  AppOK(h)'
<1>0. /\ Machine /\ GoodRequest(req[h]) /\ OpOK(req[h]) /\ req[h] \in Request
      /\ req \in [Handler -> Request] /\ AppOK(h) /\ req[h].pc # "idle"
  BY OwnBusy DEF AppInv, RowsInv, Machine, TypeOK, GoodRequest
<1>1. req'[h] = NoRequest \/ GoesOn(req'[h], req[h])
  BY <1>0, OwnGoes
<1> SUFFICES ASSUME req'[h].alone, req'[h].pc \in AppLoop, req'[h].op = "deleteapp"
             PROVE  \A n \in req'[h].listed : \/ n \in req'[h].left \union req'[h].errors
                                              \/ n \notin placed'
                                              \/ /\ n = req'[h].name
                                                 /\ req'[h].pc \notin {"next", "delagain"}
  BY DEF AppOK
<1>2. req[h].op = "deleteapp" /\ req[h].alone
  BY <1>1 DEF GoesOn, NoRequest
<1>3. req[h].pc \in {"count", "list"} \union AppLoop
  BY <1>0, <1>2 DEF OpOK, Request, Begun, Unbegun, AppLoop, Deleting
<1>4. Error(h) => NoteError(h) \/ req'[h] = NoRequest
  BY <1>0 DEF Error, DeletionFailed, Fail
<1>5. req'[h] # NoRequest
  BY DEF NoRequest
<1>6. ASSUME NoteError(h), placed' = placed, req[h].pc \notin {"count", "list"} PROVE AppOK(h)'
  <2>1. /\ req'[h].left = req[h].left /\ req'[h].listed = req[h].listed
        /\ req'[h].errors = req[h].errors \union {req[h].name}
    BY <1>0, <1>6 DEF NoteError, Request
  <2> QED BY <1>0, <1>2, <1>3, <1>6, <2>1 DEF AppOK
<1>7. ASSUME NEW pc, To(h, pc), placed' = placed, pc # "next", pc # "delagain", req[h].pc \in AppLoop \ {"next", "delagain"}
      PROVE  AppOK(h)'
  <2>1. /\ req'[h].left = req[h].left /\ req'[h].listed = req[h].listed
        /\ req'[h].errors = req[h].errors /\ req'[h].name = req[h].name /\ req'[h].pc = pc
    BY <1>0, <1>7 DEF To, Request
  <2> QED BY <1>0, <1>2, <1>7, <2>1 DEF AppOK
<1>8. CASE CountDeployments(h)
  <2>1. Refuse(h) \/ To(h, "list")
    BY <1>8 DEF CountDeployments
  <2>2. req'[h].pc = "list"
    BY <1>0, <1>5, <2>1 DEF Refuse, To, Request
  <2> QED BY <2>2 DEF AppLoop
<1>9. CASE ListDeployments(h)
  BY <1>0, <1>9 DEF ListDeployments, Request
<1>10. CASE NextDeployment(h)
  <2>1. PICK n \in req[h].left :
          req' = [req EXCEPT ![h].pc = "found", ![h].name = n, ![h].left = @ \ {n}]
    BY <1>10 DEF NextDeployment
  <2>2. /\ req'[h].left = req[h].left \ {n} /\ req'[h].listed = req[h].listed
        /\ req'[h].errors = req[h].errors /\ req'[h].name = n /\ req'[h].pc = "found"
    BY <1>0, <2>1 DEF Request
  <2>3. placed' = placed /\ req[h].pc = "next"
    BY <1>10 DEF NextDeployment, rows
  <2> QED BY <1>0, <1>2, <2>2, <2>3 DEF AppOK, AppLoop
<1>11. CASE DeploymentFound(h)
  <2>1. placed' = placed /\ req[h].pc = "found" /\ (To(h, "delservice") \/ Error(h))
    BY <1>11 DEF DeploymentFound, rows
  <2>2. CASE To(h, "delservice")
    <3>1. AppOK(h)'
      BY <1>7, <2>1, <2>2 DEF AppLoop
    <3> QED BY <3>1 DEF AppOK
  <2>3. CASE Error(h)
    <3>1. NoteError(h)
      BY <1>0, <1>4, <1>5, <2>3 DEF Refuse
    <3>2. AppOK(h)'
      BY <1>6, <2>1, <3>1
    <3> QED BY <3>2 DEF AppOK
  <2> QED BY <2>1, <2>2, <2>3
<1>12. CASE DeleteService(h) \/ DeleteDeployment(h)
  <2>1. \/ To(h, "deldeployment") /\ req[h].pc = "delservice" /\ placed' = placed
        \/ To(h, "delrow") /\ req[h].pc = "deldeployment" /\ placed' = placed
    BY <1>12 DEF DeleteService, DeleteDeployment, rows
  <2>2. AppOK(h)'
    BY <1>7, <2>1 DEF AppLoop
  <2> QED BY <2>2 DEF AppOK
<1>13. CASE DeleteRow(h) \/ DeleteRowAgain(h)
  <2>1. placed' = placed \ {req[h].name} /\ req[h].pc \in {"delrow", "delagain"}
    BY <1>13 DEF DeleteRow, DeleteRowAgain, RemoveRow
  <2>2. /\ req'[h].left = req[h].left /\ req'[h].listed = req[h].listed
        /\ req'[h].errors = req[h].errors
    <3>1. CASE DeleteRow(h)
      BY <1>0, <1>2, <3>1 DEF DeleteRow, Request
    <3>2. CASE DeleteRowAgain(h)
      BY <1>0, <3>2 DEF DeleteRowAgain, To, Request
    <3> QED BY <1>13, <3>1, <3>2
  <2> QED BY <1>0, <1>2, <2>1, <2>2 DEF AppOK, AppLoop
<1>14. CASE RequestFailure(h)
  <2>1. placed' = placed /\ Error(h) /\ req[h].pc # "next"
    BY <1>3, <1>14 DEF RequestFailure, rows, AppLoop
  <2>2. NoteError(h) /\ req[h].pc \notin {"count", "list"}
    <3>1. ~Fail(h)
      BY <1>0, <1>5 DEF Fail
    <3> QED BY <2>1, <3>1 DEF Error, DeletionFailed
  <2>3. AppOK(h)'
    BY <1>6, <2>1, <2>2
  <2> QED BY <2>3 DEF AppOK
<1>15. CASE ErrorIgnored(h)
  BY <1>0, <1>5, <1>15, IgnoredGoes
<1>16. CASE DeletionAnswered(h) \/ IterationFails(h)
  BY <1>0, <1>5, <1>16 DEF DeletionAnswered, IterationFails, Refuse
<1>17. OwnStep(h) =>
         \/ CountDeployments(h) \/ ListDeployments(h) \/ NextDeployment(h) \/ DeploymentFound(h)
         \/ DeleteService(h) \/ DeleteDeployment(h) \/ DeleteRow(h) \/ DeleteRowAgain(h)
         \/ RequestFailure(h) \/ ErrorIgnored(h) \/ DeletionAnswered(h) \/ IterationFails(h)
  BY <1>3 DEF OwnStep, Step, AppLoop, CheckDeployment, InsertDeployment,
     SnapshotRow, UpdateRow, SetInstances, Scale, ReadDeployment, DeploymentExists,
     WriteDeployment, ServiceExists, WriteService, GetVirtualService, PutVirtualService,
     SetTokenObject, Answer, DeploymentInfo
<1> QED BY <1>8, <1>9, <1>10, <1>11, <1>12, <1>13, <1>14, <1>15, <1>16, <1>17

\* Who adds a row to an app that is being deleted was met.
LEMMA OthersApp ==
  ASSUME AppInv, NEW h \in Handler, OwnStep(h), NEW o \in Handler, o # h
  PROVE  AppOK(o)'
<1>0. /\ Machine /\ GoodRequest(req[o]) /\ OpOK(req[o]) /\ req[o] \in Request /\ AppOK(o)
      /\ GoodRequest(req[h]) /\ req[h].pc # "idle" /\ \A n \in Name : Apart(n)
  BY OwnBusy DEF AppInv, RowsInv, Machine, GoodRequest
<1>1. Like(req'[o], req[o]) /\ req'[o].alone = req[o].alone
  BY <1>0, OwnMove
<1> SUFFICES ASSUME req[o].alone, req[o].pc \in AppLoop, req[o].op = "deleteapp",
                    NEW n \in req[o].listed, n \in placed', n \notin placed
             PROVE  FALSE
  BY <1>0, <1>1 DEF AppOK, Like
<1>2. At(req[o], n) /\ n \in Name
  BY <1>0 DEF OpOK, At, AppLoop, Request
<1>3. n = req[h].name
  BY <1>0, <1>2, OwnFrame DEF Same
<1>4. CASE req[h].pc \in {"count", "list", "next"}
  BY <1>0, <1>4, QuietGhosts DEF rows
<1>5. CASE req[h].pc \notin {"count", "list", "next"}
  <2>1. At(req[h], n)
    BY <1>0, <1>3, <1>5, AtName
  <2> QED BY <1>0, <1>2, <2>1 DEF Apart
<1> QED BY <1>4, <1>5

\* The invariant of the deletion of apps holds at first,
LEMMA AppInit == Init => AppInv
<1> SUFFICES ASSUME Init PROVE AppInv
  OBVIOUS
<1>1. \A h \in Handler : req[h] = NoRequest
  BY DEF Init
<1>2. \A h \in Handler : req[h].pc \notin AppLoop
  <2>1. NoRequest.pc = "idle"
    BY DEF NoRequest
  <2> QED BY <1>1, <2>1 DEF AppLoop
<1> QED BY <1>2, RowsInit DEF AppInv, AppOK

\* ... and after every step.
LEMMA AppStep == AppInv /\ [Next]_vars => AppInv'
<1> SUFFICES ASSUME AppInv, [Next]_vars PROVE \A o \in Handler : AppOK(o)'
  BY RowsStep DEF AppInv
<1>0. Machine /\ \A h \in Handler : AppOK(h)
  BY DEF AppInv, RowsInv
<1>1. ASSUME NEW h \in Handler, OwnStep(h) PROVE \A o \in Handler : AppOK(o)'
  BY <1>1, OwnApp, OthersApp
<1>a. ASSUME NEW o \in Handler, Like(req'[o], req[o]), placed' = placed PROVE AppOK(o)'
  BY <1>0, <1>a DEF AppOK, Like
<1>2. ASSUME NEW h \in Handler, Start(h) PROVE \A o \in Handler : AppOK(o)'
  <2>1. PICK r : GoodRequest(r) /\ r.alone /\ r.pc \in Starting /\ Arrive(h, r)
    BY <1>2, StartIs
  <2>2. Like(req'[h], r) /\ \A o \in Handler : o # h => Like(req'[o], req[o])
    BY <1>0, <2>1, ArriveMove
  <2>3. placed' = placed
    BY <2>1 DEF Arrive, rows
  <2>4. AppOK(h)'
    BY <2>1, <2>2 DEF AppOK, Like, Starting, AppLoop
  <2> QED BY <1>a, <2>2, <2>3, <2>4
<1>3. CASE (\E n \in Name : AppVirtualService(n)) \/ PublishSite
  BY <1>0, <1>3, <1>a, OutsideState DEF rows
<1>4. CASE UNCHANGED vars
  BY <1>4, <1>a DEF vars, rows, Like
<1> QED BY <1>1, <1>2, <1>3, <1>4 DEF Next, OwnStep

\* What the deletion of an app answers as deleted is gone, rows and all there was in
\* Kubernetes, however many deployments it had, in whatever order it met them and
\* whatever failed; only if its deletion met others, or a status that nobody looked at
\* refused something, may something be left (DeletedAppIsGone).
THEOREM AppsAreGone == Spec => DeletedAppIsGone
<1> DEFINE A == \A h \in Handler :
       req[h].op = "deleteapp" /\ req[h].pc = "next" /\ req'[h].pc = "idle" /\ req[h].alone
       => \A n \in req[h].listed \ (req[h].left \union req[h].errors) :
            /\ n \notin placed
            /\ n \notin raced => deployment[n].release = NoRelease /\ service[n] = NoPort
<1>1. ASSUME AppInv PROVE A
  <2> SUFFICES ASSUME NEW h \in Handler, req[h].op = "deleteapp", req[h].pc = "next",
                      req[h].alone, NEW n \in req[h].listed \ (req[h].left \union req[h].errors)
               PROVE  /\ n \notin placed
                      /\ n \notin raced => deployment[n].release = NoRelease /\ service[n] = NoPort
    OBVIOUS
  <2>1. AppOK(h) /\ n \in Name
    BY <1>1 DEF AppInv, RowsInv, Machine, TypeOK, Request
  <2>2. n \notin placed
    BY <2>1 DEF AppOK, AppLoop
  <2> QED BY <1>1, <2>1, <2>2 DEF AppInv, RowsInv, RowLast
<1>2. AppInv /\ [Next]_vars => [A]_vars
  BY <1>1
<1> QED BY <1>2, AppInit, AppStep, PTL DEF Spec, DeletedAppIsGone

-----------------------------------------------------------------------------
(* The filters of a deployment. *)

Asked(r) == {FiltersOf[r.release][i] : i \in DOMAIN FiltersOf[r.release]}

\* What was asked for is in place or still to do,
Installing(s, found, asked, n, v, j) ==
  /\ \A t : In(t, s) => t.filter \in asked
  /\ found \subseteq asked
  /\ \A f \in asked \ {"jwt"} :
       \/ In(TaskFor("install", f, n), s)
       \/ f \in found /\ (v # NoService => f \in v[n])
  /\ "jwt" \in asked => \A o \in TokenObjects :
       \/ In(TaskFor("install", "jwt", o), s)
       \/ "jwt" \in found /\ o \in j

\* ... and then what was not asked for is gone or still to be removed,
Removing(s, asked, n, v, j) ==
  /\ \A t : In(t, s) => t.filter \notin asked
  /\ v # NoService =>
       /\ asked \ {"jwt"} \subseteq v[n]
       /\ \A f \in v[n] \ asked : In(TaskFor("remove", f, n), s)
  /\ "jwt" \in asked => j = TokenObjects
  /\ "jwt" \notin asked => \A o \in j : In(TaskFor("remove", "jwt", o), s)

\* ... until the filters are those that were asked for.
Filtered(asked, n, v, j) ==
  /\ v # NoService => v[n] = asked \ {"jwt"}
  /\ j = IF "jwt" \in asked THEN TokenObjects ELSE {}

\* Once all is installed the filters found are those asked for, and the others are removed.
LEMMA InstallingEnds ==
  ASSUME NEW found, NEW asked \in SUBSET Filter, NEW n \in Name,
         NEW v \in VirtualService \union {NoService}, NEW j \in SUBSET TokenObjects,
         Installing(<<>>, found, asked, n, v, j)
  PROVE  Removing(Removals(found, n), asked, n, v, j)
<1>1. \A f \in asked \ {"jwt"} : f \in found /\ (v # NoService => f \in v[n])
  BY InNothing DEF Installing
<1>2. "jwt" \in asked => j = TokenObjects /\ "jwt" \in found
  BY InNothing DEF Installing, TokenObjects
<1>3. found = asked
  BY <1>1, <1>2 DEF Installing
<1> DEFINE s == Removals(found, n)
<1>4. \A t : In(t, s) <=> \E f \in Filter \ asked : \E o \in ObjectsOf(f, n) : t = TaskFor("remove", f, o)
  BY <1>3, RemovalsAre
<1> HIDE DEF s
<1>5. \A t : In(t, s) => t.filter \notin asked
  BY <1>4 DEF TaskFor
<1>6. v # NoService => /\ asked \ {"jwt"} \subseteq v[n]
                       /\ \A f \in v[n] \ asked : In(TaskFor("remove", f, n), s)
  <2> SUFFICES ASSUME v # NoService, NEW f \in v[n] \ asked PROVE In(TaskFor("remove", f, n), s)
    BY <1>1
  <2>1. f \in {"cors", "csp"}
    BY DEF VirtualService
  <2>2. n \in ObjectsOf(f, n) /\ f \in Filter \ asked
    BY <2>1 DEF ObjectsOf, Filter
  <2> QED BY <1>4, <2>2
<1>7. "jwt" \notin asked => \A o \in j : In(TaskFor("remove", "jwt", o), s)
  <2>1. ObjectsOf("jwt", n) = TokenObjects /\ "jwt" \in Filter
    BY DEF ObjectsOf, Filter
  <2> QED BY <1>4, <2>1
<1> QED BY <1>2, <1>5, <1>6, <1>7 DEF Removing, s

\* Once all is removed the filters are those that were asked for.
LEMMA RemovingEnds ==
  ASSUME NEW asked \in SUBSET Filter, NEW n \in Name,
         NEW v \in VirtualService \union {NoService}, NEW j \in SUBSET TokenObjects,
         Removing(<<>>, asked, n, v, j)
  PROVE  Filtered(asked, n, v, j)
<1>1. v # NoService => v[n] \subseteq asked /\ asked \ {"jwt"} \subseteq v[n] /\ "jwt" \notin v[n]
  BY InNothing DEF Removing, VirtualService
<1>2. "jwt" \notin asked => j = {}
  BY InNothing DEF Removing
<1> QED BY <1>1, <1>2 DEF Removing, Filtered

\* Whatever is next to do, it is known how far the filters are.
KnownAs(p, asked, n, v, j) ==
  /\ p.pc \in {"filter", "put"} =>
       IF Head(p.todo).do = "install" THEN Installing(p.todo, p.found, asked, n, v, j)
       ELSE Removing(p.todo, asked, n, v, j)
  /\ p.pc = "answer" => Filtered(asked, n, v, j)

\* Going on with the next task, or with the removals, keeps what is known.
LEMMA ProceedFiltered ==
  ASSUME NEW r \in Request, NEW do \in {"install", "remove"}, NEW asked \in SUBSET Filter,
         NEW v \in VirtualService \union {NoService}, NEW j \in SUBSET TokenObjects,
         \A t : In(t, r.todo) => t.do = do,
         do = "install" => Installing(r.todo, r.found, asked, r.name, v, j),
         do = "remove" => Removing(r.todo, asked, r.name, v, j)
  PROVE  KnownAs(Proceed(r, do), asked, r.name, v, j)
<1> DEFINE p == Proceed(r, do)
           n == r.name
<1>0. r.todo \in Seq(Task) /\ r.found \in SUBSET Filter /\ n \in Name
  BY DEF Request
<1>1. /\ Rest(p, r) /\ p.pc = IF p.todo = <<>> THEN "answer" ELSE "filter"
      /\ p.todo = IF r.todo = <<>> /\ do = "install" THEN Removals(r.found, n) ELSE r.todo
  BY ProceedIs
<1>2. p.found = r.found
  BY <1>1 DEF Rest
<1> HIDE DEF p
<1>3. CASE r.todo # <<>>
  <2>1. p.todo = r.todo /\ p.pc = "filter"
    BY <1>1, <1>3
  <2>2. Head(p.todo).do = do
    BY <1>0, <1>3, <2>1, HeadTail
  <2>3. do = "install" \/ do = "remove"
    OBVIOUS
  <2> QED BY <1>2, <2>1, <2>2, <2>3 DEF KnownAs, p
<1>4. CASE r.todo = <<>> /\ do = "install"
  <2>1. Removing(p.todo, asked, n, v, j)
    BY <1>0, <1>1, <1>4, InstallingEnds
  <2>2. CASE p.todo = <<>>
    <3>1. Filtered(asked, n, v, j)
      BY <1>0, <2>1, <2>2, RemovingEnds
    <3> QED BY <1>1, <2>2, <3>1 DEF KnownAs, p
  <2>3. CASE p.todo # <<>>
    <3>1. p.todo \in Seq(Task) /\ \A t : In(t, p.todo) => t.do = "remove"
      <4>1. p.todo = Removals(r.found, n)
        BY <1>1, <1>4
      <4>2. /\ Removals(r.found, n) \in Seq(Task)
            /\ \A t : In(t, Removals(r.found, n)) => t.do = "remove"
        BY <1>0, RemovalsRemove
      <4> QED BY <4>1, <4>2
    <3>2. Head(p.todo).do = "remove"
      BY <2>3, <3>1, HeadTail
    <3> QED BY <1>1, <2>1, <2>3, <3>2 DEF KnownAs, p
  <2> QED BY <2>2, <2>3
<1>5. CASE r.todo = <<>> /\ do = "remove"
  <2>1. p.todo = <<>> /\ p.pc = "answer"
    BY <1>1, <1>5
  <2>2. Filtered(asked, n, v, j)
    BY <1>0, <1>5, RemovingEnds
  <2> QED BY <2>1, <2>2 DEF KnownAs, p
<1> QED BY <1>3, <1>4, <1>5

\* What one task does to the filters.
Done(t, n, v, j, w, k) ==
  /\ t.filter = "jwt" =>
       w = v /\ k = IF t.do = "install" THEN j \union {t.object} ELSE j \ {t.object}
  /\ t.filter # "jwt" => k = j
  /\ t.filter # "jwt" /\ t.object # n => (w = NoService) = (v = NoService) /\ (v # NoService => w[n] = v[n])
  /\ t.filter # "jwt" /\ t.object = n =>
       IF v = NoService THEN w = NoService
       ELSE w # NoService /\ w[n] = IF t.do = "install" THEN v[n] \union {t.filter} ELSE v[n] \ {t.filter}

\* One filter less to install,
LEMMA InstallDone ==
  ASSUME NEW n \in Name, NEW s \in Seq(Task), s # <<>>, NEW found, NEW asked, NEW v, NEW j, NEW w, NEW k,
         Head(s).do = "install", Done(Head(s), n, v, j, w, k),
         Installing(s, found, asked, n, v, j)
  PROVE  Installing(Tail(s), IF Head(s).object # Site THEN found \union {Head(s).filter} ELSE found,
                    asked, n, w, k)
<1> DEFINE t == Head(s)
           more == IF t.object # Site THEN found \union {t.filter} ELSE found
<1>1. /\ In(t, s) /\ \A u : In(u, s) <=> u = t \/ In(u, Tail(s))
  BY HeadTail
<1>2. t.filter \in asked /\ found \subseteq more /\ more \subseteq asked
  BY <1>1 DEF Installing
<1>3. \A u : In(u, Tail(s)) => u.filter \in asked
  BY <1>1 DEF Installing
<1>4. n # Site /\ Site \notin TokenObjects
  BY Constants, ObjectsAssumption
<1>5. ASSUME NEW f \in asked \ {"jwt"}, ~In(TaskFor("install", f, n), Tail(s))
      PROVE  f \in more /\ (w # NoService => f \in w[n])
  <2>1. CASE t = TaskFor("install", f, n)
    <3>1. t.filter = f /\ t.object = n /\ t.do = "install"
      BY <2>1 DEF TaskFor
    <3> QED BY <1>4, <1>5, <3>1 DEF Done
  <2>2. CASE t # TaskFor("install", f, n)
    <3>1. f \in found /\ (v # NoService => f \in v[n])
      BY <1>1, <1>5, <2>2 DEF Installing
    <3>2. w # NoService => f \in w[n]
      BY <3>1 DEF Done
    <3> QED BY <1>2, <3>1, <3>2
  <2> QED BY <2>1, <2>2
<1>6. ASSUME "jwt" \in asked, NEW o \in TokenObjects, ~In(TaskFor("install", "jwt", o), Tail(s))
      PROVE  "jwt" \in more /\ o \in k
  <2>1. CASE t = TaskFor("install", "jwt", o)
    <3>1. t.filter = "jwt" /\ t.object = o /\ t.do = "install"
      BY <2>1 DEF TaskFor
    <3> QED BY <1>4, <3>1 DEF Done
  <2>2. CASE t # TaskFor("install", "jwt", o)
    <3>1. "jwt" \in found /\ o \in j
      BY <1>1, <1>6, <2>2 DEF Installing
    <3>2. o \in k
      BY <3>1 DEF Done
    <3> QED BY <1>2, <3>1, <3>2
  <2> QED BY <2>1, <2>2
<1> QED BY <1>2, <1>3, <1>5, <1>6 DEF Installing

\* ... and one less to remove.
LEMMA RemoveDone ==
  ASSUME NEW n \in Name, NEW s \in Seq(Task), s # <<>>, NEW asked, NEW v, NEW j, NEW w, NEW k,
         Head(s).do = "remove", Done(Head(s), n, v, j, w, k),
         Head(s).filter = "jwt" => Head(s).object # n,
         Removing(s, asked, n, v, j)
  PROVE  Removing(Tail(s), asked, n, w, k)
<1> DEFINE t == Head(s)
<1>1. /\ In(t, s) /\ \A u : In(u, s) <=> u = t \/ In(u, Tail(s))
  BY HeadTail
<1>2. t.filter \notin asked /\ \A u : In(u, Tail(s)) => u.filter \notin asked
  BY <1>1 DEF Removing
<1>4. ASSUME w # NoService PROVE asked \ {"jwt"} \subseteq w[n]
  <2>1. v # NoService
    BY <1>4 DEF Done
  <2>2. asked \ {"jwt"} \subseteq v[n]
    BY <2>1 DEF Removing
  <2> QED BY <1>2, <1>4, <2>1, <2>2 DEF Done
<1>5. ASSUME w # NoService, NEW f \in w[n] \ asked PROVE In(TaskFor("remove", f, n), Tail(s))
  <2>1. v # NoService /\ f \in v[n] /\ ~(t.filter = f /\ t.filter # "jwt" /\ t.object = n)
    BY <1>5 DEF Done
  <2>2. In(TaskFor("remove", f, n), s)
    BY <1>5, <2>1 DEF Removing
  <2>3. CASE t = TaskFor("remove", f, n)
    <3>1. t.filter = f /\ t.object = n
      BY <2>3 DEF TaskFor
    <3> QED BY <2>1, <3>1
  <2> QED BY <1>1, <2>2, <2>3
<1>6. "jwt" \in asked => k = TokenObjects
  BY <1>2 DEF Removing, Done
<1>7. ASSUME "jwt" \notin asked, NEW o \in k PROVE In(TaskFor("remove", "jwt", o), Tail(s))
  <2>1. o \in j /\ ~(t.filter = "jwt" /\ t.object = o)
    BY <1>7 DEF Done
  <2>2. In(TaskFor("remove", "jwt", o), s)
    BY <1>7, <2>1 DEF Removing
  <2>3. t # TaskFor("remove", "jwt", o)
    BY <2>1 DEF TaskFor
  <2> QED BY <1>1, <2>2, <2>3
<1> QED BY <1>2, <1>4, <1>5, <1>6, <1>7 DEF Removing

\* The other steps leave what there is of filters.
LEMMA SameFilterState ==
  ASSUME Machine, NEW h \in Handler, OwnStep(h), ~PutVirtualService(h), ~SetTokenObject(h),
         ~WriteService(h), ~RequestFailure(h), ~ErrorIgnored(h), ~Answer(h)
  PROVE  UNCHANGED <<vs, jwt, guarded>>
<1>1. Error(h) /\ req[h].pc # "idle" => guarded' = guarded
  BY ErrorGhosts
<1> QED BY <1>1 DEF OwnStep, Step, CheckDeployment, InsertDeployment,
     SnapshotRow, UpdateRow, SetInstances, Scale, ReadDeployment, DeploymentExists,
     WriteDeployment, ServiceExists, GetVirtualService,
     DeploymentInfo, CountDeployments, ListDeployments, NextDeployment, DeletionAnswered,
     IterationFails,
     DeploymentFound, DeleteService, DeleteDeployment, DeleteRow, DeleteRowAgain, filters,
     ghosts, To, Refuse

\* How far the filters of a request are that met no others, and what was answered.
FiltersOK(h) ==
  LET r == req[h]
      n == req[h].name
  IN  r.alone /\ PortOf[r.release] # NoPort => KnownAs(r, Asked(r), n, vs[n], jwt[n])
GuardOK(n) ==
  guarded[n] # Unknown =>
    /\ vs[n] # NoService /\ Filtered(guarded[n], n, vs[n], jwt[n])
    /\ \A h \in Handler : req[h].name = n => req[h].pc \notin {"filter", "put"}
FiltersInv == /\ RowsInv /\ \A h \in Handler : FiltersOK(h)
              /\ \A n \in Name : GuardOK(n)

\* A task that was done.
LEMMA DoneFiltered ==
  ASSUME FiltersInv, NEW h \in Handler, req[h].pc \in {"filter", "put"}, req[h].alone,
         NEW n \in Name, n = req[h].name,
         NEW w \in VirtualService \union {NoService}, NEW k \in SUBSET TokenObjects,
         Done(First(h), n, vs[n], jwt[n], w, k)
  PROVE  KnownAs(TaskDone(h), Asked(req[h]), n, w, k)
<1>0. /\ Machine /\ GoodRequest(req[h]) /\ OpOK(req[h]) /\ TodoOK(req[h]) /\ req[h] \in Request
      /\ req[h].release \in Release /\ req[h].todo \in Seq(Task) /\ FiltersOK(h)
  BY DEF FiltersInv, RowsInv, Machine, GoodRequest, Request
<1> DEFINE t == First(h)
           s == req[h].todo
           own == t.do = "install" /\ t.object # Site
           found == IF own THEN req[h].found \union {t.filter} ELSE req[h].found
           r == [req[h] EXCEPT !.todo = Tail(@), !.found = found]
           asked == Asked(req[h])
<1>1. TaskDone(h) = Proceed(r, t.do) /\ r \in Request /\ t.do \in {"install", "remove"}
  BY <1>0, DoneIs
<1>2. s # <<>> /\ t = Head(s) /\ \A u : In(u, s) => u.do = t.do
  <2>1. s # <<>> /\ TasksOK(n, s)
    BY <1>0 DEF TodoOK
  <2>2. In(Head(s), s)
    BY <1>0, <2>1, HeadTail
  <2> QED BY <2>1, <2>2 DEF TasksOK, First
<1>3. \A u : In(u, Tail(s)) => u.do = t.do
  BY <1>0, <1>2, HeadTail
<1>4. asked \in SUBSET Filter
  BY <1>0, AskedAre DEF Asked
<1>5. IF t.do = "install" THEN Installing(s, req[h].found, asked, n, vs[n], jwt[n])
      ELSE Removing(s, asked, n, vs[n], jwt[n])
  BY <1>0, <1>2 DEF FiltersOK, KnownAs, OpOK
<1>6. r.todo = Tail(s) /\ r.found = found /\ r.name = n
  BY <1>0 DEF Request
<1>7. t.filter = "jwt" => t.object # n
  BY <1>0, FirstIs, ObjectsAssumption DEF ObjectsOf
<1> HIDE DEF r, asked
<1>8. CASE t.do = "install"
  <2>1. found = IF t.object # Site THEN req[h].found \union {t.filter} ELSE req[h].found
    BY <1>8
  <2> HIDE DEF found
  <2> HIDE DEF s
  <2>2. Installing(Tail(s), found, asked, n, w, k)
    <3>1. Head(s).do = "install" /\ Done(Head(s), n, vs[n], jwt[n], w, k)
          /\ Installing(s, req[h].found, asked, n, vs[n], jwt[n]) /\ s \in Seq(Task)
      BY <1>0, <1>2, <1>5, <1>8 DEF s
    <3>2. Installing(Tail(s), IF Head(s).object # Site THEN req[h].found \union {Head(s).filter}
                              ELSE req[h].found, asked, n, w, k)
      BY <1>2, <3>1, InstallDone
    <3> QED BY <1>2, <2>1, <3>2
  <2>3. KnownAs(Proceed(r, "install"), asked, r.name, w, k)
    BY <1>1, <1>3, <1>4, <1>6, <1>8, <2>2, ProceedFiltered
  <2> QED BY <1>1, <1>6, <1>8, <2>3 DEF asked
<1>9. CASE t.do = "remove"
  <2>1. Removing(Tail(s), asked, n, w, k)
    BY <1>0, <1>2, <1>5, <1>7, <1>9, RemoveDone
  <2>2. KnownAs(Proceed(r, "remove"), asked, r.name, w, k)
    BY <1>1, <1>3, <1>4, <1>6, <1>9, <2>1, ProceedFiltered
  <2> QED BY <1>1, <1>6, <1>9, <2>2 DEF asked
<1> QED BY <1>1, <1>8, <1>9

\* The service is there, and nothing is found yet.
LEMMA ServicedFiltered ==
  ASSUME Machine, NEW h \in Handler, req[h].pc = "service", NEW n \in Name, n = req[h].name,
         NEW v \in VirtualService \union {NoService}, NEW j \in SUBSET TokenObjects
  PROVE  KnownAs(Proceed([req[h] EXCEPT !.todo = Installations(FiltersOf[req[h].release], n)], "install"),
                 Asked(req[h]), n, v, j)
<1>0. /\ GoodRequest(req[h]) /\ OpOK(req[h]) /\ req[h] \in Request /\ req[h].release \in Release
      /\ req[h].found = {}
  BY DEF Machine, GoodRequest, OpOK, Request
<1> DEFINE asked == Asked(req[h])
           s == Installations(FiltersOf[req[h].release], n)
           r == [req[h] EXCEPT !.todo = s]
<1>1. /\ s \in Seq(Task)
      /\ \A t : In(t, s) <=> \E f \in asked : \E o \in ObjectsOf(f, n) : t = TaskFor("install", f, o)
  <2> DEFINE x == req[h].release
  <2>1. x \in Release
    BY <1>0
  <2> HIDE DEF x
  <2>2. /\ Installations(FiltersOf[x], n) \in Seq(Task)
        /\ \A t : In(t, Installations(FiltersOf[x], n)) <=>
             \E f \in {FiltersOf[x][i] : i \in DOMAIN FiltersOf[x]} :
               \E o \in ObjectsOf(f, n) : t = TaskFor("install", f, o)
    BY <2>1, InstallationsAre
  <2> QED BY <2>2 DEF Asked, x
<1>2. asked \in SUBSET Filter
  BY <1>0, AskedAre DEF Asked
<1> HIDE DEF s, asked
<1>3. r \in Request /\ r.todo = s /\ r.found = {} /\ r.name = n
  BY <1>0, <1>1 DEF Request
<1>4. Installing(s, {}, asked, n, v, j)
  <2>1. \A t : In(t, s) => t.filter \in asked
    BY <1>1 DEF TaskFor
  <2>2. \A f \in asked \ {"jwt"} : n \in ObjectsOf(f, n)
    BY DEF ObjectsOf
  <2>3. ObjectsOf("jwt", n) = TokenObjects
    BY DEF ObjectsOf
  <2> QED BY <1>1, <2>1, <2>2, <2>3 DEF Installing
<1>5. \A t : In(t, s) => t.do = "install"
  BY <1>1 DEF TaskFor
<1> HIDE DEF r
<1>6. KnownAs(Proceed(r, "install"), asked, r.name, v, j)
  BY <1>2, <1>3, <1>4, <1>5, ProceedFiltered
<1> QED BY <1>3, <1>6 DEF r, s, asked

\* The filters of the deployment a request is at work on.
LEMMA OwnFilters ==
  ASSUME FiltersInv, NEW h \in Handler, OwnStep(h), NEW n \in Name, n = req[h].name
  PROVE  FiltersOK(h)' /\ GuardOK(n)'
<1>0. /\ Machine /\ GoodRequest(req[h]) /\ OpOK(req[h]) /\ TodoOK(req[h]) /\ req[h] \in Request
      /\ req[h].release \in Release /\ req[h].pc # "idle" /\ FreshOK(h)
      /\ req \in [Handler -> Request]
      /\ vs \in [Name \union {Site} -> VirtualService \union {NoService}]
      /\ jwt \in [Name -> SUBSET TokenObjects]
      /\ guarded \in [Name -> (SUBSET Filter) \union {Unknown}]
  BY OwnBusy DEF FiltersInv, RowsInv, Machine, TypeOK, GoodRequest, Request
<1>k. FiltersOK(h) /\ GuardOK(n) /\ Apart(n)
  BY DEF FiltersInv, RowsInv
<1>v. vs[n] \in VirtualService \union {NoService} /\ jwt[n] \in SUBSET TokenObjects
  BY <1>0
<1>o. \A g \in Handler : g # h => req'[g].pc = req[g].pc /\ req'[g].name = req[g].name
  BY <1>0, OwnMove DEF Like
<1>g. ASSUME vs'[n] = vs[n], jwt'[n] = jwt[n], guarded'[n] = guarded[n],
             req'[h].pc \notin {"filter", "put"}
      PROVE  GuardOK(n)'
  BY <1>g, <1>k, <1>o DEF GuardOK
<1>z. ASSUME guarded'[n] = guarded[n], req[h].pc \in {"filter", "put"} PROVE GuardOK(n)'
  BY <1>z, <1>k DEF GuardOK
<1>u. ASSUME guarded'[n] = Unknown PROVE GuardOK(n)'
  BY <1>u DEF GuardOK
<1>f. ASSUME ~req'[h].alone \/ req'[h].pc \notin {"filter", "put", "answer"} PROVE FiltersOK(h)'
  BY <1>f DEF FiltersOK, KnownAs
<1>n. NoRequest.pc = "idle"
  BY DEF NoRequest
\* A task that is done,
<1>d. ASSUME req[h].pc \in {"filter", "put"}, req'[h] = TaskDone(h), guarded' = guarded,
             vs'[n] \in VirtualService \union {NoService}, jwt'[n] \in SUBSET TokenObjects,
             Done(First(h), n, vs[n], jwt[n], vs'[n], jwt'[n])
      PROVE  FiltersOK(h)' /\ GuardOK(n)'
  <2>1. /\ TaskDone(h).alone = req[h].alone /\ TaskDone(h).name = n
        /\ TaskDone(h).release = req[h].release
    BY <1>0, <1>d, DoneRest
  <2>2. Asked(TaskDone(h)) = Asked(req[h])
    BY <2>1 DEF Asked
  <2>3. req[h].alone => KnownAs(TaskDone(h), Asked(req[h]), n, vs'[n], jwt'[n])
    BY <1>d, DoneFiltered
  <2>4. FiltersOK(h)'
    <3>1. Asked(req[h])' = Asked(TaskDone(h))
      BY <1>d DEF Asked
    <3>2. ASSUME req'[h].alone
          PROVE  KnownAs(req[h], Asked(req[h]), req[h].name, vs[req[h].name], jwt[req[h].name])'
      <4>1. req'[h].name = n
        BY <1>d, <2>1
      <4>2. KnownAs(TaskDone(h), Asked(req[h]), n, vs'[n], jwt'[n])
        BY <1>d, <2>1, <2>3, <3>2
      <4>3. KnownAs(req'[h], Asked(req[h])', n, vs'[n], jwt'[n])
        BY <1>d, <2>2, <3>1, <4>2
      <4> QED BY <4>1, <4>3 DEF KnownAs, Filtered, Installing, Removing
    <3> QED BY <3>2 DEF FiltersOK
  <2> QED BY <1>d, <1>z, <2>4
<1>1. CASE GetVirtualService(h)
  <2>1. /\ req[h].pc = "filter" /\ First(h).filter # "jwt" /\ UNCHANGED <<vs, jwt, guarded>>
        /\ First(h).object \in {n, Site}
    BY <1>0, <1>1, FirstIs DEF GetVirtualService, filters, ghosts, ObjectsOf
  <2>2. CASE vs[First(h).object] = NoService
    <3>1. req'[h] = TaskDone(h)
      BY <1>0, <1>1, <2>2 DEF GetVirtualService
    <3>2. Done(First(h), n, vs[n], jwt[n], vs[n], jwt[n])
      BY <2>1, <2>2 DEF Done
    <3> QED BY <1>d, <1>v, <2>1, <3>1, <3>2
  <2>3. CASE vs[First(h).object] # NoService
    <3>1. req'[h] = [req[h] EXCEPT !.pc = "put", !.copy = vs[First(h).object], !.fresh = TRUE]
      BY <1>0, <1>1, <2>3 DEF GetVirtualService
    <3>2. /\ req'[h].pc = "put" /\ req'[h].todo = req[h].todo /\ req'[h].found = req[h].found
          /\ req'[h].name = n /\ req'[h].release = req[h].release /\ req'[h].alone = req[h].alone
      BY <1>0, <3>1 DEF Request
    <3>3. Asked(req[h])' = Asked(req[h])
      BY <3>2 DEF Asked
    <3>4. FiltersOK(h)'
      BY <1>k, <2>1, <3>2, <3>3 DEF FiltersOK, KnownAs, Installing, Removing
    <3> QED BY <1>z, <2>1, <3>4
  <2> QED BY <2>2, <2>3
<1>2. CASE PutVirtualService(h)
  <2>1. req[h].pc = "put" /\ guarded' = guarded /\ jwt' = jwt
    BY <1>2 DEF PutVirtualService, ghosts
  <2>2. CASE VersionIsLast(h)
    <3> DEFINE o == First(h).object
    <3>1. req'[h] = TaskDone(h)
      BY <1>0, <1>2, <2>2, FilterGoes
    <3>2. vs' = [vs EXCEPT ![o] = Edited(h)] /\ req[h].copy = vs[o]
      BY <1>0, <1>2, <2>2 DEF PutVirtualService, VersionIsLast, FreshOK
    <3>3. /\ Edited(h) \in VirtualService /\ req[h].copy \in VirtualService
          /\ o = Site \/ o = n
          /\ First(h).filter \in {"cors", "csp"} /\ n # Site
      BY <1>0, <2>1, EditedType, Constants
    <3>4. vs'[n] \in VirtualService \union {NoService}
      BY <1>0, <3>2, <3>3
    <3>5. First(h).do \in {"install", "remove"}
      BY <1>0, <2>1, FirstIs DEF Task
    <3>6. Done(First(h), n, vs[n], jwt[n], vs'[n], jwt[n])
      <4>1. CASE o = Site
        BY <1>0, <3>2, <3>3, <4>1 DEF Done
      <4>2. CASE o = n
        <5>1. vs'[n] = Edited(h) /\ vs[n] # NoService /\ vs'[n] # NoService /\ vs[n] = req[h].copy
          BY <1>0, <3>2, <3>3, <4>2, Constants
        <5>2. Reached(h) = {n}
          BY <3>3, <4>2 DEF Reached
        <5>3. Edited(h)[n] = IF First(h).do = "install" THEN vs[n][n] \union {First(h).filter}
                             ELSE vs[n][n] \ {First(h).filter}
          BY <5>1, <5>2 DEF Edited
        <5> QED BY <3>3, <4>2, <5>1, <5>3 DEF Done
      <4> QED BY <3>3, <4>1, <4>2
    <3> QED BY <1>d, <1>v, <2>1, <3>1, <3>4, <3>6
  <2>3. CASE ~VersionIsLast(h)
    <3>1. req'[h] = TaskFailed(h) /\ ~TaskFailed(h).alone
      BY <1>0, <1>2, <2>1, <2>3, FailedIs DEF PutVirtualService
    <3> QED BY <1>f, <1>z, <2>1, <3>1
  <2> QED BY <2>2, <2>3
<1>3. CASE SetTokenObject(h)
  <2>1. /\ req[h].pc = "filter" /\ First(h).filter = "jwt" /\ guarded' = guarded /\ vs' = vs
        /\ jwt' = [jwt EXCEPT ![n] = IF First(h).do = "install" THEN @ \union {First(h).object}
                                     ELSE @ \ {First(h).object}]
    BY <1>3 DEF SetTokenObject, ghosts
  <2>2. First(h).object \in TokenObjects
    BY <1>0, <2>1, FirstIs DEF ObjectsOf
  <2>3. jwt'[n] = IF First(h).do = "install" THEN jwt[n] \union {First(h).object}
                  ELSE jwt[n] \ {First(h).object}
    BY <1>0, <2>1
  <2>4. jwt'[n] \in SUBSET TokenObjects
    BY <1>v, <2>2, <2>3
  <2>5. Done(First(h), n, vs[n], jwt[n], vs'[n], jwt'[n])
    BY <2>1, <2>3 DEF Done
  <2>6. req'[h] = TaskDone(h)
    BY <1>0, <1>3 DEF SetTokenObject
  <2> QED BY <1>d, <1>v, <2>1, <2>4, <2>5, <2>6
\* ... the service,
<1>4. CASE WriteService(h)
  <2>1. req[h].pc = "service" /\ UNCHANGED <<vs, jwt>>
    BY <1>4 DEF WriteService, filters
  <2>2. CASE Error(h)
    <3>1. guarded' = guarded
      BY <1>0, <2>2, ErrorGhosts
    <3>2. req'[h].pc \in {"idle", "next"}
      BY <1>0, <2>2, ErrorGoes
    <3> QED BY <1>f, <1>g, <2>1, <3>1, <3>2
  <2>3. CASE ~Error(h)
    <3> DEFINE p == Proceed([req[h] EXCEPT !.todo = Installations(FiltersOf[req[h].release], n)], "install")
    <3>1. req'[h] = p /\ guarded' = [guarded EXCEPT ![n] = Unknown]
      BY <1>0, <1>4, <2>3 DEF WriteService
    <3>2. KnownAs(p, Asked(req[h]), n, vs[n], jwt[n])
      BY <1>0, <1>v, <2>1, ServicedFiltered
    <3>3. Rest(p, req[h])
      BY <1>0, <2>1, ServicedGood
    <3> HIDE DEF p
    <3>4. Asked(req[h])' = Asked(req[h]) /\ req'[h].name = n
      BY <3>1, <3>3 DEF Asked, Rest
    <3>5. KnownAs(req'[h], Asked(req[h])', n, vs'[n], jwt'[n])
      BY <2>1, <3>1, <3>2, <3>4
    <3>6. FiltersOK(h)'
      BY <3>4, <3>5 DEF FiltersOK, KnownAs, Filtered, Installing, Removing
    <3> QED BY <1>0, <1>u, <3>1, <3>6
  <2> QED BY <2>2, <2>3
\* ... what goes wrong,
<1>5. CASE RequestFailure(h)
  <2>1. UNCHANGED <<vs, jwt>>
    BY <1>5 DEF RequestFailure, filters
  <2>2. CASE req[h].pc \in {"filter", "put"}
    <3>1. req'[h] = TaskFailed(h) /\ ~TaskFailed(h).alone /\ guarded' = guarded
      BY <1>0, <1>5, <2>2, FailedIs DEF RequestFailure, ghosts
    <3> QED BY <1>f, <1>z, <2>2, <3>1
  <2>3. CASE req[h].pc \notin {"filter", "put"}
    <3>1. Error(h)
      BY <1>5, <2>3 DEF RequestFailure
    <3>2. guarded' = guarded /\ req'[h].pc \in {"idle", "next"}
      BY <1>0, <3>1, ErrorGhosts, ErrorGoes
    <3> QED BY <1>f, <1>g, <2>1, <3>2
  <2> QED BY <2>2, <2>3
<1>6. CASE ErrorIgnored(h)
  <2>1. /\ UNCHANGED <<vs, jwt>>
        /\ guarded' = IF req[h].pc = "service" THEN [guarded EXCEPT ![n] = Unknown] ELSE guarded
    BY <1>6 DEF ErrorIgnored, filters
  <2>2. /\ \/ req[h].pc = "scale" /\ req'[h] = NoRequest
           \/ req[h].pc = "service" /\ req'[h].pc \in {"filter", "answer"}
           \/ req[h].pc = "delservice" /\ req'[h].pc = "deldeployment"
           \/ req[h].pc = "deldeployment" /\ req'[h].pc = "delrow"
        /\ req'[h] = NoRequest \/ ~req'[h].alone
    BY <1>0, <1>6, IgnoredGoes
  <2>3. FiltersOK(h)'
    BY <1>f, <1>n, <2>2
  <2>4. CASE req[h].pc = "service"
    BY <1>0, <1>u, <2>1, <2>3, <2>4
  <2>5. CASE req[h].pc # "service"
    <3>1. req'[h].pc \notin {"filter", "put"}
      BY <1>n, <2>2, <2>5
    <3> QED BY <1>g, <2>1, <2>3, <2>5, <3>1
  <2> QED BY <2>4, <2>5
\* ... the answer, and what has nothing to do with filters.
<1>7. CASE Answer(h)
  <2> DEFINE r == req[h].release
  <2>1. /\ req[h].pc = "answer" /\ UNCHANGED <<vs, jwt>> /\ req'[h] = NoRequest
        /\ guarded' = [guarded EXCEPT ![n] =
             IF PortOf[r] = NoPort THEN @
             ELSE IF req[h].alone /\ vs[n] # NoService THEN Asked(req[h]) ELSE Unknown]
    BY <1>0, <1>7 DEF Answer, filters, Asked
  <2>2. FiltersOK(h)'
    BY <1>f, <1>n, <2>1
  <2>3. CASE PortOf[r] = NoPort
    BY <1>0, <1>g, <1>n, <2>1, <2>2, <2>3
  <2>4. CASE PortOf[r] # NoPort /\ req[h].alone /\ vs[n] # NoService
    <3>1. guarded'[n] = Asked(req[h])
      BY <1>0, <2>1, <2>4
    <3>2. Filtered(Asked(req[h]), n, vs[n], jwt[n])
      BY <1>k, <2>1, <2>4 DEF FiltersOK, KnownAs
    <3>3. ASSUME NEW g \in Handler, req'[g].name = n, req'[g].pc \in {"filter", "put"} PROVE FALSE
      <4>1. g # h
        BY <1>n, <2>1, <3>3
      <4>2. req[g].name = n /\ req[g].pc \in {"filter", "put"} /\ GoodRequest(req[g])
        BY <1>0, <1>o, <3>3, <4>1 DEF Machine
      <4>3. At(req[g], n) /\ At(req[h], n)
        BY <1>0, <2>1, <4>2, AtName
      <4> QED BY <1>k, <2>4, <4>1, <4>3 DEF Apart
    <3>4. GuardOK(n)'
      BY <2>1, <2>4, <3>1, <3>2, <3>3 DEF GuardOK, Filtered
    <3> QED BY <2>2, <3>4
  <2>5. CASE PortOf[r] # NoPort /\ ~(req[h].alone /\ vs[n] # NoService)
    BY <1>0, <1>u, <2>1, <2>2, <2>5
  <2> QED BY <2>3, <2>4, <2>5
<1>8. CASE /\ ~GetVirtualService(h) /\ ~PutVirtualService(h) /\ ~SetTokenObject(h)
           /\ ~WriteService(h) /\ ~RequestFailure(h) /\ ~ErrorIgnored(h) /\ ~Answer(h)
  <2>1. /\ req'[h].pc \notin {"filter", "put"}
        /\ req'[h].pc = "answer" => PortOf[req'[h].release] = NoPort
    BY <1>0, <1>8, NoFilters
  <2>2. UNCHANGED <<vs, jwt, guarded>>
    BY <1>0, <1>8, SameFilterState
  <2>3. FiltersOK(h)'
    BY <2>1 DEF FiltersOK, KnownAs
  <2> QED BY <1>g, <2>1, <2>2, <2>3
<1> QED BY <1>1, <1>2, <1>3, <1>4, <1>5, <1>6, <1>7, <1>8

\* What is known of the filters stays known while the deployment is left alone.
LEMMA FiltersCarried ==
  ASSUME NEW h \in Handler, NEW n, n = req[h].name, FiltersOK(h), Like(req'[h], req[h]),
         vs'[n] = vs[n], jwt'[n] = jwt[n]
  PROVE  FiltersOK(h)'
<1>1. /\ req'[h].pc = req[h].pc /\ req'[h].name = n /\ req'[h].release = req[h].release
      /\ req'[h].todo = req[h].todo /\ req'[h].found = req[h].found
      /\ req'[h].alone => req[h].alone
  BY DEF Like
<1>2. Asked(req[h])' = Asked(req[h])
  BY <1>1 DEF Asked
<1> SUFFICES ASSUME req'[h].alone, PortOf[req[h].release] # NoPort
             PROVE  KnownAs(req'[h], Asked(req[h]), n, vs[n], jwt[n])
  BY <1>1, <1>2 DEF FiltersOK, KnownAs, Installing, Removing, Filtered
<1>3. KnownAs(req[h], Asked(req[h]), n, vs[n], jwt[n])
  BY <1>1 DEF FiltersOK
<1> QED BY <1>1, <1>3 DEF KnownAs

\* A request changes nothing for those that met no others.
LEMMA OthersFilters ==
  ASSUME FiltersInv, NEW h \in Handler, OwnStep(h), NEW o \in Handler, o # h
  PROVE  FiltersOK(o)'
<1>0. /\ Machine /\ GoodRequest(req[o]) /\ GoodRequest(req[h]) /\ FiltersOK(o)
      /\ req[o] \in Request /\ \A n \in Name : Apart(n)
  BY DEF FiltersInv, RowsInv, Machine, GoodRequest
<1>1. PICK n \in Name : n = req[o].name
  BY <1>0 DEF Request
<1>2. Like(req'[o], req[o])
  BY <1>0, OwnMove
<1>3. CASE n # req[h].name
  BY <1>0, <1>1, <1>2, <1>3, OwnFrame, FiltersCarried DEF SameFilters
<1>4. CASE req[h].pc \in {"count", "list", "next"}
  BY <1>0, <1>1, <1>2, <1>4, QuietGhosts, FiltersCarried DEF filters
<1>5. CASE req[o].pc \notin {"filter", "put", "answer"}
  BY <1>2, <1>5 DEF Like, FiltersOK, KnownAs
<1>6. CASE /\ n = req[h].name /\ req[h].pc \notin {"count", "list", "next"}
           /\ req[o].pc \in {"filter", "put", "answer"}
  <2>1. At(req[o], n) /\ At(req[h], n)
    BY <1>0, <1>1, <1>6, AtName, OwnBusy
  <2>2. ~req'[o].alone
    BY <1>0, <1>2, <2>1 DEF Apart, Like
  <2> QED BY <2>2 DEF FiltersOK
<1> QED BY <1>3, <1>4, <1>5, <1>6

\* What was answered of other deployments still holds.
LEMMA OthersGuard ==
  ASSUME FiltersInv, NEW h \in Handler, OwnStep(h), NEW n \in Name, n # req[h].name
  PROVE  GuardOK(n)'
<1>0. Machine /\ GuardOK(n)
  BY DEF FiltersInv, RowsInv
<1>1. SameFilters(n)
  BY <1>0, OwnFrame
<1>2. ASSUME NEW g \in Handler, req'[g].name = n, req'[g].pc \in {"filter", "put"}
      PROVE  req[g].name = n /\ req[g].pc \in {"filter", "put"}
  <2>1. CASE g # h
    BY <1>0, <1>2, <2>1, OwnMove DEF Like
  <2>2. CASE g = h
    <3>1. req'[h] # NoRequest
      BY <1>2, <2>2 DEF NoRequest
    <3>2. GoesOn(req'[h], req[h])
      BY <1>0, <3>1, OwnGoes
    <3> QED BY <1>2, <2>2, <3>2 DEF GoesOn
  <2> QED BY <2>1, <2>2
<1> QED BY <1>0, <1>1, <1>2 DEF GuardOK, SameFilters, Filtered

\* The invariant of the filters holds at first and after every step.
LEMMA FiltersInit == Init => FiltersInv
<1> SUFFICES ASSUME Init PROVE FiltersInv
  OBVIOUS
<1>1. NoRequest.pc = "idle"
  BY DEF NoRequest
<1>2. \A h \in Handler : req[h].pc = "idle"
  BY <1>1 DEF Init
<1>3. \A n \in Name : guarded[n] = Unknown
  BY DEF Init
<1> QED BY <1>2, <1>3, RowsInit DEF FiltersInv, FiltersOK, KnownAs, GuardOK

\* Every step keeps it, of the request at work as of those it did not meet.
LEMMA FiltersStep == FiltersInv /\ [Next]_vars => FiltersInv'
<1> SUFFICES ASSUME FiltersInv, [Next]_vars
             PROVE  (\A o \in Handler : FiltersOK(o)') /\ \A n \in Name : GuardOK(n)'
  BY RowsStep DEF FiltersInv
<1>0. /\ Machine /\ \A o \in Handler : FiltersOK(o) /\ GoodRequest(req[o]) /\ req[o].name \in Name
      /\ \A n \in Name : GuardOK(n)
  BY DEF FiltersInv, RowsInv, Machine, GoodRequest, Request
<1>a. ASSUME NEW n \in Name, vs'[n] = vs[n], jwt'[n] = jwt[n], guarded'[n] = guarded[n],
             \A h \in Handler : req'[h].pc \in {"filter", "put"} =>
               req'[h].name = req[h].name /\ req'[h].pc = req[h].pc
      PROVE  GuardOK(n)'
  BY <1>0, <1>a DEF GuardOK, Filtered
<1>1. ASSUME NEW h \in Handler, OwnStep(h)
      PROVE  (\A o \in Handler : FiltersOK(o)') /\ \A n \in Name : GuardOK(n)'
  BY <1>0, <1>1, OwnFilters, OthersFilters, OthersGuard
<1>2. ASSUME NEW h \in Handler, Start(h)
      PROVE  (\A o \in Handler : FiltersOK(o)') /\ \A n \in Name : GuardOK(n)'
  <2>1. PICK r : GoodRequest(r) /\ r.alone /\ r.pc \in Starting /\ Arrive(h, r)
    BY <1>2, StartIs
  <2>2. Like(req'[h], r) /\ \A o \in Handler : o # h => Like(req'[o], req[o])
    BY <1>0, <2>1, ArriveMove
  <2>3. UNCHANGED <<vs, jwt, guarded>>
    BY <2>1 DEF Arrive, filters
  <2>4. req'[h].pc \notin {"filter", "put", "answer"}
    BY <2>1, <2>2 DEF Like, Starting
  <2>5. FiltersOK(h)'
    BY <2>4 DEF FiltersOK, KnownAs
  <2>6. ASSUME NEW o \in Handler, o # h PROVE FiltersOK(o)'
    BY <1>0, <2>2, <2>3, <2>6, FiltersCarried
  <2>7. \A n \in Name : GuardOK(n)'
    BY <1>a, <2>2, <2>3, <2>4 DEF Like
  <2> QED BY <2>5, <2>6, <2>7
<1>3. CASE (\E n \in Name : AppVirtualService(n)) \/ PublishSite
  <2>1. /\ jwt' = jwt /\ \A h \in Handler : Like(req'[h], req[h])
        /\ \A n \in Name : \/ vs'[n] = vs[n] /\ guarded'[n] = guarded[n]
                          \/ /\ guarded'[n] = Unknown
                             /\ \A h \in Handler : n \in Touches(req[h]) /\ req[h].pc # "idle" =>
                                  ~req'[h].alone
    BY <1>0, <1>3, OutsideState
  <2>2. ASSUME NEW o \in Handler PROVE FiltersOK(o)'
    <3>1. PICK n \in Name : n = req[o].name
      BY <1>0
    <3>2. CASE vs'[n] = vs[n]
      BY <1>0, <2>1, <3>1, <3>2, FiltersCarried
    <3>3. CASE vs'[n] # vs[n] /\ req[o].pc \in {"filter", "put", "answer"}
      <4>1. At(req[o], n)
        BY <1>0, <3>1, <3>3, AtName
      <4>2. ~req'[o].alone
        BY <2>1, <3>3, <4>1 DEF At
      <4> QED BY <4>2 DEF FiltersOK
    <3>4. CASE req[o].pc \notin {"filter", "put", "answer"}
      BY <2>1, <3>4 DEF Like, FiltersOK, KnownAs
    <3> QED BY <3>2, <3>3, <3>4
  <2>3. ASSUME NEW n \in Name PROVE GuardOK(n)'
    <3>1. CASE guarded'[n] = Unknown
      BY <3>1 DEF GuardOK
    <3>2. CASE guarded'[n] # Unknown
      BY <1>a, <2>1, <3>2 DEF Like
    <3> QED BY <3>1, <3>2
  <2> QED BY <2>2, <2>3
<1>4. CASE UNCHANGED vars
  <2>1. UNCHANGED <<vs, jwt, guarded, req>>
    BY <1>4 DEF vars, filters, ghosts
  <2>2. \A o \in Handler : Like(req'[o], req[o])
    BY <2>1 DEF Like
  <2> QED BY <1>0, <1>a, <2>1, <2>2, FiltersCarried
<1> QED BY <1>1, <1>2, <1>3, <1>4 DEF Next, OwnStep

\* A deployment nothing interfered with has the filters it was answered with and no
\* others (FiltersAsAnswered), whatever was there before and whoever else changed the
\* virtual services and the objects for tokens of others meanwhile.
THEOREM DeployedIsFiltered == Spec => []FiltersAsAnswered
<1>1. FiltersInv => FiltersAsAnswered
  BY DEF FiltersInv, GuardOK, Filtered, FiltersAsAnswered
<1> QED BY <1>1, FiltersInit, FiltersStep, PTL DEF Spec
=====
