----------------------- MODULE ServiceInstancesProofs -----------------------
(***************************************************************************)
(* Proofs about the service instances, for any number of requests,         *)
(* instances, plans, operations and failures.                              *)
(***************************************************************************)
EXTENDS ServiceInstances, TLAPS

USE InstanceAssumption, PlanAssumption, BoundsAssumption

-----------------------------------------------------------------------------
(* Types of the parts. *)

\* The empty row and the empty request are a row and a request.
LEMMA EmptyTypes == NoRow \in Row /\ NoRequest \in Request
<1>1. (CHOOSE p \in Plan : TRUE) \in Plan
  OBVIOUS
<1>2. (CHOOSE i \in Instance : TRUE) \in Instance
  OBVIOUS
<1>3. 0 \in Key
  BY DEF Key
<1>4. NoRow \in Row
  BY <1>1, <1>3 DEF NoRow, Row, State
<1>5. NoRow.plan \in Plan
  BY <1>4 DEF Row
<1> QED BY <1>2, <1>3, <1>4, <1>5 DEF NoRequest, Request, State

\* What a started request is.
LEMMA ArriveType ==
  ASSUME TypeOK, NEW h \in Handler, NEW r \in Request, Arrive(h, r)
  PROVE  /\ req' \in [Handler -> Request]
         /\ stale' \subseteq Handler /\ suspect' \subseteq Instance
<1>1. r.instance \in Instance
  BY DEF Request
<1> QED BY <1>1 DEF TypeOK, Arrive, Suspect

\* A request that is over leaves an idle handler.
LEMMA DoneType ==
  ASSUME TypeOK, NEW h \in Handler, Done(h)
  PROVE  req' \in [Handler -> Request]
BY EmptyTypes DEF TypeOK, Done

\* The request that goes on to the broker carries the row that was read.
LEMMA ToCallType ==
  ASSUME TypeOK, NEW h \in Handler, NEW call \in {"provision", "update", "deprovision", "poll"},
         ToCall(h, call)
  PROVE  req' \in [Handler -> Request]
<1>1. req[h] \in Request /\ req[h].instance \in Instance /\ rows[req[h].instance] \in Row
  BY DEF TypeOK, Request
<1>2. [req[h] EXCEPT !.pc = "call", !.call = call, !.row = rows[req[h].instance]] \in Request
  BY <1>1 DEF Request
<1>3. req' = [req EXCEPT ![h] = [req[h] EXCEPT !.pc = "call", !.call = call,
                                               !.row = rows[req[h].instance]]]
  BY DEF ToCall
<1> QED BY <1>2, <1>3 DEF TypeOK

\* An answered request carries a key and a status.
LEMMA AnsweredType ==
  ASSUME TypeOK, NEW h \in Handler, NEW key \in Key, NEW status \in State,
         Answered(h, key, status)
  PROVE  req' \in [Handler -> Request]
<1>1. req[h] \in Request
  BY DEF TypeOK
<1>2. [req[h] EXCEPT !.pc = "write", !.key = key, !.status = status] \in Request
  BY <1>1 DEF Request
<1>3. req' = [req EXCEPT ![h] = [req[h] EXCEPT !.pc = "write", !.key = key, !.status = status]]
  BY DEF Answered
<1> QED BY <1>2, <1>3 DEF TypeOK

\* The plan a request asks for, or the one it read.
LEMMA PlanOfType ==
  ASSUME TypeOK, NEW h \in Handler
  PROVE  req[h] \in Request /\ req[h].instance \in Instance /\ PlanOf(h) \in Plan
BY DEF TypeOK, Request, Row, PlanOf

\* The broker's operations keep the broker's types.
LEMMA FinishTypes ==
  ASSUME TypeOK, NEW i \in Instance, NEW call \in {"provision", "update", "deprovision"},
         NEW p \in Plan, FinishAtOnce(i, call, p) \/ FinishLater(i, call, p)
  PROVE  /\ broker' \in [Instance -> Resource]
         /\ outcome' \in [1..MaxOps -> State]
         /\ ops' \in 0..MaxOps
<1>1. CASE FinishAtOnce(i, call, p)
  <2>1. [exists |-> call # "deprovision", plan |-> p, pending |-> "none", target |-> p,
         last |-> 0] \in Resource
    BY DEF Resource, Key
  <2> QED BY <1>1, <2>1 DEF TypeOK, FinishAtOnce
<1>2. CASE FinishLater(i, call, p)
  <2>1. ops \in 0..MaxOps /\ ops < MaxOps
    BY <1>2 DEF TypeOK, FinishLater
  <2>2. ops + 1 \in Key /\ ops + 1 \in 1..MaxOps
    BY <2>1 DEF Key
  <2>3. broker[i] \in Resource
    BY DEF TypeOK
  <2>4. [broker[i] EXCEPT !.pending = call, !.target = p, !.last = ops + 1] \in Resource
    BY <2>2, <2>3 DEF Resource
  <2>5. broker' \in [Instance -> Resource]
    BY <1>2, <2>4 DEF TypeOK, FinishLater
  <2>6. outcome' \in [1..MaxOps -> State]
    BY <1>2, <2>2 DEF TypeOK, FinishLater, State
  <2>7. ops' = ops + 1
    BY <1>2 DEF FinishLater
  <2>8. ops' \in 0..MaxOps
    BY <2>1, <2>7
  <2> QED BY <2>5, <2>6, <2>8
<1> QED BY <1>1, <1>2

\* What the broker says of an operation is a state.
LEMMA PolledType ==
  ASSUME TypeOK, NEW i \in Instance, NEW key \in Key
  PROVE  Polled(i, key) \in State
<1>1. broker[i].last \in Key
  BY DEF TypeOK, Resource
<1> DEFINE k == IF key = 0 THEN broker[i].last ELSE key
<1>2. k \in Key /\ (k # 0 => k \in 1..MaxOps)
  BY <1>1 DEF Key
<1> QED BY <1>2 DEF TypeOK, Polled, State

-----------------------------------------------------------------------------
(* The rows. *)

\* A row is only ever written with the type of a row.
LEMMA WriteRowTypes ==
  ASSUME TypeOK, NEW h \in Handler, WriteRow(h)
  PROVE  rows' \in [Instance -> Row]
<1> DEFINE me == req[h]
           i == req[h].instance
<1>1. i \in Instance /\ PlanOf(h) \in Plan /\ me.key \in Key /\ me.status \in State
  BY PlanOfType DEF Request
<1>2. [exists |-> TRUE, plan |-> PlanOf(h), key |-> me.key, status |-> me.status] \in Row
  BY <1>1 DEF Row
<1>3. CASE InsertInstanceInfo(i, PlanOf(h), me.key, me.status)
  BY <1>1, <1>2, <1>3 DEF TypeOK, InsertInstanceInfo
<1>4. CASE UpdateInstanceInfo(i, PlanOf(h), me.key, me.status)
  BY <1>1, <1>2, <1>4 DEF TypeOK, UpdateInstanceInfo
<1>5. CASE RemoveInstanceInfo(i)
  BY <1>1, <1>5, EmptyTypes DEF TypeOK, RemoveInstanceInfo
<1> QED BY <1>3, <1>4, <1>5 DEF WriteRow

\* Only a provision makes a row of none: an update writes a row that is there, a
\* removal leaves none.
LEMMA OnlyProvisionInserts ==
  ASSUME TypeOK, NEW h \in Handler, WriteRow(h), NEW i \in Instance,
         ~rows[i].exists, rows'[i].exists
  PROVE  /\ req[h].pc = "write" /\ req'[h].pc = "idle"
         /\ req[h].instance = i /\ req[h].call = "provision"
<1> DEFINE me == req[h]
           j == req[h].instance
<1>0. j \in Instance
  BY PlanOfType
<1>1. req[h].pc = "write" /\ req'[h].pc = "idle"
  BY DEF TypeOK, WriteRow, Done, NoRequest
<1>2. CASE /\ me.call = "provision"
           /\ InsertInstanceInfo(j, PlanOf(h), me.key, me.status)
  BY <1>0, <1>1, <1>2 DEF TypeOK, InsertInstanceInfo
<1>3. CASE UpdateInstanceInfo(j, PlanOf(h), me.key, me.status)
  BY <1>0, <1>3 DEF TypeOK, UpdateInstanceInfo
<1>4. CASE RemoveInstanceInfo(j)
  <2>1. ~NoRow.exists
    BY DEF NoRow
  <2> QED BY <1>0, <1>4, <2>1 DEF TypeOK, RemoveInstanceInfo
<1> QED BY <1>2, <1>3, <1>4 DEF WriteRow

-----------------------------------------------------------------------------
(* The types are an invariant. *)

LEMMA InitType == Init => TypeOK
<1> SUFFICES ASSUME Init PROVE TypeOK
  OBVIOUS
<1>1. NoRow.plan \in Plan
  BY EmptyTypes DEF Row
<1>2. [exists |-> FALSE, plan |-> NoRow.plan, pending |-> "none", target |-> NoRow.plan,
       last |-> 0] \in Resource
  BY <1>1 DEF Resource, Key
<1>3. /\ rows \in [Instance -> Row]
      /\ broker \in [Instance -> Resource]
      /\ req \in [Handler -> Request]
  BY <1>2, EmptyTypes DEF Init
<1>4. outcome \in [1..MaxOps -> State]
  BY DEF Init, State
<1>5. ops = 0 /\ requests = 0 /\ failures = 0 /\ stale = {} /\ suspect = {}
  BY DEF Init
<1> QED BY <1>3, <1>4, <1>5 DEF TypeOK

\* A request of a handler arrives, or goes on.
LEMMA StartTypes ==
  ASSUME TypeOK, NEW h \in Handler, NEW i \in Instance, NEW p \in Plan
  PROVE  /\ \A op \in {"put", "patch", "delete"} : StartChange(h, op, i, p) => TypeOK'
         /\ StartPoll(h, i) => TypeOK'
<1>1. ASSUME NEW op \in {"put", "patch", "delete"}, StartChange(h, op, i, p) PROVE TypeOK'
  <2> DEFINE r == [NoRequest EXCEPT !.pc = "read", !.op = op, !.instance = i, !.plan = p]
  <2>1. r \in Request
    BY EmptyTypes DEF Request
  <2>2. Arrive(h, r) /\ requests' = requests + 1 /\ requests < MaxRequests
    BY <1>1 DEF StartChange
  <2> HIDE DEF r
  <2>3. /\ req' \in [Handler -> Request]
        /\ stale' \subseteq Handler /\ suspect' \subseteq Instance
    BY <2>1, <2>2, ArriveType
  <2> QED BY <2>2, <2>3 DEF TypeOK, Arrive
<1>2. ASSUME StartPoll(h, i) PROVE TypeOK'
  <2> DEFINE r == [NoRequest EXCEPT !.pc = "read", !.op = "poll", !.instance = i]
  <2>1. r \in Request
    BY EmptyTypes DEF Request
  <2>2. Arrive(h, r) /\ UNCHANGED requests
    BY <1>2 DEF StartPoll
  <2> HIDE DEF r
  <2>3. /\ req' \in [Handler -> Request]
        /\ stale' \subseteq Handler /\ suspect' \subseteq Instance
    BY <2>1, <2>2, ArriveType
  <2> QED BY <2>2, <2>3 DEF TypeOK, Arrive
<1> QED BY <1>1, <1>2

LEMMA ReadTypes ==
  ASSUME TypeOK, NEW h \in Handler, ReadRow(h) \/ ReadNothing(h) \/ ReadFails(h)
  PROVE  TypeOK'
<1>0. req[h].instance \in Instance
  BY PlanOfType
<1>1. CASE ReadRow(h)
  <2>1. req' \in [Handler -> Request]
    BY <1>1, DoneType, ToCallType DEF ReadRow
  <2> QED BY <1>1, <2>1 DEF TypeOK, ReadRow, counters
<1>2. CASE ReadNothing(h)
  <2>1. req' \in [Handler -> Request]
    BY <1>2, DoneType, ToCallType DEF ReadNothing, NoRowFound
  <2> QED BY <1>2, <2>1 DEF TypeOK, ReadNothing, counters
<1>3. CASE ReadFails(h)
  <2>1. req' \in [Handler -> Request]
    BY <1>3, DoneType, ToCallType DEF ReadFails, NoRowFound
  <2>2. suspect' \subseteq Instance
    BY <1>0, <1>3 DEF TypeOK, ReadFails, Suspect
  <2>3. failures' \in 0..MaxFailures
    BY <1>3 DEF TypeOK, ReadFails
  <2> QED BY <1>3, <2>1, <2>2, <2>3 DEF TypeOK, ReadFails
<1> QED BY <1>1, <1>2, <1>3

LEMMA CallTypes ==
  ASSUME TypeOK, NEW h \in Handler,
         CallAccepted(h) \/ CallRefused(h) \/ PollAnswered(h) \/ CallFails(h)
  PROVE  TypeOK'
<1> DEFINE i == req[h].instance
           call == req[h].call
<1>0. /\ i \in Instance /\ PlanOf(h) \in Plan /\ req[h] \in Request
      /\ call # "poll" => call \in {"provision", "update", "deprovision"}
  BY PlanOfType DEF Request
<1>1. CASE CallAccepted(h)
  <2>1. call \in {"provision", "update", "deprovision"}
    BY <1>0, <1>1 DEF CallAccepted
  <2>2. CASE FinishAtOnce(i, call, PlanOf(h))
             /\ Answered(h, 0, IF call = "provision" THEN "in progress" ELSE "succeeded")
    <3> DEFINE status == IF call = "provision" THEN "in progress" ELSE "succeeded"
    <3>3. 0 \in Key /\ status \in State
      BY DEF Key, State
    <3>4. Answered(h, 0, status)
      BY <2>2
    <3> HIDE DEF status
    <3>1. req' \in [Handler -> Request]
      BY <3>3, <3>4, AnsweredType
    <3>2. broker' \in [Instance -> Resource] /\ outcome' \in [1..MaxOps -> State] /\ ops' \in 0..MaxOps
      BY <1>0, <2>1, <2>2, FinishTypes
    <3> QED BY <1>1, <3>1, <3>2 DEF TypeOK, CallAccepted
  <2>3. CASE FinishLater(i, call, PlanOf(h))
             /\ \E key \in {0, ops + 1} : Answered(h, key, "in progress")
    <3>0. ops \in 0..MaxOps /\ ops < MaxOps
      BY <2>3 DEF TypeOK, FinishLater
    <3>1. ops + 1 \in Key /\ 0 \in Key
      BY <3>0 DEF Key
    <3>2. req' \in [Handler -> Request]
      BY <2>3, <3>1, AnsweredType DEF State
    <3>3. broker' \in [Instance -> Resource] /\ outcome' \in [1..MaxOps -> State] /\ ops' \in 0..MaxOps
      BY <1>0, <2>1, <2>3, FinishTypes
    <3> QED BY <1>1, <3>2, <3>3 DEF TypeOK, CallAccepted
  <2>4. CASE Answered(h, broker[i].last, "in progress") /\ UNCHANGED <<broker, outcome, ops>>
    <3>1. broker[i].last \in Key
      BY <1>0 DEF TypeOK, Resource
    <3>2. req' \in [Handler -> Request]
      BY <2>4, <3>1, AnsweredType DEF State
    <3> QED BY <1>1, <2>4, <3>2 DEF TypeOK, CallAccepted
  <2> QED BY <1>1, <2>2, <2>3, <2>4 DEF CallAccepted
<1>2. CASE CallRefused(h)
  <2>1. req' \in [Handler -> Request]
    BY <1>2, DoneType DEF CallRefused
  <2> QED BY <1>2, <2>1 DEF TypeOK, CallRefused, counters
<1>3. CASE PollAnswered(h)
  <2>1. req[h].row.key \in Key
    BY <1>0 DEF Request, Row
  <2>2. Polled(i, req[h].row.key) \in State
    BY <1>0, <2>1, PolledType
  <2>3. req' \in [Handler -> Request]
    BY <1>3, <2>1, <2>2, AnsweredType DEF PollAnswered
  <2> QED BY <1>3, <2>3 DEF TypeOK, PollAnswered, counters
<1>4. CASE CallFails(h)
  <2>1. req' \in [Handler -> Request]
    BY <1>4, DoneType DEF CallFails
  <2>2. failures' \in 0..MaxFailures
    BY <1>4 DEF TypeOK, CallFails
  <2>3. CASE UNCHANGED <<broker, outcome, ops, suspect>>
    BY <1>4, <2>1, <2>2, <2>3 DEF TypeOK, CallFails
  <2>4. CASE /\ call # "poll"
             /\ FinishAtOnce(i, call, PlanOf(h)) \/ FinishLater(i, call, PlanOf(h))
             /\ Suspect(i)
    <3>1. broker' \in [Instance -> Resource] /\ outcome' \in [1..MaxOps -> State] /\ ops' \in 0..MaxOps
      BY <1>0, <2>4, FinishTypes
    <3>2. suspect' \subseteq Instance
      BY <1>0, <2>4 DEF TypeOK, Suspect
    <3> QED BY <1>4, <2>1, <2>2, <3>1, <3>2 DEF TypeOK, CallFails
  <2> QED BY <1>4, <2>3, <2>4 DEF CallFails
<1> QED BY <1>1, <1>2, <1>3, <1>4

LEMMA WriteTypes ==
  ASSUME TypeOK, NEW h \in Handler, WriteRow(h) \/ WriteFails(h)
  PROVE  TypeOK'
<1>0. req[h].instance \in Instance
  BY PlanOfType
<1>1. CASE WriteRow(h)
  <2>1. rows' \in [Instance -> Row]
    BY <1>1, WriteRowTypes
  <2>2. req' \in [Handler -> Request]
    BY <1>1, DoneType DEF WriteRow
  <2>3. stale' \subseteq Handler /\ suspect' \subseteq Instance
    BY <1>0, <1>1 DEF TypeOK, WriteRow, Suspect
  <2> QED BY <1>1, <2>1, <2>2, <2>3 DEF TypeOK, WriteRow, counters
<1>2. CASE WriteFails(h)
  <2>1. req' \in [Handler -> Request]
    BY <1>2, DoneType DEF WriteFails
  <2>2. suspect' \subseteq Instance
    BY <1>0, <1>2 DEF TypeOK, WriteFails, Suspect
  <2>3. failures' \in 0..MaxFailures
    BY <1>2 DEF TypeOK, WriteFails
  <2> QED BY <1>2, <2>1, <2>2, <2>3 DEF TypeOK, WriteFails
<1> QED BY <1>1, <1>2

LEMMA EndsTypes ==
  ASSUME TypeOK, NEW i \in Instance, NEW ok \in BOOLEAN, OperationEnds(i, ok)
  PROVE  TypeOK'
<1>1. broker[i] \in Resource
  BY DEF TypeOK
<1>2. [broker[i] EXCEPT !.pending = "none",
                        !.plan = IF ok THEN broker[i].target ELSE @,
                        !.exists = IF ok THEN broker[i].pending # "deprovision" ELSE @] \in Resource
  BY <1>1 DEF Resource
<1>3. broker' \in [Instance -> Resource]
  BY <1>1, <1>2 DEF TypeOK, OperationEnds, Resource
<1>4. outcome' \in [1..MaxOps -> State]
  BY DEF TypeOK, OperationEnds, State
<1>5. suspect' \subseteq Instance
  BY DEF TypeOK, OperationEnds, Suspect
<1> QED BY <1>3, <1>4, <1>5 DEF TypeOK, OperationEnds, counters

\* Every step keeps the types.
LEMMA NextType == TypeOK /\ [Next]_vars => TypeOK'
<1> SUFFICES ASSUME TypeOK, [Next]_vars PROVE TypeOK'
  OBVIOUS
<1>1. ASSUME NEW h \in Handler, NEW i \in Instance, NEW p \in Plan, NEW op \in {"put", "patch"},
             StartChange(h, op, i, p)
      PROVE  TypeOK'
  BY <1>1, StartTypes
<1>2. ASSUME NEW h \in Handler, NEW i \in Instance, NEW p \in Plan, StartChange(h, "delete", i, p)
      PROVE  TypeOK'
  BY <1>2, StartTypes
<1>3. ASSUME NEW h \in Handler, Step(h) PROVE TypeOK'
  BY <1>3, ReadTypes, CallTypes, WriteTypes DEF Step
<1>4. ASSUME NEW h \in Handler, Failure(h) PROVE TypeOK'
  BY <1>4, ReadTypes, CallTypes, WriteTypes DEF Failure
<1>5. ASSUME NEW i \in Instance, Poll(i) PROVE TypeOK'
  BY <1>5, StartTypes DEF Poll
<1>6. ASSUME NEW i \in Instance, Ends(i) PROVE TypeOK'
  BY <1>6, EndsTypes DEF Ends
<1>7. CASE UNCHANGED vars
  BY <1>7 DEF TypeOK, vars
<1> QED BY <1>1, <1>2, <1>3, <1>4, <1>5, <1>6, <1>7 DEF Next

\* Rows, the broker's instances, the requests and the keys are always of their
\* types: no operation writes a row with a key the broker never gave out.
THEOREM InstancesTypeCorrect == Spec => []TypeOK
<1>1. Init => TypeOK
  BY InitType
<1>2. TypeOK /\ [Next]_vars => TypeOK'
  BY NextType
<1> QED BY <1>1, <1>2, PTL DEF Spec

-----------------------------------------------------------------------------
(* No resurrection. *)

\* Only the write of a request touches the rows.
LEMMA RowsOnlyWritten ==
  ASSUME [Next]_vars, ~ \E h \in Handler : WriteRow(h)
  PROVE  rows' = rows
<1>1. ASSUME NEW h \in Handler, NEW r, Arrive(h, r) PROVE rows' = rows
  BY <1>1 DEF Arrive
<1>2. ASSUME NEW h \in Handler, Step(h) PROVE rows' = rows
  BY <1>2 DEF Step, ReadRow, ReadNothing, CallAccepted, CallRefused, PollAnswered
<1>3. ASSUME NEW h \in Handler, Failure(h) PROVE rows' = rows
  BY <1>3 DEF Failure, ReadFails, CallFails, WriteFails
<1>4. ASSUME NEW h \in Handler, NEW i \in Instance, NEW p, NEW op, StartChange(h, op, i, p)
      PROVE  rows' = rows
  BY <1>1, <1>4 DEF StartChange
<1>5. ASSUME NEW i \in Instance, Poll(i) PROVE rows' = rows
  BY <1>1, <1>5 DEF Poll, StartPoll
<1>6. ASSUME NEW i \in Instance, Ends(i) PROVE rows' = rows
  BY <1>6 DEF Ends, OperationEnds
<1>7. CASE UNCHANGED vars
  BY <1>7 DEF vars
<1> QED BY <1>2, <1>3, <1>4, <1>5, <1>6, <1>7 DEF Next

\* A row that was removed comes back through a provision only, however many
\* requests overlap and whatever fails: the polls and updates that were under way
\* when it was removed (open-service-brokers.go, UpdateInstanceInfo) write nothing.
THEOREM NothingIsResurrected == Spec => NoResurrection
<1> DEFINE Inserted(i, h) == /\ req[h].pc = "write" /\ req'[h].pc = "idle"
                             /\ req[h].instance = i /\ req[h].call = "provision"
           Inserts == \A i \in Instance :
                        ~rows[i].exists /\ rows'[i].exists => \E h \in Handler : Inserted(i, h)
<1>1. TypeOK /\ [Next]_vars => Inserts
  <2> SUFFICES ASSUME TypeOK, [Next]_vars, NEW i \in Instance, ~rows[i].exists, rows'[i].exists
               PROVE  \E h \in Handler : Inserted(i, h)
    OBVIOUS
  <2>1. PICK h \in Handler : WriteRow(h)
    BY RowsOnlyWritten
  <2>2. Inserted(i, h)
    BY <2>1, OnlyProvisionInserts
  <2> QED BY <2>2
<1>2. [][Inserts]_vars <=> NoResurrection
  BY PTL DEF NoResurrection
<1>3. [][Next]_vars /\ []TypeOK => [][Inserts]_vars
  BY <1>1, PTL
<1> QED BY <1>2, <1>3, InstancesTypeCorrect, PTL DEF Spec

-----------------------------------------------------------------------------
(* Rows and brokers agree. *)

\* A request calls the broker for what it is.
Fits(call, op) == CASE call \in {"provision", "update"} -> op \in {"put", "patch"}
                    [] call = "deprovision"             -> op = "delete"
                    [] call = "poll"                    -> op = "poll"
OpOK(r) == r.pc \in {"call", "write"} => Fits(r.call, r.op)

\* The broker: keys are given out once, and what it says of its last operation.
KeysOK == /\ \A i \in Instance : broker[i].last <= ops
          /\ \A i, j \in Instance : i # j => broker[i].last = 0 \/ broker[i].last # broker[j].last
\* Its last operation ended well, as far as it tells.
Ended(i) == broker[i].last = 0 \/ outcome[broker[i].last] = "succeeded"
BrokerOK(i) == Ended(i) => broker[i].pending = "none" /\ broker[i].plan = broker[i].target

\* An accepted change is to be written.  There is only one change of an instance, or
\* it is suspect.
Writing(h, i) == Changes(h, i) /\ req[h].pc = "write"
Apart(i) == i \notin suspect =>
              \A h \in Handler : Changes(h, i) => \A g \in Handler \ {h} : ~Changes(g, i)

\* A row with this plan, key and status is about the last operation of the broker.
About(i, plan, key, status) ==
  /\ broker[i].pending # "deprovision" /\ plan = broker[i].target /\ key \in {0, broker[i].last}
  /\ Ended(i) => broker[i].exists
  /\ status = "succeeded" => Ended(i)
\* The broker has nothing, or is about to.
Removed(i) == IF broker[i].pending = "none" THEN ~broker[i].exists
              ELSE broker[i].pending = "deprovision"

\* Unless an accepted change is still to be written, the row is about the last
\* operation, and without a row there is nothing.
RowOK(i) ==
  i \notin suspect /\ (\A h \in Handler : ~Writing(h, i)) =>
    IF rows[i].exists THEN About(i, rows[i].plan, rows[i].key, rows[i].status)
    ELSE Removed(i)

\* What a change knows, and what it is to write ...
ChangeOK(h, i) ==
  LET r == req[h] IN
  Changes(h, i) /\ i \notin suspect =>
    /\ r.pc \in {"call", "write"} => (rows[i].exists <=> r.call # "provision")
    /\ r.pc = "write" => IF r.call = "deprovision" THEN Removed(i)
                         ELSE About(i, r.plan, r.key, r.status)
\* ... and a poll, unless a change wrote the row since: the plan and the key of the
\* row, and how the last operation stands, if no accepted one is still to be written.
InFlight(h, i) == Busy(h, i) /\ req[h].op = "poll" /\ req[h].pc \in {"call", "write"}
PollOK(h, i) ==
  LET r == req[h] IN
  InFlight(h, i) /\ i \notin suspect /\ h \notin stale =>
    /\ rows[i].exists /\ r.row.plan = rows[i].plan /\ r.row.key = rows[i].key
    /\ r.pc = "write" =>
         /\ r.key = r.row.key
         /\ r.status = "succeeded" /\ (\A g \in Handler : ~Writing(g, i)) => Ended(i)
HandlerOK(h, i) == ChangeOK(h, i) /\ PollOK(h, i)

InstanceOK(i) == BrokerOK(i) /\ Apart(i) /\ RowOK(i) /\ \A h \in Handler : HandlerOK(h, i)
Inv == TypeOK /\ KeysOK /\ (\A h \in Handler : OpOK(req[h])) /\ \A i \in Instance : InstanceOK(i)

\* The request of a handler goes on or ends.
Moves(h, r) ==
  /\ req' = [req EXCEPT ![h] = r] /\ req[h].pc # "idle"
  /\ r.pc # "idle" => r.op = req[h].op /\ r.instance = req[h].instance /\ r.plan = req[h].plan
  /\ OpOK(r)

\* The empty request is idle.
LEMMA NoRequestIdle == NoRequest.pc = "idle" /\ OpOK(NoRequest) /\ ~NoRow.exists
BY DEF NoRequest, OpOK, NoRow

\* A request that ends moves.
LEMMA DoneMoves ==
  ASSUME NEW h \in Handler, Done(h), req[h].pc # "idle"
  PROVE  Moves(h, NoRequest)
BY NoRequestIdle DEF Done, Moves

\* So does one that goes on to the broker ...
LEMMA ToCallMoves ==
  ASSUME TypeOK, NEW h \in Handler, NEW call \in {"provision", "update", "deprovision", "poll"},
         ToCall(h, call), req[h].pc # "idle", Fits(call, req[h].op)
  PROVE  \E r \in Request : /\ Moves(h, r) /\ r.pc = "call" /\ r.call = call
                            /\ r.row = rows[req[h].instance]
<1> DEFINE r == [req[h] EXCEPT !.pc = "call", !.call = call, !.row = rows[req[h].instance]]
<1>1. req[h] \in Request /\ req[h].instance \in Instance /\ rows[req[h].instance] \in Row
  BY DEF TypeOK, Request
<1>2. /\ r \in Request /\ r.pc = "call" /\ r.call = call /\ r.row = rows[req[h].instance]
      /\ r.op = req[h].op /\ r.instance = req[h].instance /\ r.plan = req[h].plan
  BY <1>1 DEF Request
<1>3. req' = [req EXCEPT ![h] = r]
  BY DEF ToCall
<1> HIDE DEF r
<1>4. Moves(h, r)
  BY <1>2, <1>3 DEF Moves, OpOK
<1> QED BY <1>2, <1>4

\* ... and one that was answered.
LEMMA AnsweredMoves ==
  ASSUME TypeOK, NEW h \in Handler, OpOK(req[h]), req[h].pc = "call",
         NEW key \in Key, NEW status \in State, Answered(h, key, status)
  PROVE  \E r \in Request : /\ Moves(h, r) /\ r.pc = "write" /\ r.call = req[h].call
                            /\ r.row = req[h].row /\ r.key = key /\ r.status = status
<1> DEFINE r == [req[h] EXCEPT !.pc = "write", !.key = key, !.status = status]
<1>1. req[h] \in Request
  BY DEF TypeOK
<1>2. /\ r \in Request /\ r.pc = "write" /\ r.call = req[h].call /\ r.row = req[h].row
      /\ r.key = key /\ r.status = status
      /\ r.op = req[h].op /\ r.instance = req[h].instance /\ r.plan = req[h].plan
  BY <1>1 DEF Request
<1>3. req' = [req EXCEPT ![h] = r]
  BY DEF Answered
<1> HIDE DEF r
<1>4. Moves(h, r)
  BY <1>2, <1>3 DEF Moves, OpOK
<1> QED BY <1>2, <1>4

\* A request that moves leaves the others where they are.
LEMMA OthersStay ==
  ASSUME TypeOK, NEW i, NEW h \in Handler, NEW r, Moves(h, r)
  PROVE  /\ req'[h] = r /\ \A g \in Handler \ {h} : req'[g] = req[g]
         /\ \A g \in Handler : /\ Busy(g, i)' => Busy(g, i)
                               /\ Changes(g, i)' => Changes(g, i)
         /\ \A g \in Handler \ {h} : Writing(g, i)' <=> Writing(g, i)
         /\ (\A g \in Handler : OpOK(req[g])) => \A g \in Handler : OpOK(req'[g])
<1>1. req'[h] = r /\ \A g \in Handler \ {h} : req'[g] = req[g]
  BY DEF Moves, TypeOK
<1> QED BY <1>1 DEF Moves, Busy, Changes, Writing

\* A step that leaves row and broker alone; what was to be written is suspect.
LEMMA InstanceKept ==
  ASSUME TypeOK, NEW i \in Instance, InstanceOK(i), NEW h \in Handler, NEW r, Moves(h, r),
         rows'[i] = rows[i], broker'[i] = broker[i], Ended(i)' <=> Ended(i),
         i \in suspect => i \in suspect', stale \subseteq stale',
         Busy(h, i) => (i \in suspect' \/ ~Writing(h, i)) /\ HandlerOK(h, i)'
  PROVE  InstanceOK(i)'
<1>1. /\ req'[h] = r /\ \A g \in Handler \ {h} : req'[g] = req[g]
      /\ \A g \in Handler : (Busy(g, i)' => Busy(g, i)) /\ (Changes(g, i)' => Changes(g, i))
      /\ \A g \in Handler \ {h} : Writing(g, i)' <=> Writing(g, i)
  BY OthersStay
<1>2. BrokerOK(i)' /\ Apart(i)'
  BY <1>1 DEF InstanceOK, BrokerOK, Apart
<1>3. RowOK(i)'
  <2>1. ASSUME i \notin suspect', \A g \in Handler : ~Writing(g, i)'
        PROVE  \A g \in Handler : ~Writing(g, i)
    BY <1>1, <2>1 DEF Writing, Changes
  <2> QED BY <2>1 DEF InstanceOK, RowOK, About, Removed
<1>4. ASSUME NEW g \in Handler PROVE HandlerOK(g, i)'
  <2>1. CASE g = h /\ Busy(h, i)
    BY <2>1
  <2>2. CASE g = h /\ ~Busy(h, i)
    BY <1>1, <2>2 DEF HandlerOK, ChangeOK, PollOK, InFlight, Changes
  <2>3. CASE g # h
    <3>1. req'[g] = req[g] /\ HandlerOK(g, i)
      BY <1>1, <2>3 DEF InstanceOK
    <3>2. ChangeOK(g, i)'
      BY <3>1 DEF HandlerOK, ChangeOK, Changes, Busy, About, Removed
    <3>3. PollOK(g, i)'
      <4> SUFFICES ASSUME InFlight(g, i)', i \notin suspect', g \notin stale' PROVE PollOK(g, i)'
        BY DEF PollOK
      <4>1. InFlight(g, i) /\ PollOK(g, i) /\ i \notin suspect /\ g \notin stale
        BY <3>1 DEF HandlerOK, InFlight, Busy
      <4>2. (\A o \in Handler : ~Writing(o, i)') => \A o \in Handler : ~Writing(o, i)
        <5>1. ~Writing(h, i) \/ ~Busy(h, i)
          BY <4>1
        <5> QED BY <1>1, <5>1 DEF Writing, Changes
      <4> QED BY <3>1, <4>1, <4>2 DEF PollOK
    <3> QED BY <3>2, <3>3 DEF HandlerOK
  <2> QED BY <2>1, <2>2, <2>3
<1> QED BY <1>2, <1>3, <1>4 DEF InstanceOK

\* A step of a request that changes the instance: it is the only one, and the polls
\* know what they knew, or do not count any more.
LEMMA InstanceAlone ==
  ASSUME TypeOK, NEW i \in Instance, InstanceOK(i), NEW h \in Handler, NEW r, Moves(h, r),
         Changes(h, i), i \in suspect => i \in suspect',
         BrokerOK(i)', RowOK(i)', HandlerOK(h, i)', \A g \in Handler \ {h} : PollOK(g, i)'
  PROVE  InstanceOK(i)'
<1>1. \A g \in Handler : (Busy(g, i)' => Busy(g, i)) /\ (Changes(g, i)' => Changes(g, i))
  BY OthersStay
<1>2. i \notin suspect' => \A g \in Handler \ {h} : ~Changes(g, i)'
  BY <1>1 DEF InstanceOK, Apart
<1>3. Apart(i)'
  BY <1>1 DEF InstanceOK, Apart
<1>4. \A g \in Handler \ {h} : HandlerOK(g, i)'
  BY <1>2 DEF HandlerOK, ChangeOK
<1> QED BY <1>3, <1>4 DEF InstanceOK

\* The keys of the operations.
LEMMA KeyFacts ==
  ASSUME TypeOK, KeysOK
  PROVE  /\ ops \in Nat /\ ops <= MaxOps
         /\ \A j \in Instance : broker[j].last \in Nat /\ broker[j].last <= ops
         /\ \A j \in Instance : broker[j].last # 0 => broker[j].last \in 1..MaxOps
<1>1. ops \in Nat /\ ops <= MaxOps
  BY DEF TypeOK
<1>2. ASSUME NEW j \in Instance PROVE broker[j].last \in 0..MaxOps /\ broker[j].last <= ops
  <2>1. broker[j] \in Resource
    BY DEF TypeOK
  <2> QED BY <2>1 DEF Resource, Key, KeysOK
<1> QED BY <1>1, <1>2

\* The broker finishes an operation at once.
LEMMA AtOnceFacts ==
  ASSUME TypeOK, KeysOK, NEW i \in Instance, NEW call \in {"provision", "update", "deprovision"},
         NEW p \in Plan, FinishAtOnce(i, call, p)
  PROVE  /\ KeysOK' /\ BrokerOK(i)' /\ broker'[i].target = p
         /\ \A j \in Instance \ {i} : broker'[j] = broker[j] /\ (Ended(j)' <=> Ended(j))
         /\ broker'[i].exists = (call # "deprovision")
         /\ broker'[i].pending = "none" /\ broker'[i].last = 0 /\ Ended(i)'
<1>1. /\ broker'[i] = [exists |-> call # "deprovision", plan |-> p, pending |-> "none",
                       target |-> p, last |-> 0]
      /\ \A j \in Instance \ {i} : broker'[j] = broker[j]
      /\ outcome' = outcome /\ ops' = ops
  BY DEF FinishAtOnce, TypeOK
<1>2. /\ broker'[i].exists = (call # "deprovision") /\ broker'[i].plan = p
      /\ broker'[i].pending = "none" /\ broker'[i].target = p /\ broker'[i].last = 0
  BY <1>1
<1>3. \A j \in Instance : broker'[j].last <= ops'
  BY <1>1, <1>2, KeyFacts
<1>4. \A j, k \in Instance : j # k => broker'[j].last = 0 \/ broker'[j].last # broker'[k].last
  BY <1>1, <1>2 DEF KeysOK
<1>5. KeysOK'
  BY <1>3, <1>4 DEF KeysOK
<1>6. \A j \in Instance \ {i} : Ended(j)' <=> Ended(j)
  BY <1>1 DEF Ended
<1> QED BY <1>1, <1>2, <1>5, <1>6 DEF BrokerOK, Ended

\* The broker is to finish an operation later: it gives out a new key.
LEMMA LaterFacts ==
  ASSUME TypeOK, KeysOK, NEW i \in Instance, NEW call \in {"provision", "update", "deprovision"},
         NEW p \in Plan, FinishLater(i, call, p)
  PROVE  /\ KeysOK' /\ BrokerOK(i)' /\ broker'[i].target = p
         /\ \A j \in Instance \ {i} : broker'[j] = broker[j] /\ (Ended(j)' <=> Ended(j))
         /\ broker'[i].exists = broker[i].exists
         /\ broker'[i].pending = call /\ broker'[i].last = ops + 1 /\ ~Ended(i)'
         /\ ops + 1 \in Key
<1>1. /\ broker'[i] = [broker[i] EXCEPT !.pending = call, !.target = p, !.last = ops + 1]
      /\ \A j \in Instance \ {i} : broker'[j] = broker[j]
      /\ outcome' = [outcome EXCEPT ![ops + 1] = "in progress"] /\ ops' = ops + 1
      /\ ops < MaxOps
  BY DEF FinishLater, TypeOK
<1>0. ops \in Nat /\ ops < MaxOps /\ ops' = ops + 1
  BY <1>1, KeyFacts
<1>2. ops + 1 \in 1..MaxOps /\ ops + 1 \in Key /\ ops + 1 # 0
  BY <1>0 DEF Key
<1>3. broker[i] \in Resource
  BY DEF TypeOK
<1>4. /\ broker'[i].pending = call /\ broker'[i].target = p /\ broker'[i].last = ops + 1
      /\ broker'[i].exists = broker[i].exists
  BY <1>1, <1>3 DEF Resource
<1>5. outcome'[ops + 1] = "in progress" /\ \A k \in 1..MaxOps : k # ops + 1 => outcome'[k] = outcome[k]
  BY <1>1, <1>2 DEF TypeOK
<1>6. ASSUME NEW j \in Instance \ {i}
      PROVE  /\ broker'[j].last \in Nat /\ broker'[j].last <= ops /\ broker'[j].last # ops + 1
             /\ broker'[j].last = broker[j].last
  <2>1. broker'[j].last = broker[j].last
    BY <1>1
  <2>2. broker[j].last \in Nat /\ broker[j].last <= ops /\ ops \in Nat
    BY KeyFacts
  <2> QED BY <2>1, <2>2
<1>7. KeysOK'
  <2>1. ASSUME NEW j \in Instance PROVE broker'[j].last <= ops'
    <3>1. CASE j = i
      BY <1>0, <1>4, <3>1
    <3>2. CASE j # i
      BY <1>0, <1>6, <3>2
    <3> QED BY <3>1, <3>2
  <2>2. ASSUME NEW j \in Instance, NEW k \in Instance, j # k
        PROVE  broker'[j].last = 0 \/ broker'[j].last # broker'[k].last
    <3>1. CASE j = i \/ k = i
      BY <1>4, <1>6, <2>2, <3>1
    <3>2. CASE j # i /\ k # i
      BY <1>6, <2>2, <3>2 DEF KeysOK
    <3> QED BY <3>1, <3>2
  <2> QED BY <2>1, <2>2 DEF KeysOK
<1>8. ASSUME NEW j \in Instance \ {i} PROVE Ended(j)' <=> Ended(j)
  <2>1. broker'[j].last = broker[j].last /\ broker'[j].last # ops + 1
    BY <1>6
  <2>2. broker[j].last # 0 => broker[j].last \in 1..MaxOps
    BY KeyFacts
  <2> QED BY <1>5, <2>1, <2>2 DEF Ended
<1>9. ~Ended(i)'
  BY <1>2, <1>4, <1>5 DEF Ended
<1> QED BY <1>1, <1>2, <1>4, <1>7, <1>8, <1>9 DEF BrokerOK

\* Nothing is asked of a suspect instance but that its broker is as it says.
LEMMA SuspectOK ==
  ASSUME NEW i \in Instance, i \in suspect', BrokerOK(i)'
  PROVE  InstanceOK(i)'
BY DEF InstanceOK, Apart, RowOK, HandlerOK, ChangeOK, PollOK

\* A step of a request that keeps its own instance keeps the others.
LEMMA MoveKeepsInv ==
  ASSUME Inv, TypeOK', KeysOK', NEW h \in Handler, NEW i \in Instance, req[h].instance = i,
         NEW r, Moves(h, r), suspect \subseteq suspect', stale \subseteq stale',
         \A j \in Instance \ {i} :
           rows'[j] = rows[j] /\ broker'[j] = broker[j] /\ (Ended(j)' <=> Ended(j)),
         InstanceOK(i)'
  PROVE  Inv'
<1>1. \A g \in Handler : OpOK(req'[g])
  BY OthersStay DEF Inv
<1>2. ASSUME NEW j \in Instance, j # i PROVE InstanceOK(j)'
  <2>1. ~Busy(h, j)
    BY <1>2 DEF Busy
  <2> QED BY <1>2, <2>1, InstanceKept DEF Inv
<1> QED BY <1>1, <1>2 DEF Inv

\* So does one that leaves rows and broker alone.
LEMMA QuietKeepsInv ==
  ASSUME Inv, TypeOK', NEW h \in Handler, NEW i \in Instance, req[h].instance = i,
         NEW r, Moves(h, r), suspect \subseteq suspect',
         UNCHANGED <<rows, broker, outcome, ops, stale>>,
         i \in suspect' \/ (~Writing(h, i) /\ HandlerOK(h, i)')
  PROVE  Inv'
<1>2. KeysOK' /\ \A j \in Instance : Ended(j)' <=> Ended(j)
  BY DEF Inv, KeysOK, Ended
<1>3. InstanceOK(i)'
  <2>1. CASE i \in suspect'
    <3>1. BrokerOK(i)'
      BY <1>2 DEF Inv, InstanceOK, BrokerOK
    <3> QED BY <2>1, <3>1, SuspectOK
  <2>2. CASE ~Writing(h, i) /\ HandlerOK(h, i)'
    <3>1. InstanceOK(i) /\ TypeOK /\ (i \in suspect => i \in suspect')
      BY DEF Inv
    <3> QED BY <1>2, <2>2, <3>1, InstanceKept
  <2> QED BY <2>1, <2>2
<1> QED BY <1>2, <1>3, MoveKeepsInv

\* A request that is over has nothing to know.
LEMMA IdleOK ==
  ASSUME TypeOK, NEW h \in Handler, NEW i \in Instance, Moves(h, NoRequest)
  PROVE  HandlerOK(h, i)' /\ ~Busy(h, i)'
<1>1. req'[h].pc = "idle"
  BY NoRequestIdle, OthersStay
<1> QED BY <1>1 DEF HandlerOK, ChangeOK, PollOK, InFlight, Changes, Busy

\* A row is read, or not found.
LEMMA ReadInv ==
  ASSUME Inv, TypeOK', NEW h \in Handler, NEW i \in Instance, req[h].instance = i,
         ReadRow(h) \/ ReadNothing(h) \/ ReadFails(h)
  PROVE  Inv'
<1>0. TypeOK /\ req[h] \in Request /\ req[h].pc = "read" /\ ~Writing(h, i)
  BY DEF Inv, TypeOK, Request, ReadRow, ReadNothing, ReadFails, Writing
<1>1. /\ UNCHANGED <<rows, broker, outcome, ops, stale>> /\ suspect \subseteq suspect'
  BY DEF ReadRow, ReadNothing, ReadFails, Suspect, counters
<1>2. CASE Done(h)
  <2>1. Moves(h, NoRequest)
    BY <1>0, <1>2, DoneMoves
  <2> QED BY <1>0, <1>1, <2>1, IdleOK, QuietKeepsInv DEF Inv
<1>3. ASSUME NEW call \in {"provision", "update", "deprovision", "poll"}, ToCall(h, call),
             Fits(call, req[h].op),
             i \in suspect' \/ (rows[i].exists <=> call # "provision")
      PROVE  Inv'
  <2>1. PICK r \in Request : Moves(h, r) /\ r.pc = "call" /\ r.call = call /\ r.row = rows[i]
    BY <1>0, <1>3, ToCallMoves
  <2>2. req'[h] = r /\ r.op = req[h].op
    BY <1>0, <2>1, OthersStay DEF Moves
  <2>3. i \in suspect' \/ HandlerOK(h, i)'
    <3>1. SUFFICES ASSUME i \notin suspect' PROVE HandlerOK(h, i)'
      OBVIOUS
    <3>2. (rows'[i].exists <=> call # "provision") /\ req'[h].pc = "call" /\ req'[h].call = call
      BY <1>1, <1>3, <2>1, <2>2, <3>1
    <3>3. ChangeOK(h, i)'
      BY <3>2 DEF ChangeOK
    <3>4. req'[h].op = "poll" => rows'[i].exists
      BY <1>3, <2>2, <3>2 DEF Fits
    <3>5. req'[h].row = rows'[i] /\ req'[h].pc # "write"
      BY <1>1, <2>1, <2>2
    <3>6. SUFFICES ASSUME InFlight(h, i)' PROVE PollOK(h, i)'
      BY <3>3 DEF PollOK, HandlerOK
    <3>7. rows'[i].exists
      BY <3>4, <3>6 DEF InFlight
    <3>8. PollOK(h, i)'
      BY <3>5, <3>7 DEF PollOK
    <3> QED BY <3>8
  <2> QED BY <1>0, <1>1, <2>1, <2>3, QuietKeepsInv
<1>4. CASE ReadRow(h)
  <2>1. rows[i].exists
    BY <1>4 DEF ReadRow
  <2>2. CASE req[h].op \in {"put", "patch"} /\ ToCall(h, "update")
    BY <1>3, <2>1, <2>2 DEF Fits
  <2>3. CASE req[h].op = "delete" /\ ToCall(h, "deprovision")
    BY <1>3, <2>1, <2>3 DEF Fits
  <2>4. CASE req[h].op = "poll" /\ ToCall(h, "poll")
    BY <1>3, <2>1, <2>4 DEF Fits
  <2> QED BY <1>2, <1>4, <2>2, <2>3, <2>4 DEF ReadRow
<1>5. CASE ReadNothing(h)
  <2>1. ~rows[i].exists
    BY <1>5 DEF ReadNothing
  <2>2. CASE req[h].op = "put" /\ ToCall(h, "provision")
    BY <1>3, <2>1, <2>2 DEF Fits
  <2> QED BY <1>2, <1>5, <2>2 DEF ReadNothing, NoRowFound
<1>6. CASE ReadFails(h)
  <2>1. CASE req[h].op = "put" /\ ToCall(h, "provision")
    <3>1. i \in suspect'
      BY <1>6, <2>1 DEF ReadFails, Suspect
    <3> QED BY <1>3, <2>1, <3>1 DEF Fits
  <2> QED BY <1>2, <1>6, <2>1 DEF ReadFails, NoRowFound
<1> QED BY <1>4, <1>5, <1>6

\* What a change is to write when the broker accepted it.
LEMMA AcceptedIsAbout ==
  ASSUME Inv, NEW h \in Handler, NEW i \in Instance, req[h].instance = i,
         NEW r, Moves(h, r), NEW call \in {"provision", "update", "deprovision"},
         req[h].call = call, r.pc = "write", r.call = call, req[h].pc = "call",
         suspect' = suspect, stale' = stale, rows' = rows, KeysOK', TypeOK',
         BrokerOK(i)',
         \A j \in Instance \ {i} : broker'[j] = broker[j] /\ (Ended(j)' <=> Ended(j)),
         IF call = "deprovision" THEN Removed(i)' ELSE About(i, r.plan, r.key, r.status)'
  PROVE  Inv'
<1>1. TypeOK /\ InstanceOK(i) /\ OpOK(req[h])
  BY DEF Inv, TypeOK, Request
<1>2. req'[h] = r /\ r.op = req[h].op /\ r.op # "poll" /\ r.instance = i /\ r.plan = req[h].plan
  <2>1. req'[h] = r
    BY <1>1, OthersStay
  <2>2. req[h].op # "poll"
    BY <1>1 DEF OpOK, Fits
  <2> QED BY <2>1, <2>2 DEF Moves
<1>3. Changes(h, i) /\ Writing(h, i)' /\ Changes(h, i)'
  BY <1>2 DEF Changes, Busy, Writing
<1>4. RowOK(i)'
  BY <1>3 DEF RowOK
<1>5. HandlerOK(h, i)'
  <2>1. i \notin suspect => (rows[i].exists <=> call # "provision")
    BY <1>1, <1>3 DEF InstanceOK, HandlerOK, ChangeOK
  <2>2. ChangeOK(h, i)'
    BY <1>2, <2>1 DEF ChangeOK
  <2>3. PollOK(h, i)'
    BY <1>2 DEF PollOK, InFlight
  <2> QED BY <2>2, <2>3 DEF HandlerOK
<1>7. ASSUME NEW g \in Handler \ {h} PROVE PollOK(g, i)'
  <2>1. req'[g] = req[g] /\ PollOK(g, i)
    BY <1>1, OthersStay DEF InstanceOK, HandlerOK
  <2> QED BY <1>3, <2>1 DEF PollOK, InFlight, Busy
<1>6. InstanceOK(i)'
  BY <1>1, <1>3, <1>4, <1>5, <1>7, InstanceAlone
<1> QED BY <1>6, MoveKeepsInv

\* The broker accepts an operation, or answers as the first time.
LEMMA CallAcceptedInv ==
  ASSUME Inv, TypeOK', NEW h \in Handler, NEW i \in Instance, req[h].instance = i, CallAccepted(h)
  PROVE  Inv'
<1> DEFINE p == PlanOf(h)
<1>0. PICK call \in {"provision", "update", "deprovision"} : req[h].call = call
  BY DEF CallAccepted, Inv, TypeOK, Request
<1>1. /\ TypeOK /\ KeysOK /\ OpOK(req[h]) /\ req[h].pc = "call" /\ p \in Plan
      /\ suspect' = suspect /\ stale' = stale /\ rows' = rows /\ InstanceOK(i)
  BY PlanOfType DEF CallAccepted, Inv
<1>2. call # "deprovision" => req[h].plan = p
  BY <1>0, <1>1 DEF OpOK, Fits, PlanOf
<1> HIDE DEF p
<1>3. CASE FinishAtOnce(i, call, p)
           /\ Answered(h, 0, IF call = "provision" THEN "in progress" ELSE "succeeded")
  <2> DEFINE status == IF call = "provision" THEN "in progress" ELSE "succeeded"
  <2>0. 0 \in Key /\ status \in State
    BY DEF Key, State
  <2>1. 0 \in Key /\ status \in State /\ Answered(h, 0, status)
    BY <1>3, <2>0
  <2> HIDE DEF status
  <2>2. PICK r \in Request : Moves(h, r) /\ r.pc = "write" /\ r.call = call /\ r.key = 0
    BY <1>0, <1>1, <2>1, AnsweredMoves
  <2>3. /\ KeysOK' /\ BrokerOK(i)' /\ broker'[i].target = p
        /\ \A j \in Instance \ {i} : broker'[j] = broker[j] /\ (Ended(j)' <=> Ended(j))
        /\ broker'[i].exists = (call # "deprovision")
        /\ broker'[i].pending = "none" /\ broker'[i].last = 0 /\ Ended(i)'
    BY <1>1, <1>3, AtOnceFacts
  <2>4. r.plan = req[h].plan
    BY <2>2 DEF Moves
  <2>5. IF call = "deprovision" THEN Removed(i)' ELSE About(i, r.plan, r.key, r.status)'
    BY <1>2, <2>2, <2>3, <2>4 DEF Removed, About
  <2> QED BY <1>0, <1>1, <2>2, <2>3, <2>5, AcceptedIsAbout
<1>4. CASE FinishLater(i, call, p) /\ \E key \in {0, ops + 1} : Answered(h, key, "in progress")
  <2>1. /\ KeysOK' /\ BrokerOK(i)' /\ broker'[i].target = p
        /\ \A j \in Instance \ {i} : broker'[j] = broker[j] /\ (Ended(j)' <=> Ended(j))
        /\ broker'[i].exists = broker[i].exists
        /\ broker'[i].pending = call /\ broker'[i].last = ops + 1 /\ ~Ended(i)'
        /\ ops + 1 \in Key
    BY <1>1, <1>4, LaterFacts
  <2>2. PICK key \in {0, ops + 1} : Answered(h, key, "in progress")
    BY <1>4
  <2> DEFINE status == "in progress"
  <2>3. key \in Key /\ status \in State /\ Answered(h, key, status)
    <3>1. 0 \in Key
      BY DEF Key
    <3>2. status \in State
      BY DEF State
    <3> QED BY <2>1, <2>2, <3>1, <3>2
  <2> HIDE DEF status
  <2>4. PICK r \in Request : /\ Moves(h, r) /\ r.pc = "write" /\ r.call = call /\ r.key = key
                             /\ r.status = status
    BY <1>0, <1>1, <2>3, AnsweredMoves
  <2>5. r.plan = req[h].plan
    BY <2>4 DEF Moves
  <2>6. IF call = "deprovision" THEN Removed(i)' ELSE About(i, r.plan, r.key, r.status)'
    BY <1>2, <2>1, <2>2, <2>4, <2>5 DEF Removed, About, status
  <2> QED BY <1>0, <1>1, <2>1, <2>4, <2>6, AcceptedIsAbout
<1>5. CASE /\ SameAgain(i, call, p)
           /\ Answered(h, broker[i].last, "in progress")
           /\ UNCHANGED <<broker, outcome, ops>>
  <2> DEFINE key == broker[i].last
             status == "in progress"
  <2>1. key \in Key /\ status \in State /\ Answered(h, key, status)
    BY <1>1, <1>5 DEF TypeOK, Resource, State
  <2> HIDE DEF key, status
  <2>2. PICK r \in Request : /\ Moves(h, r) /\ r.pc = "write" /\ r.call = call
                             /\ r.key = key /\ r.status = status
    BY <1>0, <1>1, <2>1, AnsweredMoves
  <2>3. r.plan = req[h].plan
    BY <2>2 DEF Moves
  <2>4. KeysOK' /\ BrokerOK(i)' /\ \A j \in Instance : broker'[j] = broker[j] /\ (Ended(j)' <=> Ended(j))
    BY <1>1, <1>5 DEF KeysOK, Ended, InstanceOK, BrokerOK
  <2>5. /\ call = "provision" /\ broker[i].target = p
        /\ \/ broker[i].exists /\ broker[i].pending = "none"
           \/ broker[i].pending = "provision" /\ ~Ended(i)
    BY <1>1, <1>5 DEF SameAgain, InstanceOK, BrokerOK
  <2>6. About(i, r.plan, r.key, r.status)'
    BY <1>2, <1>5, <2>2, <2>3, <2>4, <2>5 DEF About, key, status
  <2> QED BY <1>0, <1>1, <2>2, <2>4, <2>5, <2>6, AcceptedIsAbout
<1> QED BY <1>0, <1>3, <1>4, <1>5 DEF CallAccepted, p

\* The broker refuses an operation.
LEMMA CallRefusedInv ==
  ASSUME Inv, TypeOK', NEW h \in Handler, NEW i \in Instance, req[h].instance = i, CallRefused(h)
  PROVE  Inv'
<1>1. Moves(h, NoRequest) /\ ~Writing(h, i)
  BY DoneMoves DEF CallRefused, Writing
<1>2. HandlerOK(h, i)'
  BY <1>1, IdleOK DEF Inv
<1>3. UNCHANGED <<rows, broker, outcome, ops, stale>> /\ suspect \subseteq suspect'
  BY DEF CallRefused, counters
<1> QED BY <1>1, <1>2, <1>3, QuietKeepsInv

\* The broker answers a poll: the key that was read is that of the last operation.
LEMMA PollAnsweredInv ==
  ASSUME Inv, TypeOK', NEW h \in Handler, NEW i \in Instance, req[h].instance = i, PollAnswered(h)
  PROVE  Inv'
<1> DEFINE key == req[h].row.key
<1>1. /\ TypeOK /\ OpOK(req[h]) /\ req[h] \in Request /\ req[h].pc = "call" /\ req[h].call = "poll"
      /\ Answered(h, key, Polled(i, key)) /\ UNCHANGED <<rows, broker, outcome, ops, stale, suspect>>
  BY DEF PollAnswered, Inv, TypeOK, counters
<1>2. key \in Key
  BY <1>1 DEF Request, Row
<1>3. Polled(i, key) \in State
  BY <1>1, <1>2, PolledType
<1> HIDE DEF key
<1>4. PICK r \in Request : /\ Moves(h, r) /\ r.pc = "write" /\ r.call = "poll" /\ r.row = req[h].row
                           /\ r.key = key /\ r.status = Polled(i, key)
  BY <1>1, <1>2, <1>3, AnsweredMoves
<1>5. req'[h] = r /\ r.op = "poll" /\ req[h].op = "poll" /\ Busy(h, i) /\ ~Changes(h, i)
  BY <1>1, <1>4, OthersStay DEF Moves, OpOK, Fits, Busy, Changes
<1>6. ~Writing(h, i) /\ ChangeOK(h, i)'
  BY <1>5 DEF Writing, ChangeOK, Changes
<1>7. PollOK(h, i)'
  <2> SUFFICES ASSUME i \notin suspect, h \notin stale PROVE PollOK(h, i)'
    BY <1>1 DEF PollOK
  <2>1. rows[i].exists /\ req[h].row.plan = rows[i].plan /\ key = rows[i].key
    BY <1>1, <1>5 DEF key, Inv, InstanceOK, HandlerOK, PollOK, InFlight
  <2>2. (\A g \in Handler : ~Writing(g, i)') => \A g \in Handler : ~Writing(g, i)
    BY <1>1, <1>4, <1>5, OthersStay DEF Writing
  <2>3. ASSUME r.status = "succeeded", \A g \in Handler : ~Writing(g, i)'
        PROVE  Ended(i)'
    <3>1. key \in {0, broker[i].last}
      BY <2>1, <2>2, <2>3 DEF Inv, InstanceOK, RowOK, About
    <3> QED BY <1>1, <1>4, <2>3, <3>1 DEF Polled, Ended
  <2> QED BY <1>1, <1>4, <1>5, <2>1, <2>3 DEF PollOK, key
<1> QED BY <1>1, <1>4, <1>6, <1>7, QuietKeepsInv DEF HandlerOK

\* A call is lost, or its answer.
LEMMA CallFailsInv ==
  ASSUME Inv, TypeOK', NEW h \in Handler, NEW i \in Instance, req[h].instance = i, CallFails(h)
  PROVE  Inv'
<1>1. /\ TypeOK /\ KeysOK /\ Moves(h, NoRequest) /\ ~Writing(h, i) /\ rows' = rows /\ stale' = stale
      /\ req[h].call \in {"provision", "update", "deprovision", "poll"} /\ PlanOf(h) \in Plan
  BY DoneMoves, PlanOfType DEF CallFails, Inv, TypeOK, Request, Writing
<1>2. CASE UNCHANGED <<broker, outcome, ops, suspect>>
  <2>1. HandlerOK(h, i)'
    BY <1>1, IdleOK
  <2> QED BY <1>1, <1>2, <2>1, QuietKeepsInv
<1>3. CASE /\ req[h].call # "poll" /\ Suspect(i)
           /\ FinishAtOnce(i, req[h].call, PlanOf(h)) \/ FinishLater(i, req[h].call, PlanOf(h))
  <2>1. /\ KeysOK' /\ BrokerOK(i)'
        /\ \A j \in Instance \ {i} : broker'[j] = broker[j] /\ (Ended(j)' <=> Ended(j))
    BY <1>1, <1>3, AtOnceFacts, LaterFacts
  <2>2. i \in suspect' /\ suspect \subseteq suspect'
    BY <1>3 DEF Suspect
  <2>3. InstanceOK(i)'
    BY <2>1, <2>2, SuspectOK
  <2> QED BY <1>1, <2>1, <2>2, <2>3, MoveKeepsInv
<1> QED BY <1>2, <1>3 DEF CallFails

\* A poll writes its answer: only the status of the row changes, unless a change
\* wrote the row since it was read.
LEMMA PollWrittenInv ==
  ASSUME Inv, TypeOK', NEW h \in Handler, NEW i \in Instance, req[h].instance = i, WriteRow(h),
         req[h].call = "poll"
  PROVE  Inv'
<1> DEFINE r == req[h]
           row == [exists |-> TRUE, plan |-> r.row.plan, key |-> r.key, status |-> r.status]
<1>1. /\ TypeOK /\ KeysOK /\ InstanceOK(i) /\ Moves(h, NoRequest)
      /\ r.pc = "write" /\ r.op = "poll" /\ Busy(h, i) /\ InFlight(h, i)
  BY DoneMoves DEF WriteRow, Inv, OpOK, Fits, Busy, InFlight
<1>2. /\ UNCHANGED <<broker, outcome, ops, stale>> /\ suspect \subseteq suspect'
      /\ h \in stale /\ rows[i].exists => i \in suspect'
      /\ rows' = IF rows[i].exists THEN [rows EXCEPT ![i] = row] ELSE rows
  BY <1>1 DEF WriteRow, UpdateInstanceInfo, PlanOf, Suspect, counters
<1>3. KeysOK' /\ \A j \in Instance : Ended(j)' <=> Ended(j)
  BY <1>1, <1>2 DEF KeysOK, Ended
<1>4. \A j \in Instance \ {i} : rows'[j] = rows[j]
  BY <1>1, <1>2 DEF TypeOK
<1>5. /\ req'[h] = NoRequest /\ \A g \in Handler \ {h} : req'[g] = req[g]
      /\ \A g \in Handler : (Busy(g, i)' => Busy(g, i)) /\ (Changes(g, i)' => Changes(g, i))
      /\ \A g \in Handler : Writing(g, i)' <=> Writing(g, i)
  <2>1. ~Writing(h, i) /\ ~Writing(h, i)'
    BY <1>1, IdleOK DEF Writing, Changes
  <2> QED BY <1>1, <2>1, OthersStay
<1>6. BrokerOK(i)' /\ Apart(i)'
  BY <1>1, <1>2, <1>3, <1>5 DEF InstanceOK, BrokerOK, Apart
<1>7. CASE i \in suspect'
  <2>1. InstanceOK(i)'
    BY <1>6, <1>7, SuspectOK
  <2> QED BY <1>1, <1>2, <1>3, <1>4, <2>1, MoveKeepsInv
<1>8. CASE i \notin suspect' /\ rows[i].exists
  <2>1. /\ i \notin suspect /\ r.row.plan = rows[i].plan /\ r.key = rows[i].key
        /\ r.status = "succeeded" /\ (\A g \in Handler : ~Writing(g, i)) => Ended(i)
    BY <1>1, <1>2, <1>8 DEF InstanceOK, HandlerOK, PollOK
  <2>2. /\ rows'[i].exists /\ rows'[i].plan = rows[i].plan /\ rows'[i].key = rows[i].key
        /\ rows'[i].status = r.status
    BY <1>1, <1>2, <1>8, <2>1 DEF TypeOK
  <2>3. RowOK(i)'
    <3> SUFFICES ASSUME \A g \in Handler : ~Writing(g, i)
                 PROVE  About(i, rows[i].plan, rows[i].key, r.status)
      BY <1>2, <1>3, <1>5, <2>2 DEF RowOK, About
    <3>1. About(i, rows[i].plan, rows[i].key, rows[i].status)
      BY <1>1, <1>8, <2>1 DEF InstanceOK, RowOK
    <3> QED BY <2>1, <3>1 DEF About
  <2>6. ASSUME NEW g \in Handler \ {h} PROVE HandlerOK(g, i)'
    <3>1. req'[g] = req[g] /\ HandlerOK(g, i)
      BY <1>1, <1>5 DEF InstanceOK
    <3>2. ChangeOK(g, i)'
      BY <1>2, <1>3, <1>8, <2>1, <2>2, <3>1 DEF HandlerOK, ChangeOK, Changes, Busy, About, Removed
    <3>3. PollOK(g, i)'
      BY <1>2, <1>3, <1>5, <2>1, <2>2, <3>1 DEF HandlerOK, PollOK, InFlight, Busy
    <3> QED BY <3>2, <3>3 DEF HandlerOK
  <2>7. HandlerOK(h, i)'
    BY <1>1, IdleOK
  <2>8. InstanceOK(i)'
    BY <1>6, <2>3, <2>6, <2>7 DEF InstanceOK
  <2> QED BY <1>1, <1>2, <1>3, <1>4, <2>8, MoveKeepsInv
<1>9. CASE ~rows[i].exists
  <2>1. rows' = rows /\ ~Writing(h, i) /\ HandlerOK(h, i)'
    BY <1>1, <1>2, <1>9, IdleOK DEF Writing, Changes
  <2> QED BY <1>1, <1>2, <2>1, QuietKeepsInv
<1> QED BY <1>7, <1>8, <1>9

\* A change writes what it knows of the last operation.
LEMMA ChangeWrittenInv ==
  ASSUME Inv, TypeOK', NEW h \in Handler, NEW i \in Instance, req[h].instance = i, WriteRow(h),
         req[h].call # "poll"
  PROVE  Inv'
<1> DEFINE r == req[h]
           row == [exists |-> TRUE, plan |-> PlanOf(h), key |-> r.key, status |-> r.status]
<1>1. /\ TypeOK /\ KeysOK /\ InstanceOK(i) /\ Moves(h, NoRequest)
      /\ r.pc = "write" /\ r \in Request /\ r.call # "poll" /\ OpOK(r)
      /\ UNCHANGED <<broker, outcome, ops>> /\ suspect \subseteq suspect' /\ stale \subseteq stale'
  BY DoneMoves DEF WriteRow, Inv, TypeOK, Suspect, counters
<1>2. r.op # "poll" /\ Changes(h, i) /\ (r.call # "deprovision" => PlanOf(h) = r.plan)
  BY <1>1 DEF OpOK, Fits, Request, Changes, Busy, PlanOf
<1>3. KeysOK' /\ \A j \in Instance : Ended(j)' <=> Ended(j)
  BY <1>1 DEF KeysOK, Ended
<1>4. \A j \in Instance \ {i} : rows'[j] = rows[j]
  BY <1>1 DEF TypeOK, WriteRow, InsertInstanceInfo, UpdateInstanceInfo, RemoveInstanceInfo
<1>5. BrokerOK(i)' /\ HandlerOK(h, i)'
  BY <1>1, <1>3, IdleOK DEF InstanceOK, BrokerOK
<1>6. RowOK(i)'
  <2> SUFFICES ASSUME i \notin suspect PROVE RowOK(i)'
    BY <1>1 DEF RowOK
  <2>1. /\ rows[i].exists <=> r.call # "provision"
        /\ IF r.call = "deprovision" THEN Removed(i) ELSE About(i, r.plan, r.key, r.status)
    BY <1>1, <1>2 DEF InstanceOK, HandlerOK, ChangeOK
  <2>2. CASE r.call \in {"provision", "update"}
    <3>1. rows' = [rows EXCEPT ![i] = row]
      BY <2>1, <2>2 DEF WriteRow, InsertInstanceInfo, UpdateInstanceInfo
    <3>2. rows'[i].exists /\ rows'[i].plan = r.plan /\ rows'[i].key = r.key /\ rows'[i].status = r.status
      BY <1>1, <1>2, <2>2, <3>1 DEF TypeOK
    <3> QED BY <1>1, <1>3, <2>1, <2>2, <3>2 DEF RowOK, About
  <2>3. CASE r.call = "deprovision"
    <3>1. rows' = [rows EXCEPT ![i] = NoRow]
      BY <2>3 DEF WriteRow, RemoveInstanceInfo
    <3>2. ~rows'[i].exists
      BY <1>1, <3>1, NoRequestIdle DEF TypeOK
    <3> QED BY <1>1, <2>1, <2>3, <3>2 DEF RowOK, Removed
  <2> QED BY <1>1, <2>2, <2>3 DEF Request
<1>7. ASSUME NEW g \in Handler \ {h} PROVE PollOK(g, i)'
  <2>1. req'[g] = req[g]
    BY <1>1, OthersStay
  <2>2. InFlight(g, i)' => g \in stale'
    BY <1>1, <2>1 DEF WriteRow, InFlight, Busy
  <2> QED BY <2>2 DEF PollOK
<1>8. InstanceOK(i)'
  BY <1>1, <1>2, <1>5, <1>6, <1>7, InstanceAlone
<1> QED BY <1>1, <1>3, <1>4, <1>8, MoveKeepsInv

\* A statement is lost.
LEMMA WriteFailsInv ==
  ASSUME Inv, TypeOK', NEW h \in Handler, NEW i \in Instance, req[h].instance = i, WriteFails(h)
  PROVE  Inv'
<1>1. /\ TypeOK /\ OpOK(req[h]) /\ req[h].pc = "write" /\ Moves(h, NoRequest)
      /\ UNCHANGED <<rows, broker, outcome, ops, stale>> /\ suspect \subseteq suspect'
  BY DoneMoves DEF WriteFails, Inv, Suspect
<1>2. HandlerOK(h, i)'
  BY <1>1, IdleOK
<1>3. CASE req[h].call = "poll"
  <2>1. ~Writing(h, i)
    BY <1>1, <1>3 DEF OpOK, Fits, Writing, Changes
  <2> QED BY <1>1, <1>2, <2>1, QuietKeepsInv
<1>4. CASE req[h].call # "poll"
  <2>1. i \in suspect'
    BY <1>4 DEF WriteFails, Suspect
  <2> QED BY <1>1, <2>1, QuietKeepsInv
<1> QED BY <1>3, <1>4

\* The broker ends an operation, for good or bad.
LEMMA EndsInv ==
  ASSUME Inv, TypeOK', NEW i \in Instance, NEW ok \in BOOLEAN, OperationEnds(i, ok)
  PROVE  Inv'
<1> DEFINE k == broker[i].last
<1>1. /\ TypeOK /\ KeysOK /\ UNCHANGED <<rows, req, ops, stale>> /\ suspect \subseteq suspect'
      /\ broker[i].pending # "none" /\ ~Ended(i) /\ InstanceOK(i) /\ broker[i] \in Resource
  BY DEF OperationEnds, Inv, TypeOK, InstanceOK, BrokerOK, Suspect, counters
<1>2. k \in 1..MaxOps /\ outcome[k] # "succeeded" /\ k # 0
  BY <1>1, KeyFacts DEF Ended
<1>3. /\ outcome'[k] = IF ok THEN "succeeded" ELSE "failed"
      /\ \A n \in 1..MaxOps : n # k => outcome'[n] = outcome[n]
  BY <1>1, <1>2 DEF OperationEnds, TypeOK
<1>4. /\ broker'[i].pending = "none" /\ broker'[i].last = k /\ broker'[i].target = broker[i].target
      /\ broker'[i].plan = (IF ok THEN broker[i].target ELSE broker[i].plan)
      /\ broker'[i].exists = (IF ok THEN broker[i].pending # "deprovision" ELSE broker[i].exists)
      /\ \A j \in Instance \ {i} : broker'[j] = broker[j]
  BY <1>1 DEF OperationEnds, TypeOK, Resource
<1>5. KeysOK'
  BY <1>1, <1>4 DEF KeysOK
<1>6. Ended(i)' <=> ok
  BY <1>2, <1>3, <1>4 DEF Ended
<1>7. ASSUME NEW j \in Instance \ {i} PROVE InstanceOK(j)'
  <2>1. broker'[j] = broker[j] /\ InstanceOK(j) /\ (j \in suspect => j \in suspect')
    BY <1>1, <1>4 DEF Inv
  <2>2. broker[j].last = 0 \/ (broker[j].last # k /\ broker[j].last \in 1..MaxOps)
    BY <1>1, <1>2, KeyFacts DEF KeysOK
  <2>3. Ended(j)' <=> Ended(j)
    BY <1>3, <2>1, <2>2 DEF Ended
  <2>4. BrokerOK(j)' /\ Apart(j)' /\ RowOK(j)'
    BY <1>1, <2>1, <2>3 DEF InstanceOK, BrokerOK, Apart, RowOK, About, Removed, Writing, Changes, Busy
  <2>5. \A h \in Handler : HandlerOK(h, j)'
    BY <1>1, <2>1, <2>3 DEF InstanceOK, HandlerOK, ChangeOK, PollOK, InFlight, About, Removed,
                            Writing, Changes, Busy
  <2> QED BY <2>4, <2>5 DEF InstanceOK
<1>8. InstanceOK(i)'
  <2>1. BrokerOK(i)' /\ Apart(i)'
    BY <1>1, <1>4, <1>6 DEF InstanceOK, BrokerOK, Apart, Changes, Busy
  <2>2. CASE i \in suspect'
    BY <2>1, <2>2, SuspectOK
  <2>3. CASE i \notin suspect'
    <3>1. i \notin suspect /\ (broker[i].pending = "deprovision" => ok)
      BY <1>1, <2>3 DEF OperationEnds, Suspect
    <3>2. Removed(i) => Removed(i)'
      BY <1>1, <1>4, <3>1 DEF Removed
    <3>3. ASSUME NEW plan, NEW key, NEW status, About(i, plan, key, status)
          PROVE  About(i, plan, key, status)'
      BY <1>1, <1>4, <1>6, <3>3 DEF About
    <3>4. RowOK(i)'
      BY <1>1, <3>1, <3>2, <3>3 DEF InstanceOK, RowOK, Writing, Changes, Busy
    <3>5. ASSUME NEW h \in Handler PROVE HandlerOK(h, i)'
      <4>1. ChangeOK(h, i) /\ PollOK(h, i)
        BY <1>1 DEF InstanceOK, HandlerOK
      <4>2. ChangeOK(h, i)'
        BY <1>1, <3>1, <3>2, <3>3, <4>1 DEF ChangeOK, Changes, Busy
      <4>3. PollOK(h, i)'
        BY <1>1, <1>4, <1>6, <3>1, <4>1 DEF PollOK, InFlight, Writing, Changes, Busy
      <4> QED BY <4>2, <4>3 DEF HandlerOK
    <3> QED BY <2>1, <3>4, <3>5 DEF InstanceOK
  <2> QED BY <2>2, <2>3
<1>9. \A h \in Handler : OpOK(req'[h])
  BY <1>1 DEF Inv
<1> QED BY <1>5, <1>7, <1>8, <1>9 DEF Inv

\* A request arrives: if it is a change and overlaps another, its instance is suspect.
LEMMA ArriveInv ==
  ASSUME Inv, TypeOK', NEW h \in Handler, NEW i \in Instance, NEW r, r.pc = "read", r.instance = i,
         Arrive(h, r)
  PROVE  Inv'
<1>1. /\ TypeOK /\ KeysOK /\ UNCHANGED <<rows, broker, outcome, ops>> /\ suspect \subseteq suspect'
      /\ req[h].pc = "idle" /\ req'[h] = r /\ \A g \in Handler \ {h} : req'[g] = req[g]
      /\ stale' = stale \ {h}
  BY DEF Arrive, Inv, TypeOK, Suspect
<1>2. KeysOK' /\ \A j \in Instance : Ended(j)' <=> Ended(j)
  BY <1>1 DEF KeysOK, Ended
<1>3. ASSUME NEW g \in Handler PROVE OpOK(req'[g])
  BY <1>1 DEF Inv, OpOK
<1>4. ASSUME NEW j \in Instance PROVE InstanceOK(j)'
  <2>1. InstanceOK(j) /\ (j \in suspect => j \in suspect')
    BY <1>1 DEF Inv
  <2>2. /\ \A g \in Handler : Writing(g, j)' <=> Writing(g, j)
        /\ \A g \in Handler \ {h} : (Busy(g, j)' <=> Busy(g, j)) /\ (Changes(g, j)' <=> Changes(g, j))
    BY <1>1 DEF Writing, Changes, Busy
  <2>3. BrokerOK(j)'
    BY <1>1, <1>2, <2>1 DEF InstanceOK, BrokerOK
  <2>4. RowOK(j)'
    BY <1>1, <1>2, <2>1, <2>2 DEF InstanceOK, RowOK, About, Removed
  <2>5. ASSUME NEW g \in Handler PROVE HandlerOK(g, j)'
    <3>1. CASE g = h
      BY <1>1, <3>1 DEF HandlerOK, ChangeOK, PollOK, InFlight
    <3>2. CASE g # h
      <4>1. req'[g] = req[g] /\ HandlerOK(g, j) /\ (g \in stale => g \in stale')
        BY <1>1, <2>1, <3>2 DEF InstanceOK
      <4>2. ChangeOK(g, j)'
        BY <1>1, <1>2, <2>1, <4>1 DEF HandlerOK, ChangeOK, Changes, Busy, About, Removed
      <4>3. PollOK(g, j)'
        BY <1>1, <1>2, <2>1, <2>2, <4>1 DEF HandlerOK, PollOK, InFlight, Busy
      <4> QED BY <4>2, <4>3 DEF HandlerOK
    <3> QED BY <3>1, <3>2
  <2>6. Apart(j)'
    <3>1. SUFFICES ASSUME j \notin suspect', NEW g \in Handler, Changes(g, j)', NEW o \in Handler \ {g}
                   PROVE  ~Changes(o, j)'
      BY DEF Apart
    <3>2. CASE g # h /\ o # h
      BY <2>1, <2>2, <3>1, <3>2 DEF InstanceOK, Apart
    <3>3. CASE g = h
      BY <1>1, <2>2, <3>1, <3>3 DEF Arrive, Suspect, Changes, Busy
    <3>4. CASE o = h
      BY <1>1, <2>2, <3>1, <3>4 DEF Arrive, Suspect, Changes, Busy
    <3> QED BY <3>2, <3>3, <3>4
  <2> QED BY <2>3, <2>4, <2>5, <2>6 DEF InstanceOK
<1> QED BY <1>2, <1>3, <1>4 DEF Inv

\* At first there is nothing.
LEMMA InitInv == Init => Inv
<1> SUFFICES ASSUME Init PROVE Inv
  OBVIOUS
<1>1. TypeOK
  BY InitType
<1>2. \A i \in Instance : /\ ~rows[i].exists /\ ~broker[i].exists /\ broker[i].pending = "none"
                          /\ broker[i].last = 0 /\ broker[i].plan = broker[i].target
  BY NoRequestIdle DEF Init
<1>3. \A h \in Handler : req[h] = NoRequest /\ req[h].pc = "idle"
  BY NoRequestIdle DEF Init
<1>4. KeysOK
  <2>1. ops = 0
    BY DEF Init
  <2>2. \A i \in Instance : broker[i].last <= ops
    BY <1>2, <2>1
  <2> QED BY <1>2, <2>2 DEF KeysOK
<1>5. \A h \in Handler : OpOK(req[h])
  BY <1>3, NoRequestIdle
<1>6. ASSUME NEW i \in Instance PROVE InstanceOK(i)
  <2>1. BrokerOK(i)
    BY <1>2 DEF BrokerOK
  <2>2. Apart(i)
    BY <1>3 DEF Apart, Changes, Busy
  <2>3. RowOK(i)
    BY <1>2 DEF RowOK, Removed
  <2>4. \A h \in Handler : HandlerOK(h, i)
    BY <1>3 DEF HandlerOK, ChangeOK, PollOK, InFlight, Changes, Busy
  <2> QED BY <2>1, <2>2, <2>3, <2>4 DEF InstanceOK
<1> QED BY <1>1, <1>4, <1>5, <1>6 DEF Inv

\* A step that changes nothing keeps everything.
LEMMA StutterInv == Inv /\ UNCHANGED vars => Inv'
<1> SUFFICES ASSUME Inv, UNCHANGED vars PROVE Inv'
  OBVIOUS
<1>1. UNCHANGED <<rows, broker, outcome, req, ops, requests, failures, stale, suspect>>
  BY DEF vars
<1>2. TypeOK' /\ KeysOK' /\ \A h \in Handler : OpOK(req'[h])
  BY <1>1 DEF Inv, TypeOK, KeysOK
<1>3. ASSUME NEW i \in Instance PROVE InstanceOK(i)'
  <2>1. InstanceOK(i)
    BY DEF Inv
  <2>2. BrokerOK(i)' /\ Apart(i)' /\ RowOK(i)'
    BY <1>1, <2>1 DEF InstanceOK, BrokerOK, Apart, RowOK, About, Removed, Ended, Writing, Changes, Busy
  <2>3. \A h \in Handler : HandlerOK(h, i)'
    BY <1>1, <2>1 DEF InstanceOK, HandlerOK, ChangeOK, PollOK, InFlight, About, Removed, Ended,
                      Writing, Changes, Busy
  <2> QED BY <2>2, <2>3 DEF InstanceOK
<1> QED BY <1>2, <1>3 DEF Inv

\* Every step keeps rows and brokers in agreement.
LEMMA NextInv == Inv /\ [Next]_vars => Inv'
<1> SUFFICES ASSUME Inv, [Next]_vars PROVE Inv'
  OBVIOUS
<1>0. TypeOK' /\ \A h \in Handler : \E i \in Instance : req[h].instance = i
  BY NextType DEF Inv, TypeOK, Request
<1>1. ASSUME NEW h \in Handler, NEW i \in Instance, NEW p \in Plan, NEW op \in {"put", "patch", "delete"},
             StartChange(h, op, i, p)
      PROVE  Inv'
  <2> DEFINE r == [NoRequest EXCEPT !.pc = "read", !.op = op, !.instance = i, !.plan = p]
  <2>1. r.pc = "read" /\ r.instance = i
    BY DEF NoRequest
  <2>2. Arrive(h, r)
    BY <1>1 DEF StartChange
  <2> HIDE DEF r
  <2> QED BY <1>0, <2>1, <2>2, ArriveInv
<1>2. ASSUME NEW h \in Handler, NEW i \in Instance, StartPoll(h, i) PROVE Inv'
  <2> DEFINE r == [NoRequest EXCEPT !.pc = "read", !.op = "poll", !.instance = i]
  <2>1. r.pc = "read" /\ r.instance = i
    BY DEF NoRequest
  <2>2. Arrive(h, r)
    BY <1>2 DEF StartPoll
  <2> HIDE DEF r
  <2> QED BY <1>0, <2>1, <2>2, ArriveInv
<1>3. ASSUME NEW h \in Handler, Step(h) PROVE Inv'
  <2>1. PICK i \in Instance : req[h].instance = i
    BY <1>0
  <2>2. WriteRow(h) => Inv'
    BY <1>0, <2>1, PollWrittenInv, ChangeWrittenInv
  <2> QED BY <1>0, <1>3, <2>1, <2>2, ReadInv, CallAcceptedInv, CallRefusedInv, PollAnsweredInv DEF Step
<1>4. ASSUME NEW h \in Handler, Failure(h) PROVE Inv'
  <2>1. PICK i \in Instance : req[h].instance = i
    BY <1>0
  <2> QED BY <1>0, <1>4, <2>1, ReadInv, CallFailsInv, WriteFailsInv DEF Failure
<1>5. ASSUME NEW i \in Instance, Ends(i) PROVE Inv'
  BY <1>0, <1>5, EndsInv DEF Ends
<1>6. CASE UNCHANGED vars
  BY <1>6, StutterInv
<1>7. CASE Next
  BY <1>1, <1>2, <1>3, <1>4, <1>5, <1>7 DEF Next, Poll
<1> QED BY <1>6, <1>7

\* No change of a settled instance is about to be written.
LEMMA SettledRow ==
  ASSUME Inv, NEW i \in Instance, Settled(i)
  PROVE  IF rows[i].exists THEN About(i, rows[i].plan, rows[i].key, rows[i].status) ELSE Removed(i)
<1>1. i \notin suspect /\ \A h \in Handler : ~Writing(h, i)
  BY DEF Settled, Writing
<1> QED BY <1>1 DEF Inv, InstanceOK, RowOK

\* The agreement is an invariant.
LEMMA InvHolds == Spec => []Inv
<1>1. Init => Inv
  BY InitInv
<1>2. Inv /\ [Next]_vars => Inv'
  BY NextInv
<1> QED BY <1>1, <1>2, PTL DEF Spec

\* The row of a settled instance is about the last operation the broker accepted for
\* it: polls may read, ask and write between the steps of its changes, as long as
\* none writes the row with what it read before a change wrote it (GetInstanceStatus
\* and UpdateInstanceInfo in open-service-brokers.go).
THEOREM RowsAreLastOperations == Spec => []RowIsLastOperation
<1>1. Inv => RowIsLastOperation
  <2> SUFFICES ASSUME Inv, NEW i \in Instance, Settled(i), rows[i].exists
               PROVE  /\ rows[i].plan = broker[i].target
                      /\ rows[i].key \in {0, broker[i].last}
                      /\ rows[i].status = "succeeded" =>
                           broker[i].exists /\ broker[i].pending = "none" /\ broker[i].plan = rows[i].plan
    BY DEF RowIsLastOperation
  <2>1. About(i, rows[i].plan, rows[i].key, rows[i].status)
    BY SettledRow
  <2>2. BrokerOK(i)
    BY DEF Inv, InstanceOK
  <2> QED BY <2>1, <2>2 DEF About, BrokerOK
<1> QED BY <1>1, InvHolds, PTL

\* A settled instance that a broker has, or provisions, has its row: nothing is provisioned and forgotten (the PUT of
\* open-service-brokers.go, which calls the broker before it inserts the row).
THEOREM InstancesAreRecorded == Spec => []InstanceIsRecorded
<1>1. Inv => InstanceIsRecorded
  <2> SUFFICES ASSUME Inv, NEW i \in Instance, Settled(i), ~rows[i].exists,
                      broker[i].exists \/ broker[i].pending = "provision",
                      broker[i].pending # "deprovision"
               PROVE  FALSE
    BY DEF InstanceIsRecorded
  <2>1. Removed(i)
    BY SettledRow
  <2> QED BY <2>1 DEF Removed
<1> QED BY <1>1, InvHolds, PTL
=============================================================================
