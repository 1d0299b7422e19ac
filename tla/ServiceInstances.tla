-------------------------- MODULE ServiceInstances --------------------------
(***************************************************************************)
(* The service instances of the open service brokers                       *)
(* (service/open-service-brokers.go).  An instance lives at its broker;    *)
(* region-api keeps one row per instance in the table service_instances:   *)
(* the plan, the key of the operation the broker works on and the status   *)
(* that was last seen of it.  A request reads the row, calls the broker    *)
(* and then writes the row, each in a step of its own and without a        *)
(* transaction, so requests for the same instance can interleave anywhere. *)
(*                                                                         *)
(* The broker is external: it does what the interface version 2 asks of a  *)
(* broker, one operation per instance at a time.  A row's service is left  *)
(* out: a plan belongs to one service.                                     *)
(***************************************************************************)
EXTENDS Naturals

CONSTANTS Handler,      \* the concurrent requests
          Instance,     \* the instances
          Plan,         \* the plans of the catalog
          MaxOps,       \* bound: the asynchronous operations of the broker
          MaxRequests,  \* bound: the requests other than polls
          MaxFailures   \* bound: failed statements and lost answers

ASSUME InstanceAssumption == Instance # {}
ASSUME PlanAssumption == Plan # {}
ASSUME BoundsAssumption == MaxOps \in Nat /\ MaxRequests \in Nat /\ MaxFailures \in Nat

VARIABLES rows,      \* rows[i]: the row of the instance
          broker,    \* broker[i]: the instance at the broker
          outcome,   \* outcome[k]: how the operation with the key k stands
          req,       \* req[h]: the request the handler h works on
          ops,       \* the number of operations of the broker so far
          requests,  \* the number of requests other than polls so far
          failures,  \* the number of failures so far
          stale,     \* ghost: the polls that read the row before a change wrote it
          suspect    \* ghost: the instances whose row may be wrong

vars == <<rows, broker, outcome, req, ops, requests, failures, stale, suspect>>

State == {"in progress", "succeeded", "failed"}
Key == 0..MaxOps  \* 0 is NULL: the broker gave no key

Row == [exists : BOOLEAN, plan : Plan, key : Key, status : State]
NoRow == [exists |-> FALSE, plan |-> CHOOSE p \in Plan : TRUE, key |-> 0, status |-> "succeeded"]

\* At the broker: whether the instance exists and with which plan, the operation
\* in progress with the plan it is to lead to, and the key of the last operation
\* (0 if it was answered at once).
Resource == [exists : BOOLEAN, plan : Plan, pending : {"none", "provision", "update", "deprovision"},
             target : Plan, last : Key]

Request == [pc : {"idle", "read", "call", "write"},
            op : {"put", "patch", "delete", "poll"}, instance : Instance, plan : Plan,
            call : {"provision", "update", "deprovision", "poll"},
            row : Row, key : Key, status : State]
NoRequest == [pc |-> "idle", op |-> "poll", instance |-> CHOOSE i \in Instance : TRUE,
              plan |-> NoRow.plan, call |-> "poll", row |-> NoRow, key |-> 0, status |-> "succeeded"]

TypeOK ==
  /\ rows \in [Instance -> Row]
  /\ broker \in [Instance -> Resource]
  /\ outcome \in [1..MaxOps -> State]
  /\ req \in [Handler -> Request]
  /\ ops \in 0..MaxOps /\ requests \in 0..MaxRequests /\ failures \in 0..MaxFailures
  /\ stale \subseteq Handler /\ suspect \subseteq Instance

counters == <<ops, requests, failures>>
Suspect(i) == suspect' = suspect \union {i}

-----------------------------------------------------------------------------
(* The requests arrive.  Polls may overlap each other and a change, that is a  *)
(* PUT, PATCH or DELETE; an instance with overlapping changes is suspect.      *)

Busy(h, i) == req[h].pc # "idle" /\ req[h].instance = i
Changes(h, i) == Busy(h, i) /\ req[h].op # "poll"

Arrive(h, r) ==
  /\ req[h].pc = "idle"
  /\ req' = [req EXCEPT ![h] = r]
  /\ stale' = stale \ {h}
  /\ IF r.op # "poll" /\ \E g \in Handler : Changes(g, r.instance)
     THEN Suspect(r.instance) ELSE UNCHANGED suspect
  /\ UNCHANGED <<rows, broker, outcome, ops, failures>>

\* PUT, PATCH and DELETE /v2/service_instances/{id}; the plan of a deletion is the row's.
StartChange(h, op, i, p) ==
  /\ requests < MaxRequests
  /\ requests' = requests + 1
  /\ Arrive(h, [NoRequest EXCEPT !.pc = "read", !.op = op, !.instance = i, !.plan = p])

\* GET /v2/service_instances/{id}/last_operation.
StartPoll(h, i) ==
  /\ Arrive(h, [NoRequest EXCEPT !.pc = "read", !.op = "poll", !.instance = i])
  /\ UNCHANGED requests

Done(h) == req' = [req EXCEPT ![h] = NoRequest]
ToCall(h, call) ==
  req' = [req EXCEPT ![h].pc = "call", ![h].call = call, ![h].row = rows[req[h].instance]]

-----------------------------------------------------------------------------
(* The row is read (GetInstanceInfoByID). *)

\* An update is refused (409) while the row says that an operation is in progress;
\* a deletion is not.
ReadRow(h) ==
  LET row == rows[req[h].instance] IN
  /\ req[h].pc = "read" /\ row.exists
  /\ \/ /\ req[h].op \in {"put", "patch"}
        /\ IF row.status = "in progress" THEN Done(h) ELSE ToCall(h, "update")
     \/ req[h].op = "delete" /\ ToCall(h, "deprovision")
     \/ req[h].op = "poll" /\ ToCall(h, "poll")
  /\ UNCHANGED <<rows, broker, outcome, counters, stale, suspect>>

\* No row: a PUT provisions the instance, the other requests are errors.
NoRowFound(h) ==
  IF req[h].op = "put" THEN ToCall(h, "provision") ELSE Done(h)

ReadNothing(h) ==
  /\ req[h].pc = "read" /\ ~rows[req[h].instance].exists
  /\ NoRowFound(h)
  /\ UNCHANGED <<rows, broker, outcome, counters, stale, suspect>>

\* A failed query is taken for a missing row, even by a PUT: an instance with a
\* row is provisioned again then, and suspect.
ReadFails(h) ==
  /\ req[h].pc = "read" /\ failures < MaxFailures
  /\ failures' = failures + 1
  /\ NoRowFound(h)
  /\ IF req[h].op = "put" THEN Suspect(req[h].instance) ELSE UNCHANGED suspect
  /\ UNCHANGED <<rows, broker, outcome, ops, requests, stale>>

-----------------------------------------------------------------------------
(* The broker (external). *)

\* It accepts an operation and finishes it at once ...
FinishAtOnce(i, call, p) ==
  /\ broker' = [broker EXCEPT ![i] = [exists |-> call # "deprovision", plan |-> p,
                                      pending |-> "none", target |-> p, last |-> 0]]
  /\ UNCHANGED <<outcome, ops>>

\* ... or later, under a new key ...
FinishLater(i, call, p) ==
  /\ ops < MaxOps
  /\ ops' = ops + 1
  /\ broker' = [broker EXCEPT ![i] = [@ EXCEPT !.pending = call, !.target = p, !.last = ops + 1]]
  /\ outcome' = [outcome EXCEPT ![ops + 1] = "in progress"]

\* ... unless it works on the instance already.  A provision needs that there is
\* none, an update that there is one.
Accepts(i, call) ==
  /\ broker[i].pending = "none"
  /\ CASE call = "provision" -> ~broker[i].exists
       [] call = "update"    -> broker[i].exists
       [] OTHER              -> TRUE

\* The provision of what is there or being provisioned, with the same plan, is
\* answered as the first time.
SameAgain(i, call, p) ==
  /\ call = "provision" /\ broker[i].target = p
  /\ \/ broker[i].exists /\ broker[i].pending = "none" /\ broker[i].plan = p
     \/ broker[i].pending = "provision"

\* The operation in progress ends, for good or bad.  One that removes an instance
\* whose row is gone already leaves it behind when it fails.
OperationEnds(i, ok) ==
  /\ broker[i].pending # "none"
  /\ outcome' = [outcome EXCEPT ![broker[i].last] = IF ok THEN "succeeded" ELSE "failed"]
  /\ broker' = [broker EXCEPT ![i].pending = "none",
                              ![i].plan = IF ok THEN broker[i].target ELSE @,
                              ![i].exists = IF ok THEN broker[i].pending # "deprovision" ELSE @]
  /\ IF broker[i].pending = "deprovision" /\ ~ok THEN Suspect(i) ELSE UNCHANGED suspect
  /\ UNCHANGED <<rows, req, counters, stale>>

\* What the broker says of the operation with the key, or of the last one.
Polled(i, key) ==
  LET k == IF key = 0 THEN broker[i].last ELSE key
  IN  IF k = 0 THEN "succeeded" ELSE outcome[k]
Gone(i) == ~broker[i].exists /\ broker[i].last = 0

-----------------------------------------------------------------------------
(* The broker is called. *)

PlanOf(h) == IF req[h].op \in {"put", "patch"} THEN req[h].plan ELSE req[h].row.plan

\* Provision, Update and Deprovision.
Answered(h, key, status) ==
  req' = [req EXCEPT ![h].pc = "write", ![h].key = key, ![h].status = status]

\* A provision is recorded as in progress even when it is finished.
CallAccepted(h) ==
  LET i == req[h].instance
      call == req[h].call
  IN  /\ req[h].pc = "call" /\ call # "poll"
      /\ \/ /\ Accepts(i, call)
            /\ \/ /\ FinishAtOnce(i, call, PlanOf(h))
                  /\ Answered(h, 0, IF call = "provision" THEN "in progress" ELSE "succeeded")
               \/ /\ FinishLater(i, call, PlanOf(h))
                  /\ \E key \in {0, ops + 1} : Answered(h, key, "in progress")
         \/ /\ SameAgain(i, call, PlanOf(h))
            /\ Answered(h, broker[i].last, "in progress")
            /\ UNCHANGED <<broker, outcome, ops>>
      /\ UNCHANGED <<rows, requests, failures, stale, suspect>>

CallRefused(h) ==
  LET i == req[h].instance
      call == req[h].call
  IN  /\ req[h].pc = "call"
      /\ \/ call # "poll" /\ ~Accepts(i, call) /\ ~SameAgain(i, call, PlanOf(h))
         \/ call = "poll" /\ Gone(i)
      /\ Done(h)
      /\ UNCHANGED <<rows, broker, outcome, counters, stale, suspect>>

\* Mutant: the status that was read is written back.
PollKeepsStatus(h) ==
  LET i == req[h].instance IN
  /\ req[h].pc = "call" /\ req[h].call = "poll" /\ ~Gone(i)
  /\ Answered(h, req[h].row.key, req[h].row.status)
  /\ UNCHANGED <<rows, broker, outcome, counters, stale, suspect>>

\* GetInstanceStatus asks about the operation in the row that was read.
PollAnswered(h) ==
  LET i == req[h].instance IN
  /\ req[h].pc = "call" /\ req[h].call = "poll" /\ ~Gone(i)
  /\ Answered(h, req[h].row.key, Polled(i, req[h].row.key))
  /\ UNCHANGED <<rows, broker, outcome, counters, stale, suspect>>

\* The call fails on its way there or, worse, on its way back.
CallFails(h) ==
  LET i == req[h].instance IN
  /\ req[h].pc = "call" /\ failures < MaxFailures
  /\ failures' = failures + 1
  /\ Done(h)
  /\ \/ UNCHANGED <<broker, outcome, ops, suspect>>
     \/ /\ req[h].call # "poll" /\ Accepts(i, req[h].call)
        /\ FinishAtOnce(i, req[h].call, PlanOf(h)) \/ FinishLater(i, req[h].call, PlanOf(h))
        /\ Suspect(i)
  /\ UNCHANGED <<rows, requests, stale>>

-----------------------------------------------------------------------------
(* The row is written. *)

\* Mutant: only what is not finished is recorded.
InsertUnfinished(i, p, key, status) ==
  rows' = IF rows[i].exists \/ key = 0 THEN rows
          ELSE [rows EXCEPT ![i] = [exists |-> TRUE, plan |-> p, key |-> key, status |-> status]]

\* Mutant: the key of the next operation is recorded.
InsertNextKey(i, p, key, status) ==
  rows' = IF rows[i].exists THEN rows
          ELSE [rows EXCEPT ![i] = [exists |-> TRUE, plan |-> p, key |-> key + 1, status |-> status]]

\* The primary key refuses an insert when there is a row: that is only logged.
InsertInstanceInfo(i, p, key, status) ==
  rows' = IF rows[i].exists THEN rows
          ELSE [rows EXCEPT ![i] = [exists |-> TRUE, plan |-> p, key |-> key, status |-> status]]

\* Mutant: an update that finds no row inserts one.
UpsertInstanceInfo(i, p, key, status) ==
  rows' = [rows EXCEPT ![i] = [exists |-> TRUE, plan |-> p, key |-> key, status |-> status]]

\* Mutant: an update forgets the key.
UpdateKeepsKey(i, p, key, status) ==
  rows' = IF rows[i].exists
          THEN [rows EXCEPT ![i] = [exists |-> TRUE, plan |-> p, key |-> @.key, status |-> status]]
          ELSE rows

UpdateInstanceInfo(i, p, key, status) ==
  rows' = IF rows[i].exists
          THEN [rows EXCEPT ![i] = [exists |-> TRUE, plan |-> p, key |-> key, status |-> status]]
          ELSE rows

RemoveInstanceInfo(i) == rows' = [rows EXCEPT ![i] = NoRow]

\* The row of a deprovision goes at once, even if the broker has only begun.  A poll
\* writes back the plan and the key it read before it asked: if a change wrote the
\* row in between, they are those of an operation before the last one, which
\* nothing prevents, and the instance is suspect.
WriteRow(h) ==
  LET me == req[h]
      i == me.instance
  IN  /\ me.pc = "write"
      /\ \/ me.call = "provision" /\ InsertInstanceInfo(i, PlanOf(h), me.key, me.status)
         \/ me.call \in {"update", "poll"} /\ UpdateInstanceInfo(i, PlanOf(h), me.key, me.status)
         \/ me.call = "deprovision" /\ RemoveInstanceInfo(i)
      /\ stale' = IF me.call = "poll" THEN stale
                  ELSE stale \union {g \in Handler : /\ Busy(g, i) /\ req[g].op = "poll"
                                                      /\ req[g].pc # "read"}
      /\ IF h \in stale /\ rows[i].exists THEN Suspect(i) ELSE UNCHANGED suspect
      /\ Done(h)
      /\ UNCHANGED <<broker, outcome, counters>>

\* The statement fails, or the process stops before it: what the broker was asked
\* for stays.  A lost poll loses nothing.
WriteFails(h) ==
  /\ req[h].pc = "write" /\ failures < MaxFailures
  /\ failures' = failures + 1
  /\ Done(h)
  /\ IF req[h].call = "poll" THEN UNCHANGED suspect ELSE Suspect(req[h].instance)
  /\ UNCHANGED <<rows, broker, outcome, ops, requests, stale>>

-----------------------------------------------------------------------------
Init ==
  /\ rows = [i \in Instance |-> NoRow]
  /\ broker = [i \in Instance |-> [exists |-> FALSE, plan |-> NoRow.plan, pending |-> "none",
                                   target |-> NoRow.plan, last |-> 0]]
  /\ outcome = [k \in 1..MaxOps |-> "in progress"]
  /\ req = [h \in Handler |-> NoRequest]
  /\ ops = 0 /\ requests = 0 /\ failures = 0
  /\ stale = {} /\ suspect = {}

Step(h) ==
  \/ ReadRow(h) \/ ReadNothing(h)
  \/ CallAccepted(h) \/ CallRefused(h) \/ PollAnswered(h)
  \/ WriteRow(h)

Failure(h) == ReadFails(h) \/ CallFails(h) \/ WriteFails(h)

Poll(i) == \E h \in Handler : StartPoll(h, i)
Ends(i) == \E ok \in BOOLEAN : OperationEnds(i, ok)

Next ==
  \/ \E h \in Handler :
       \/ \E i \in Instance, p \in Plan :
            \/ \E op \in {"put", "patch"} : StartChange(h, op, i, p)
            \/ p = NoRow.plan /\ StartChange(h, "delete", i, p)
       \/ Step(h) \/ Failure(h)
  \/ \E i \in Instance : Poll(i) \/ Ends(i)

\* A request that was started goes on; the broker ends what it began; and the
\* controller that asked for an instance keeps polling it.
Fairness ==
  /\ \A h \in Handler : WF_vars(Step(h))
  /\ \A i \in Instance : WF_vars(Poll(i)) /\ WF_vars(Ends(i))

Spec == Init /\ [][Next]_vars /\ Fairness

-----------------------------------------------------------------------------
\* The instances no change is working on, whose changes did not overlap each other,
\* none of whose changes lost an answer or a statement or took a failed query for a
\* missing row, whose broker did not fail to remove them, and where no poll wrote
\* what it had read before a change wrote the row.
Settled(i) == i \notin suspect /\ \A h \in Handler : ~Changes(h, i)

\* Nothing is provisioned and forgotten: a settled instance that the broker has, or
\* is provisioning, and is not about to remove, has its row, whatever polls came
\* between the steps of its changes and whatever requests failed before they did
\* anything.
InstanceIsRecorded ==
  \A i \in Instance :
    /\ Settled(i)
    /\ broker[i].exists \/ broker[i].pending = "provision"
    /\ broker[i].pending # "deprovision"
    => rows[i].exists

\* The row of a settled instance describes the last operation the broker accepted:
\* its plan, its key, and once it says "succeeded" the broker is done and has that
\* plan.  So a poll may ask, be answered and write at any moment of a change: what it
\* learnt of the operation before is only harmful if it comes after the change's own
\* write (then the code does restore the old plan and key, and the instance is not
\* settled).
RowIsLastOperation ==
  \A i \in Instance : Settled(i) /\ rows[i].exists =>
    /\ rows[i].plan = broker[i].target
    /\ rows[i].key \in {0, broker[i].last}
    /\ rows[i].status = "succeeded" =>
         broker[i].exists /\ broker[i].pending = "none" /\ broker[i].plan = rows[i].plan

\* A row that was removed comes back through a provision only: polls and updates
\* that were on their way write nothing.  (This holds for suspect instances too.)
NoResurrection ==
  [][\A i \in Instance : ~rows[i].exists /\ rows'[i].exists =>
       \E h \in Handler : /\ req[h].pc = "write" /\ req'[h].pc = "idle"
                          /\ req[h].instance = i /\ req[h].call = "provision"]_vars

\* An operation the broker ended is recorded as ended, if the instance keeps being
\* polled, or the instance becomes suspect: no poll whose answer is late, or is for
\* the operation before, keeps the row in progress for ever, which would refuse
\* every update.
Open(i) == rows[i].exists /\ rows[i].status = "in progress" /\ broker[i].pending = "none"
Settles == \A i \in Instance : Open(i) ~> ~Open(i) \/ i \in suspect
=============================================================================
