------------------------------ MODULE DnsCache ------------------------------
(***************************************************************************)
(* The cache of DNS records (router/dns.go), the requests that change      *)
(* records of a domain (router/http.go) and the hourly refresh.  The       *)
(* records live in Route 53, in the hosted zones of the domain (a public   *)
(* and a private one, as a rule); the cache holds the records of each      *)
(* zone, or is nil.  A change is first made in Route 53, without a lock,   *)
(* and then in the cache, under the mutex.  The refresh drops the cache,   *)
(* lists the records zone by zone, giving the mutex back for each listing, *)
(* and installs the result.                                                *)
(*                                                                         *)
(* Route 53 is external.  The zones are those of one domain and do not     *)
(* change; every listing of them takes the mutex, and that is all it does  *)
(* here.  Nobody else changes the records.                                 *)
(***************************************************************************)
EXTENDS Naturals, FiniteSets

CONSTANTS Handler,     \* the concurrent requests
          Zone,        \* the hosted zones of the domain
          Name, Type, Value,
          Wanted,      \* the records that get created (or removed, by name)
          Present,     \* the records that each zone has before the program starts
          MaxRequests, \* bound: the requests
          MaxFailures  \* bound: failing calls of Route 53

ASSUME WantedAssumption ==
  Present \union Wanted \subseteq [name : Name, type : Type, value : Value]
\* The domain has a hosted zone, records have names.
ASSUME DomainAssumption == Zone # {} /\ Name # {}
ASSUME BoundsAssumption == MaxRequests \in Nat /\ MaxFailures \in Nat

VARIABLES route53,    \* route53[z]: the records of the zone
          mutex,      \* the holder of the provider's mutex, or "free"
          cache,      \* domainRecordsCache: nil (~known), or the records of each zone
          refresher,  \* the refresh: where it is, and what it has listed
          ready,      \* the first refresh is over (requests wait for it)
          req,        \* req[h]: the request the handler h works on
          requests,   \* the number of requests so far
          failures,   \* the number of failures so far
          suspect,    \* ghost: the zones whose changes overlapped or got lost
          changed,    \* ghost: the zones changed since they were listed
          clean       \* ghost: the zones not changed since the refresh began

vars == <<route53, mutex, cache, refresher, ready, req, requests, failures, suspect, changed, clean>>
counters == <<requests, failures>>
ghosts == <<suspect, changed, clean>>

Record == [name : Name, type : Type, value : Value]
Records == [Zone -> SUBSET Record]
Nothing == [z \in Zone |-> {}]

NoRequest == [pc |-> "idle", op |-> "create", name |-> CHOOSE n \in Name : TRUE,
              zones |-> {}, todo |-> {}, made |-> {}]

TypeOK ==
  /\ route53 \in Records
  /\ mutex \in {"free", "refresher"}
  /\ cache \in [known : BOOLEAN, records : Records]
  /\ refresher \in [pc : {"idle", "zones", "lock", "loop", "fetch", "lockfailed", "giveup"},
                    zone : Zone, todo : SUBSET Zone, records : Records]
  /\ ready \in BOOLEAN
  /\ req \in [Handler -> [pc : {"idle", "lookup", "list", "change", "patch"},
                          op : {"create", "remove"}, name : Name, zones : SUBSET Zone,
                          todo : SUBSET (Zone \X Record), made : SUBSET (Zone \X Record)]]
  /\ \A h \in Handler : Cardinality(req[h].made) = IF req[h].pc = "patch" THEN 1 ELSE 0
  /\ requests \in 0..MaxRequests /\ failures \in 0..MaxFailures
  /\ suspect \subseteq Zone /\ changed \subseteq Zone /\ clean \subseteq Zone

\* DomainRecords: the cache if there is one, else the records themselves.
Listed(z) == IF cache.known THEN cache.records[z] ELSE route53[z]

\* A change that was made in the zone but not yet in the cache.
Unpatched(z) == \E h \in Handler : \E m \in req[h].made : m[1] = z

-----------------------------------------------------------------------------
(* AwsRefreshCache. *)

Go(pc) == refresher' = [refresher EXCEPT !.pc = pc]

RefreshStarts ==
  /\ refresher.pc = "idle" /\ mutex = "free"
  /\ cache' = [known |-> FALSE, records |-> Nothing]
  /\ Go("zones")
  /\ clean' = {z \in Zone : ~Unpatched(z)}
  /\ UNCHANGED <<route53, mutex, ready, req, counters, suspect, changed>>

RefreshListsZones ==
  /\ refresher.pc = "zones" /\ mutex = "free"
  /\ refresher' = [refresher EXCEPT !.pc = "lock", !.todo = Zone, !.records = Nothing]
  /\ UNCHANGED <<route53, mutex, cache, ready, req, counters, ghosts>>

RefreshLocks ==
  /\ refresher.pc \in {"lock", "lockfailed"} /\ mutex = "free"
  /\ mutex' = "refresher"
  /\ Go(IF refresher.pc = "lock" THEN "loop" ELSE "giveup")
  /\ UNCHANGED <<route53, cache, ready, req, counters, ghosts>>

\* Mutant: the mutex is kept for the listing.
RefreshKeepsMutex ==
  /\ refresher.pc = "loop" /\ refresher.todo # {}
  /\ \E z \in refresher.todo :
       refresher' = [refresher EXCEPT !.pc = "fetch", !.zone = z, !.todo = @ \ {z}]
  /\ UNCHANGED <<route53, mutex, cache, ready, req, counters, ghosts>>

\* The mutex is given back for the listing of the next zone, which takes it itself.
RefreshUnlocks ==
  /\ refresher.pc = "loop" /\ refresher.todo # {}
  /\ mutex' = "free"
  /\ \E z \in refresher.todo :
       refresher' = [refresher EXCEPT !.pc = "fetch", !.zone = z, !.todo = @ \ {z}]
  /\ UNCHANGED <<route53, cache, ready, req, counters, ghosts>>

\* Mutant: the records are listed under the wrong zone.
RefreshListsOneZone ==
  /\ refresher.pc = "fetch" /\ mutex = "free"
  /\ refresher' = [refresher EXCEPT !.pc = "lock", !.records = [z \in Zone |-> Listed(refresher.zone)]]
  /\ UNCHANGED <<route53, mutex, cache, ready, req, counters, ghosts>>

RefreshListsRecords ==
  /\ refresher.pc = "fetch" /\ mutex = "free"
  /\ refresher' = [refresher EXCEPT !.pc = "lock", !.records[refresher.zone] = Listed(refresher.zone)]
  /\ UNCHANGED <<route53, mutex, cache, ready, req, counters, ghosts>>

RefreshInstalls ==
  /\ refresher.pc = "loop" /\ refresher.todo = {}
  /\ cache' = [known |-> TRUE, records |-> refresher.records]
  /\ mutex' = "free"
  /\ Go("idle")
  /\ ready' = TRUE
  /\ suspect' = suspect \ clean
  /\ changed' = changed \ clean
  /\ UNCHANGED <<route53, req, counters, clean>>

\* A listing fails: the refresh locks, reports, unlocks and leaves the cache nil.
RefreshFails ==
  /\ refresher.pc \in {"zones", "fetch"} /\ mutex = "free"
  /\ failures < MaxFailures
  /\ failures' = failures + 1
  /\ Go("lockfailed")
  /\ UNCHANGED <<route53, mutex, cache, ready, req, requests, ghosts>>

RefreshGivesUp ==
  /\ refresher.pc = "giveup"
  /\ mutex' = "free"
  /\ Go("idle")
  /\ ready' = TRUE
  /\ UNCHANGED <<route53, cache, req, counters, ghosts>>

-----------------------------------------------------------------------------
(* POST and DELETE /v1/domains/{domain}/records. *)

Done(h) == req' = [req EXCEPT ![h] = NoRequest]
Free(h) == req[h].pc = "idle"

\* The first thing both do is to look the zones of the domain up.
StartRequest(h, op, r) ==
  /\ Free(h) /\ ready /\ requests < MaxRequests
  /\ requests' = requests + 1
  /\ req' = [req EXCEPT ![h] = [NoRequest EXCEPT !.pc = "lookup", !.op = op, !.name = r.name,
                                  !.todo = IF op = "create" THEN Zone \X {r} ELSE {}]]
  /\ UNCHANGED <<route53, mutex, cache, refresher, ready, failures, ghosts>>

LookupZones(h) ==
  /\ req[h].pc = "lookup" /\ mutex = "free"
  /\ req' = [req EXCEPT ![h].pc = IF req[h].op = "create" THEN "change" ELSE "list",
                        ![h].zones = IF req[h].op = "create" THEN {} ELSE Zone]
  /\ UNCHANGED <<route53, mutex, cache, refresher, ready, counters, ghosts>>

\* A removal lists the records of every zone and keeps those with the name; it
\* answers "not found" if there is none.
ListRecords(h) ==
  /\ req[h].pc = "list" /\ mutex = "free"
  /\ \E z \in req[h].zones :
       LET found == req[h].todo \union {<<z, r>> : r \in {s \in Listed(z) : s.name = req[h].name}}
           left == req[h].zones \ {z}
       IN  req' = [req EXCEPT ![h] =
                     IF left = {} /\ found = {} THEN NoRequest
                     ELSE [@ EXCEPT !.zones = left, !.todo = found,
                                    !.pc = IF left = {} THEN "change" ELSE "list"]]
  /\ UNCHANGED <<route53, mutex, cache, refresher, ready, counters, ghosts>>

\* The change in Route 53 (external): an upsert replaces the record of the name and
\* type, a delete needs the very record.
Accepts(op, z, r) == op = "create" \/ r \in route53[z]
Change(op, z, r) ==
  route53' = [route53 EXCEPT ![z] = {s \in @ : s.name # r.name \/ s.type # r.type}
                                      \union IF op = "create" THEN {r} ELSE {}]

\* Ghost: the change overlaps a refresh or another one on its way to the cache.
NoteChange(h, z, lost) ==
  /\ suspect' = IF lost \/ refresher.pc # "idle" \/ Unpatched(z) THEN suspect \union {z} ELSE suspect
  /\ changed' = changed \union {z}
  /\ clean' = clean \ {z}

ChangeRecord(h) ==
  /\ req[h].pc = "change"
  /\ \E m \in req[h].todo :
       /\ Accepts(req[h].op, m[1], m[2])
       /\ Change(req[h].op, m[1], m[2])
       /\ req' = [req EXCEPT ![h].pc = "patch", ![h].todo = @ \ {m}, ![h].made = {m}]
       /\ NoteChange(h, m[1], FALSE)
  /\ UNCHANGED <<mutex, cache, refresher, ready, counters>>

\* The first change that is refused ends the request; those made before it stay.
ChangeRefused(h) ==
  /\ req[h].pc = "change"
  /\ \E m \in req[h].todo : ~Accepts(req[h].op, m[1], m[2])
  /\ Done(h)
  /\ UNCHANGED <<route53, mutex, cache, refresher, ready, counters, ghosts>>

\* A call of Route 53 fails, be it on its way back.
CallFails(h) ==
  /\ req[h].pc \in {"lookup", "list", "change"} /\ failures < MaxFailures
  /\ failures' = failures + 1
  /\ Done(h)
  /\ \/ UNCHANGED <<route53, ghosts>>
     \/ /\ req[h].pc = "change"
        /\ \E m \in req[h].todo :
             Accepts(req[h].op, m[1], m[2]) /\ Change(req[h].op, m[1], m[2]) /\ NoteChange(h, m[1], TRUE)
  /\ UNCHANGED <<mutex, cache, refresher, ready, requests>>

\* Mutant: the new record is added to the old one.
PatchedBesideOld(op, cached, r) == cached \union IF op = "create" THEN {r} ELSE {}

\* What the cached records of a zone become: every record of the name, and every
\* record of the type, goes; a created record is added.
Patched(op, cached, r) ==
  {s \in cached : s.name # r.name /\ s.type # r.type} \union IF op = "create" THEN {r} ELSE {}

\* Mutant: the change is left among those to be made in the cache.
PatchStaysOpen(h) ==
  /\ req[h].pc = "patch" /\ mutex = "free"
  /\ \E m \in req[h].made :
       /\ cache' = IF cache.known
                   THEN [cache EXCEPT !.records[m[1]] = Patched(req[h].op, @, m[2])] ELSE cache
       /\ changed' = changed \union {m[1]}
  /\ IF req[h].todo = {} THEN Done(h) ELSE req' = [req EXCEPT ![h].pc = "change"]
  /\ UNCHANGED <<route53, mutex, refresher, ready, counters, suspect, clean>>

\* The cache is changed, unless it is nil.
PatchCache(h) ==
  /\ req[h].pc = "patch" /\ mutex = "free"
  /\ \E m \in req[h].made :
       /\ cache' = IF cache.known
                   THEN [cache EXCEPT !.records[m[1]] = Patched(req[h].op, @, m[2])] ELSE cache
       /\ changed' = changed \union {m[1]}
  /\ IF req[h].todo = {} THEN Done(h) ELSE req' = [req EXCEPT ![h].pc = "change", ![h].made = {}]
  /\ UNCHANGED <<route53, mutex, refresher, ready, counters, suspect, clean>>

-----------------------------------------------------------------------------
Init ==
  /\ route53 = [z \in Zone |-> Present]
  /\ mutex = "free"
  /\ cache = [known |-> FALSE, records |-> Nothing]
  /\ refresher = [pc |-> "idle", zone |-> CHOOSE z \in Zone : TRUE, todo |-> {}, records |-> Nothing]
  /\ ready = FALSE
  /\ req = [h \in Handler |-> NoRequest]
  /\ requests = 0 /\ failures = 0
  /\ suspect = {} /\ changed = {} /\ clean = {}

RefreshStep ==
  \/ RefreshListsZones \/ RefreshLocks \/ RefreshUnlocks \/ RefreshListsRecords
  \/ RefreshInstalls \/ RefreshGivesUp

RequestStep(h) ==
  \/ LookupZones(h) \/ ListRecords(h)
  \/ ChangeRecord(h) \/ ChangeRefused(h) \/ PatchCache(h)

Next ==
  \/ RefreshStarts \/ RefreshStep \/ RefreshFails
  \/ \E h \in Handler :
       \/ \E op \in {"create", "remove"}, r \in Wanted : StartRequest(h, op, r)
       \/ RequestStep(h) \/ CallFails(h)

\* Go's mutex lets nobody wait for ever: a step that needs the mutex and finds it
\* free again and again is taken.
Fairness == SF_vars(RefreshStep) /\ \A h \in Handler : SF_vars(RequestStep(h))

Spec == Init /\ [][Next]_vars /\ Fairness

-----------------------------------------------------------------------------
Quiet == Zone \ (suspect \union {z \in Zone : Unpatched(z)})

\* The cache shows no record that is not there: changes that neither overlapped
\* with each other nor with a refresh are in the cache when they are answered, in
\* every zone, and a replaced or removed record is out of it.
CachedIsThere ==
  cache.known => \A z \in Quiet : cache.records[z] \subseteq route53[z]

\* A refresh puts things right: a zone that was not changed since a refresh listed
\* it, however the changes before it and those of other zones interleaved with it,
\* is cached as it is.
RefreshedIsComplete ==
  cache.known => \A z \in Quiet \ changed : cache.records[z] = route53[z]

\* "BE VERY, VERY CAREFUL CHANGING THIS, IT COULD CREATE DEADLOCKS WITH THE MUTEX":
\* no refresh and no request ever hangs, whatever fails: time and again all of them
\* have come to their end (of requests only so many are made, of refreshes not).
EverythingEnds == []<>(refresher.pc = "idle" /\ \A h \in Handler : Free(h))

\* "ensure we remove the old record, if it exists" (CreateDomainRecord): what goes
\* from the cached records of a zone with a change is the changed record.
OnlyTheOldGoes ==
  [][\A h \in Handler : req[h].pc = "patch" /\ cache.known /\ cache'.known =>
       \A m \in req[h].made :
         req'[h].made # req[h].made =>
           {s \in cache.records[m[1]] : s.name # m[2].name \/ s.type # m[2].type}
             \subseteq cache'.records[m[1]]]_vars
=============================================================================
