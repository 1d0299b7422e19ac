---------------------------- MODULE DnsCacheProofs ----------------------------
(***************************************************************************)
(* The cache of DNS records: it shows no record that is not there, and a   *)
(* refresh makes it complete, for any zones, records and handlers.         *)
(***************************************************************************)
EXTENDS DnsCache, FiniteSetTheorems, TLAPS

-----------------------------------------------------------------------------
(* Types of the parts. *)

Op == {"create", "remove"}
Refresher == [pc : {"idle", "zones", "lock", "loop", "fetch", "lockfailed", "giveup"},
              zone : Zone, todo : SUBSET Zone, records : Records]
Request == [pc : {"idle", "lookup", "list", "change", "patch"}, op : Op, name : Name,
            zones : SUBSET Zone, todo : SUBSET (Zone \X Record), made : SUBSET (Zone \X Record)]
MadeOK(r) == IF r.pc = "patch" THEN \E m \in Zone \X Record : r.made = {m} ELSE r.made = {}
RecordsOK == route53 \in Records /\ cache \in [known : BOOLEAN, records : Records]
RefresherOK == /\ refresher \in Refresher /\ mutex \in {"free", "refresher"} /\ ready \in BOOLEAN
               /\ refresher.pc # "idle" => ~cache.known
RequestsOK == req \in [Handler -> Request] /\ \A h \in Handler : MadeOK(req[h])
CountsOK == requests \in 0..MaxRequests /\ failures \in 0..MaxFailures
GhostsOK == suspect \subseteq Zone /\ changed \subseteq Zone /\ clean \subseteq Zone
Parts == RecordsOK /\ RefresherOK /\ RequestsOK /\ CountsOK /\ GhostsOK

\* The parts make up the type invariant: what a handler has changed and not cached
\* yet is one record, or none.
LEMMA PartsType == Parts => TypeOK
<1>1. ASSUME Parts, NEW h \in Handler
      PROVE  Cardinality(req[h].made) = IF req[h].pc = "patch" THEN 1 ELSE 0
  <2>1. CASE req[h].pc = "patch"
    <3>1. PICK m : req[h].made = {m}
      BY <1>1, <2>1 DEF Parts, RequestsOK, MadeOK
    <3> QED BY <2>1, <3>1, FS_Singleton
  <2>2. CASE req[h].pc # "patch"
    <3>1. req[h].made = {}
      BY <1>1, <2>2 DEF Parts, RequestsOK, MadeOK
    <3> QED BY <2>2, <3>1, FS_EmptySet
  <2> QED BY <2>1, <2>2
<1>2. Parts => req \in [Handler -> [pc : {"idle", "lookup", "list", "change", "patch"},
                          op : {"create", "remove"}, name : Name, zones : SUBSET Zone,
                          todo : SUBSET (Zone \X Record), made : SUBSET (Zone \X Record)]]
  BY DEF Parts, RequestsOK, Request, Op
<1>3. Parts => refresher \in [pc : {"idle", "zones", "lock", "loop", "fetch", "lockfailed", "giveup"},
                    zone : Zone, todo : SUBSET Zone, records : Records]
  BY DEF Parts, RefresherOK, Refresher
<1> QED BY <1>1, <1>2, <1>3 DEF Parts, RecordsOK, RefresherOK, CountsOK, GhostsOK, TypeOK

\* The request of one that is idle.
LEMMA NoRequestType == NoRequest \in Request /\ MadeOK(NoRequest) /\ NoRequest.made = {}
<1>1. \E n : n \in Name
  BY DomainAssumption
<1>2. (CHOOSE n \in Name : TRUE) \in Name
  BY <1>1
<1> QED BY <1>2 DEF NoRequest, Request, Op, MadeOK

\* One handler's request changes.
LEMMA PutRequest ==
  ASSUME RequestsOK, NEW h \in Handler, NEW r \in Request, MadeOK(r),
         req' = [req EXCEPT ![h] = r]
  PROVE  RequestsOK'
BY DEF RequestsOK

-----------------------------------------------------------------------------
(* The invariant of a zone. *)

\* The refresh has listed the zone.
Has(z) == \/ refresher.pc \in {"lock", "loop"} /\ z \notin refresher.todo
          \/ refresher.pc = "fetch" /\ z \notin refresher.todo /\ z # refresher.zone

\* What it has listed is there, unless the zone was changed since.
ListedOK(z) == Has(z) /\ (z \notin suspect \/ z \in clean) => refresher.records[z] = route53[z]

\* A change of the zone that is not cached yet.
Open(h, z, m) == m \in req[h].made /\ m[1] = z
OpenOK(z) ==
  /\ z \in clean => \A h \in Handler : \A m \in req[h].made : m[1] # z
  /\ z \notin suspect => \A h \in Handler : \A m \in req[h].made : m[1] = z =>
       /\ \A g \in Handler \ {h} : \A o \in req[g].made : o[1] # z
       /\ req[h].op = "create" => m[2] \in route53[z]
       /\ cache.known => {s \in cache.records[z] : s.name # m[2].name /\ s.type # m[2].type}
                           \subseteq route53[z]

\* What the two properties say.
Shows(z) ==
  cache.known /\ z \notin suspect =>
    /\ z \notin changed => cache.records[z] = route53[z]
    /\ (\A h \in Handler : \A m \in req[h].made : m[1] # z) => cache.records[z] \subseteq route53[z]
ZoneOK(z) == ListedOK(z) /\ OpenOK(z) /\ Shows(z)

\* A request changes that has nothing to be cached, and has not after it.
LEMMA QuietRequest ==
  ASSUME Parts, NEW z \in Zone, ZoneOK(z), NEW h \in Handler, NEW r,
         req' = [req EXCEPT ![h] = r], req[h].made = {}, r.made = {},
         UNCHANGED <<route53, cache, refresher, ghosts>>
  PROVE  ZoneOK(z)'
<1>1. \A g \in Handler : req'[g].made = req[g].made
  BY DEF Parts, RequestsOK
<1>2. \A g \in Handler : req[g].made # {} => req'[g] = req[g]
  BY DEF Parts, RequestsOK
<1>3. ListedOK(z)' /\ Shows(z)'
  BY <1>1 DEF ZoneOK, ListedOK, Has, Shows, ghosts
<1>4. OpenOK(z)'
  BY <1>1, <1>2 DEF ZoneOK, OpenOK, ghosts
<1> QED BY <1>3, <1>4 DEF ZoneOK

-----------------------------------------------------------------------------
(* The refresh. *)

\* The steps of a refresh before it installs what it listed.
LEMMA RefreshingKeeps ==
  ASSUME Parts, \A z \in Zone : ZoneOK(z),
         \/ RefreshStarts \/ RefreshListsZones \/ RefreshLocks \/ RefreshUnlocks
         \/ RefreshListsRecords \/ RefreshFails \/ RefreshGivesUp
  PROVE  Parts' /\ \A z \in Zone : ZoneOK(z)'
<1>1. /\ RecordsOK /\ RefresherOK /\ RequestsOK /\ CountsOK /\ GhostsOK
      /\ refresher \in Refresher /\ refresher.records \in Records
  BY DEF Parts, RefresherOK, Refresher
<1>2. RequestsOK' /\ UNCHANGED <<route53, req, suspect, changed>>
  BY <1>1 DEF RefreshStarts, RefreshListsZones, RefreshLocks, RefreshUnlocks, RefreshListsRecords,
              RefreshFails, RefreshGivesUp, ghosts, RequestsOK
<1>3. CASE RefreshStarts
  <2>1. Nothing \in Records
    BY DEF Nothing, Records
  <2>2. /\ cache' = [known |-> FALSE, records |-> Nothing]
        /\ refresher' = [refresher EXCEPT !.pc = "zones"]
        /\ clean' = {z \in Zone : ~Unpatched(z)}
        /\ UNCHANGED <<mutex, ready, requests, failures>>
    BY <1>3 DEF RefreshStarts, Go, counters
  <2>3. RecordsOK' /\ RefresherOK'
    BY <1>1, <1>2, <2>1, <2>2 DEF RecordsOK, RefresherOK, Refresher
  <2>4. CountsOK' /\ GhostsOK'
    BY <1>1, <1>2, <2>2 DEF CountsOK, GhostsOK
  <2>5. ASSUME NEW z \in Zone PROVE ZoneOK(z)'
    <3>1. refresher'.pc = "zones" /\ ~cache'.known
      BY <1>1, <2>2 DEF Refresher
    <3>2. z \in clean' => \A h \in Handler : \A m \in req[h].made : m[1] # z
      BY <2>2 DEF Unpatched
    <3>3. ListedOK(z)' /\ Shows(z)'
      BY <3>1 DEF ListedOK, Has, Shows
    <3>4. OpenOK(z)'
      BY <1>2, <3>1, <3>2 DEF ZoneOK, OpenOK
    <3> QED BY <3>3, <3>4 DEF ZoneOK
  <2> QED BY <1>2, <2>3, <2>4, <2>5 DEF Parts
<1>4. ASSUME UNCHANGED <<cache, clean>>, RefresherOK', CountsOK',
             \A z \in Zone : ListedOK(z)'
      PROVE  Parts' /\ \A z \in Zone : ZoneOK(z)'
  <2>1. RecordsOK' /\ GhostsOK'
    BY <1>1, <1>2, <1>4 DEF RecordsOK, GhostsOK
  <2>2. ASSUME NEW z \in Zone PROVE OpenOK(z)' /\ Shows(z)'
    BY <1>2, <1>4 DEF ZoneOK, OpenOK, Shows
  <2> QED BY <1>2, <1>4, <2>1, <2>2 DEF Parts, ZoneOK
<1>5. ASSUME UNCHANGED <<cache, clean, ready>>, CountsOK', mutex' \in {"free", "refresher"},
             refresher.pc # "idle" \/ refresher'.pc = "idle",
             NEW pc \in {"idle", "lock", "loop", "lockfailed", "giveup"}, Go(pc),
             pc = "loop" => refresher.pc = "lock", pc # "lock"
      PROVE  Parts' /\ \A z \in Zone : ZoneOK(z)'
  <2>1. refresher' = [refresher EXCEPT !.pc = pc]
    BY <1>5 DEF Go
  <2>2. RefresherOK'
    BY <1>1, <1>5, <2>1 DEF RefresherOK, Refresher
  <2>3. ASSUME NEW z \in Zone PROVE ListedOK(z)'
    BY <1>1, <1>2, <1>5, <2>1 DEF ZoneOK, ListedOK, Has, Refresher
  <2> QED BY <1>4, <1>5, <2>2, <2>3
<1>6. CASE RefreshListsZones
  <2>1. /\ refresher' = [refresher EXCEPT !.pc = "lock", !.todo = Zone, !.records = Nothing]
        /\ UNCHANGED <<mutex, cache, ready, requests, failures, clean>> /\ refresher.pc = "zones"
    BY <1>6 DEF RefreshListsZones, counters, ghosts
  <2>2. Nothing \in Records
    BY DEF Nothing, Records
  <2>3. RefresherOK' /\ CountsOK'
    BY <1>1, <2>1, <2>2 DEF RefresherOK, Refresher, CountsOK
  <2>4. ASSUME NEW z \in Zone PROVE ListedOK(z)'
    BY <1>1, <2>1 DEF ListedOK, Has, Refresher
  <2> QED BY <1>4, <2>1, <2>3, <2>4
<1>7. CASE RefreshLocks
  <2>1. /\ UNCHANGED <<cache, ready, requests, failures, clean>> /\ mutex' = "refresher"
        /\ \/ refresher.pc = "lock" /\ Go("loop")
           \/ refresher.pc = "lockfailed" /\ Go("giveup")
    BY <1>7 DEF RefreshLocks, counters, ghosts
  <2>2. CountsOK'
    BY <1>1, <2>1 DEF CountsOK
  <2> QED BY <1>5, <2>1, <2>2
<1>8. CASE RefreshUnlocks
  <2>1. PICK z0 \in refresher.todo :
          refresher' = [refresher EXCEPT !.pc = "fetch", !.zone = z0, !.todo = @ \ {z0}]
    BY <1>8 DEF RefreshUnlocks
  <2>2. /\ UNCHANGED <<cache, ready, requests, failures, clean>> /\ mutex' = "free"
        /\ refresher.pc = "loop"
    BY <1>8 DEF RefreshUnlocks, counters, ghosts
  <2>3. z0 \in Zone
    BY <1>1 DEF Refresher
  <2>4. RefresherOK' /\ CountsOK'
    BY <1>1, <2>1, <2>2, <2>3 DEF RefresherOK, Refresher, CountsOK
  <2>5. ASSUME NEW z \in Zone PROVE ListedOK(z)'
    BY <1>1, <1>2, <2>1, <2>2 DEF ZoneOK, ListedOK, Has, Refresher
  <2> QED BY <1>4, <2>2, <2>4, <2>5
<1>9. CASE RefreshListsRecords
  <2>1. /\ refresher' = [refresher EXCEPT !.pc = "lock",
                                           !.records[refresher.zone] = Listed(refresher.zone)]
        /\ UNCHANGED <<mutex, cache, ready, requests, failures, clean>> /\ refresher.pc = "fetch"
    BY <1>9 DEF RefreshListsRecords, counters, ghosts
  <2>2. Listed(refresher.zone) = route53[refresher.zone] /\ refresher.zone \in Zone
    BY <1>1, <2>1 DEF Listed, RefresherOK, Refresher
  <2>3. refresher' = [refresher EXCEPT !.pc = "lock",
                        !.records = [refresher.records EXCEPT ![refresher.zone] = route53[refresher.zone]]]
    BY <2>1, <2>2
  <2>4. [refresher.records EXCEPT ![refresher.zone] = route53[refresher.zone]] \in Records
    BY <1>1, <2>2 DEF Records, RecordsOK
  <2>5. RefresherOK' /\ CountsOK'
    BY <1>1, <2>1, <2>3, <2>4 DEF RefresherOK, Refresher, CountsOK
  <2>6. ASSUME NEW z \in Zone PROVE ListedOK(z)'
    <3>1. refresher'.records[z] = IF z = refresher.zone THEN route53[z] ELSE refresher.records[z]
      BY <1>1, <2>3 DEF Refresher, Records
    <3>2. refresher'.pc = "lock" /\ refresher'.todo = refresher.todo
      BY <1>1, <2>3 DEF Refresher
    <3> QED BY <1>2, <2>1, <3>1, <3>2 DEF ZoneOK, ListedOK, Has
  <2> QED BY <1>4, <2>1, <2>5, <2>6
<1>10. CASE RefreshFails
  <2>1. /\ UNCHANGED <<mutex, cache, ready, requests, clean>> /\ failures' = failures + 1
        /\ failures < MaxFailures /\ refresher.pc \in {"zones", "fetch"} /\ Go("lockfailed")
    BY <1>10 DEF RefreshFails, ghosts
  <2>2. CountsOK'
    BY <1>1, <2>1, BoundsAssumption DEF CountsOK, BoundsAssumption
  <2> QED BY <1>1, <1>5, <2>1, <2>2 DEF RefresherOK
<1>11. CASE RefreshGivesUp
  <2>1. /\ UNCHANGED <<cache, requests, failures, clean>> /\ ready' = TRUE /\ mutex' = "free"
        /\ refresher.pc = "giveup" /\ refresher' = [refresher EXCEPT !.pc = "idle"]
    BY <1>11 DEF RefreshGivesUp, counters, ghosts, Go
  <2>2. RefresherOK' /\ CountsOK'
    BY <1>1, <2>1 DEF CountsOK, RefresherOK, Refresher
  <2>3. ASSUME NEW z \in Zone PROVE ListedOK(z)'
    BY <1>1, <2>1 DEF ListedOK, Has, Refresher
  <2> QED BY <1>4, <2>1, <2>2, <2>3
<1> QED BY <1>3, <1>6, <1>7, <1>8, <1>9, <1>10, <1>11

\* What it installs is complete but for the zones that changed meanwhile, and those
\* it takes from the suspect ones were not changed.
LEMMA InstallingKeeps ==
  ASSUME Parts, \A z \in Zone : ZoneOK(z), RefreshInstalls
  PROVE  Parts' /\ \A z \in Zone : ZoneOK(z)'
<1>1. /\ RecordsOK /\ RefresherOK /\ RequestsOK /\ CountsOK /\ GhostsOK
      /\ refresher \in Refresher /\ refresher.records \in Records
  BY DEF Parts, RefresherOK, Refresher
<1>2. /\ refresher.pc = "loop" /\ refresher.todo = {}
      /\ cache' = [known |-> TRUE, records |-> refresher.records]
      /\ mutex' = "free" /\ ready' = TRUE /\ refresher' = [refresher EXCEPT !.pc = "idle"]
      /\ suspect' = suspect \ clean /\ changed' = changed \ clean
      /\ UNCHANGED <<route53, req, requests, failures, clean>>
  BY DEF RefreshInstalls, Go, counters
<1>3. RecordsOK' /\ RequestsOK' /\ CountsOK' /\ GhostsOK'
  BY <1>1, <1>2 DEF RecordsOK, RequestsOK, CountsOK, GhostsOK
<1>4. RefresherOK'
  BY <1>1, <1>2 DEF RefresherOK, Refresher
<1>5. ASSUME NEW z \in Zone PROVE ZoneOK(z)'
  <2>1. refresher'.pc = "idle" /\ cache'.known /\ cache'.records = refresher.records
    BY <1>1, <1>2 DEF Refresher
  <2>2. ListedOK(z)'
    BY <2>1 DEF ListedOK, Has
  <2>3. z \notin suspect' => cache'.records[z] = route53[z]
    BY <1>2, <2>1 DEF ZoneOK, ListedOK, Has
  <2>4. Shows(z)'
    BY <1>2, <2>3 DEF Shows
  <2>5. OpenOK(z)'
    <3>1. z \in clean' => \A h \in Handler : \A m \in req'[h].made : m[1] # z
      BY <1>2 DEF ZoneOK, OpenOK
    <3>2. ASSUME z \notin suspect', NEW h \in Handler, NEW m \in req'[h].made, m[1] = z
          PROVE  z \notin suspect
      BY <1>2, <3>2 DEF ZoneOK, OpenOK
    <3> QED BY <1>2, <2>3, <3>1, <3>2 DEF ZoneOK, OpenOK
  <2> QED BY <2>2, <2>4, <2>5 DEF ZoneOK
<1> QED BY <1>3, <1>4, <1>5 DEF Parts

-----------------------------------------------------------------------------
(* The requests. *)

\* Steps before and between the changes.
LEMMA AskingKeeps ==
  ASSUME Parts, \A z \in Zone : ZoneOK(z), NEW h \in Handler,
         \/ \E op \in Op, r \in Wanted : StartRequest(h, op, r)
         \/ LookupZones(h) \/ ListRecords(h) \/ ChangeRefused(h)
  PROVE  Parts' /\ \A z \in Zone : ZoneOK(z)'
<1>1. /\ RecordsOK /\ RefresherOK /\ RequestsOK /\ CountsOK /\ GhostsOK
      /\ req[h] \in Request /\ MadeOK(req[h])
  BY DEF Parts, RequestsOK
<1>2. UNCHANGED <<route53, cache, refresher, mutex, ready, ghosts>>
  BY DEF StartRequest, LookupZones, ListRecords, ChangeRefused
<1>3. req[h].pc # "patch"
  BY DEF StartRequest, LookupZones, ListRecords, ChangeRefused, Free
<1>4. req[h].made = {}
  BY <1>1, <1>3 DEF MadeOK
<1>5. CountsOK'
  <2>1. CASE \E op \in Op, r \in Wanted : StartRequest(h, op, r)
    <3>1. requests < MaxRequests /\ requests' = requests + 1 /\ failures' = failures
      BY <2>1 DEF StartRequest
    <3> QED BY <1>1, <3>1, BoundsAssumption DEF CountsOK, BoundsAssumption
  <2>2. CASE LookupZones(h) \/ ListRecords(h) \/ ChangeRefused(h)
    <3>1. UNCHANGED <<requests, failures>>
      BY <2>2 DEF LookupZones, ListRecords, ChangeRefused, counters
    <3> QED BY <1>1, <3>1 DEF CountsOK
  <2> QED BY <2>1, <2>2
<1>6. ASSUME NEW r \in Request, r.pc # "patch", r.made = {}, req' = [req EXCEPT ![h] = r]
      PROVE  Parts' /\ \A z \in Zone : ZoneOK(z)'
  <2>1. MadeOK(r)
    BY <1>6 DEF MadeOK
  <2>2. RequestsOK'
    BY <1>1, <1>6, <2>1, PutRequest
  <2>3. RecordsOK' /\ RefresherOK' /\ GhostsOK'
    BY <1>1, <1>2 DEF RecordsOK, RefresherOK, GhostsOK, ghosts
  <2>4. \A z \in Zone : ZoneOK(z)'
    BY <1>2, <1>4, <1>6, QuietRequest
  <2> QED BY <1>5, <2>2, <2>3, <2>4 DEF Parts
<1>7. NoRequest.pc = "idle"
  BY DEF NoRequest
<1>8. ASSUME NEW op \in Op, NEW r \in Wanted, StartRequest(h, op, r)
      PROVE  Parts' /\ \A z \in Zone : ZoneOK(z)'
  <2> DEFINE todo == IF op = "create" THEN Zone \X {r} ELSE {}
             new == [NoRequest EXCEPT !.pc = "lookup", !.op = op, !.name = r.name, !.todo = todo]
  <2>1. r \in Record
    BY WantedAssumption DEF WantedAssumption, Record
  <2>2. todo \in SUBSET (Zone \X Record) /\ r.name \in Name
    BY <2>1 DEF Record
  <2>3. req' = [req EXCEPT ![h] = new]
    BY <1>8 DEF StartRequest
  <2> HIDE DEF todo
  <2>4. new \in Request /\ new.pc = "lookup" /\ new.made = {}
    BY <2>2, NoRequestType DEF Request
  <2> HIDE DEF new
  <2> QED BY <1>6, <2>3, <2>4
<1>9. CASE LookupZones(h)
  <2> DEFINE new == [req[h] EXCEPT !.pc = IF req[h].op = "create" THEN "change" ELSE "list",
                                   !.zones = IF req[h].op = "create" THEN {} ELSE Zone]
  <2>1. req' = [req EXCEPT ![h] = new]
    BY <1>9 DEF LookupZones
  <2>2. new \in Request /\ new.pc # "patch" /\ new.made = {}
    BY <1>1, <1>4 DEF Request
  <2> HIDE DEF new
  <2> QED BY <1>6, <2>1, <2>2
<1>10. CASE ListRecords(h)
  <2>1. PICK z \in req[h].zones :
          LET found == req[h].todo \union {<<z, r>> : r \in {s \in Listed(z) : s.name = req[h].name}}
              left == req[h].zones \ {z}
          IN  req' = [req EXCEPT ![h] =
                        IF left = {} /\ found = {} THEN NoRequest
                        ELSE [@ EXCEPT !.zones = left, !.todo = found,
                                       !.pc = IF left = {} THEN "change" ELSE "list"]]
    BY <1>10 DEF ListRecords
  <2> DEFINE found == req[h].todo \union {<<z, r>> : r \in {s \in Listed(z) : s.name = req[h].name}}
             left == req[h].zones \ {z}
             new == [req[h] EXCEPT !.zones = left, !.todo = found,
                                   !.pc = IF left = {} THEN "change" ELSE "list"]
  <2>2. z \in Zone /\ Listed(z) \subseteq Record
    BY <1>1 DEF Request, Listed, RecordsOK, Records
  <2>3. found \in SUBSET (Zone \X Record) /\ left \in SUBSET Zone
    BY <1>1, <2>2 DEF Request
  <2>4. req' = [req EXCEPT ![h] = NoRequest] \/ req' = [req EXCEPT ![h] = new]
    BY <2>1
  <2> HIDE DEF found, left
  <2>5. new \in Request /\ new.pc # "patch" /\ new.made = {}
    BY <1>1, <1>4, <2>3 DEF Request
  <2> HIDE DEF new
  <2> QED BY <1>6, <1>7, <2>4, <2>5, NoRequestType
<1>11. CASE ChangeRefused(h)
  BY <1>6, <1>7, <1>11, NoRequestType DEF ChangeRefused, Done
<1> QED BY <1>8, <1>9, <1>10, <1>11

\* What a change makes of the records of its zone.
After(op, m) == {s \in route53[m[1]] : s.name # m[2].name \/ s.type # m[2].type}
                  \union IF op = "create" THEN {m[2]} ELSE {}

\* The records stay records, and those of other zones stay.
LEMMA ChangeType ==
  ASSUME RecordsOK, NEW op \in Op, NEW m \in Zone \X Record, Change(op, m[1], m[2])
  PROVE  /\ route53' \in Records /\ route53'[m[1]] = After(op, m)
         /\ \A z \in Zone \ {m[1]} : route53'[z] = route53[z]
<1>1. route53' = [route53 EXCEPT ![m[1]] = After(op, m)]
  BY DEF Change, After
<1>2. m[1] \in Zone /\ m[2] \in Record
  OBVIOUS
<1>3. After(op, m) \subseteq Record
  BY <1>2 DEF After, RecordsOK, Records
<1> HIDE DEF After
<1> QED BY <1>1, <1>2, <1>3 DEF RecordsOK, Records

\* A zone is not touched by a change of another.
LEMMA OtherZone ==
  ASSUME Parts, NEW z \in Zone, ZoneOK(z), NEW h \in Handler,
         \A g \in Handler \ {h} : req'[g] = req[g],
         \A m \in req[h].made \union req'[h].made : m[1] # z,
         route53'[z] = route53[z],
         UNCHANGED <<cache, refresher>>,
         z \in suspect' <=> z \in suspect, z \in changed' <=> z \in changed,
         z \in clean' <=> z \in clean
  PROVE  ZoneOK(z)'
<1>1. ASSUME NEW g \in Handler, NEW m, m[1] = z
      PROVE  /\ m \in req'[g].made <=> m \in req[g].made
             /\ m \in req'[g].made => g # h /\ req'[g] = req[g]
  BY <1>1
<1>2. ListedOK(z)'
  BY DEF ZoneOK, ListedOK, Has
<1>3. OpenOK(z)'
  BY <1>1 DEF ZoneOK, OpenOK
<1>4. Shows(z)'
  <2>1. (\A g \in Handler : \A m \in req'[g].made : m[1] # z)
          => \A g \in Handler : \A m \in req[g].made : m[1] # z
    BY <1>1
  <2> QED BY <2>1 DEF ZoneOK, Shows
<1> QED BY <1>2, <1>3, <1>4 DEF ZoneOK

\* A change that is made: it is open then, and its zone not clean.
LEMMA ChangingKeeps ==
  ASSUME Parts, \A z \in Zone : ZoneOK(z), NEW h \in Handler, ChangeRecord(h)
  PROVE  Parts' /\ \A z \in Zone : ZoneOK(z)'
<1>1. /\ RecordsOK /\ RefresherOK /\ RequestsOK /\ CountsOK /\ GhostsOK
      /\ req[h] \in Request /\ MadeOK(req[h]) /\ req[h].pc = "change" /\ req[h].op \in Op
  BY DEF Parts, RequestsOK, ChangeRecord, Request
<1>2. PICK m \in req[h].todo :
        /\ Change(req[h].op, m[1], m[2])
        /\ req' = [req EXCEPT ![h].pc = "patch", ![h].todo = @ \ {m}, ![h].made = {m}]
        /\ NoteChange(h, m[1], FALSE)
  BY DEF ChangeRecord
<1>3. UNCHANGED <<mutex, cache, refresher, ready, requests, failures>>
  BY DEF ChangeRecord, counters
<1>4. m \in Zone \X Record /\ m[1] \in Zone /\ req[h].made = {}
  BY <1>1 DEF Request, MadeOK
<1>5. /\ suspect' = IF refresher.pc # "idle" \/ Unpatched(m[1]) THEN suspect \union {m[1]} ELSE suspect
      /\ changed' = changed \union {m[1]} /\ clean' = clean \ {m[1]}
  BY <1>2 DEF NoteChange
<1>6. /\ route53' \in Records /\ route53'[m[1]] = After(req[h].op, m)
      /\ \A z \in Zone \ {m[1]} : route53'[z] = route53[z]
  BY <1>1, <1>2, <1>4, ChangeType
<1> DEFINE new == [req[h] EXCEPT !.pc = "patch", !.todo = @ \ {m}, !.made = {m}]
<1>7. req' = [req EXCEPT ![h] = new]
  BY <1>2
<1>8. new \in Request /\ MadeOK(new) /\ new.made = {m} /\ new.op = req[h].op
  BY <1>1, <1>4 DEF Request, MadeOK
<1> HIDE DEF new
<1>9. RequestsOK' /\ \A g \in Handler \ {h} : req'[g] = req[g]
  BY <1>1, <1>7, <1>8, PutRequest DEF RequestsOK
<1>10. req'[h].made = {m} /\ req'[h].op = req[h].op
  BY <1>1, <1>7, <1>8 DEF RequestsOK
<1>11. Parts'
  BY <1>1, <1>3, <1>4, <1>5, <1>6, <1>9 DEF Parts, RecordsOK, RefresherOK, CountsOK, GhostsOK
<1>12. ASSUME NEW z \in Zone, z # m[1] PROVE ZoneOK(z)'
  BY <1>3, <1>4, <1>5, <1>6, <1>9, <1>10, <1>12, OtherZone
<1>13. ASSUME NEW z \in Zone, z = m[1] PROVE ZoneOK(z)'
  <2>1. z \notin clean' /\ z \in changed'
    BY <1>4, <1>5, <1>13
  <2>2. ASSUME z \notin suspect'
        PROVE  z \notin suspect /\ refresher.pc = "idle" /\ ~Unpatched(z)
    BY <1>5, <1>13, <2>2
  <2>3. ListedOK(z)'
    BY <1>3, <2>1, <2>2 DEF ListedOK, Has
  <2>4. Shows(z)'
    BY <1>10, <1>13, <2>1 DEF Shows
  <2>5. OpenOK(z)'
    <3>1. ASSUME z \notin suspect', NEW g \in Handler \ {h}, NEW o \in req'[g].made
          PROVE  o[1] # z
      BY <1>9, <2>2, <3>1 DEF Unpatched
    <3>2. ASSUME z \notin suspect', NEW g \in Handler, NEW o \in req'[g].made, o[1] = z
          PROVE  g = h /\ o = m
      BY <1>10, <3>1, <3>2
    <3>3. req[h].op = "create" => m[2] \in route53'[z]
      BY <1>6, <1>13 DEF After
    <3>4. ASSUME z \notin suspect', cache'.known
          PROVE  {s \in cache'.records[z] : s.name # m[2].name /\ s.type # m[2].type} \subseteq route53'[z]
      <4>1. \A g \in Handler : \A o \in req[g].made : o[1] # z
        BY <2>2, <3>4 DEF Unpatched
      <4>2. cache.records[z] \subseteq route53[z]
        BY <1>3, <2>2, <3>4, <4>1 DEF ZoneOK, Shows
      <4> QED BY <1>3, <1>6, <1>13, <4>2 DEF After
    <3> QED BY <1>10, <2>1, <3>1, <3>2, <3>3, <3>4 DEF OpenOK
  <2> QED BY <2>3, <2>4, <2>5 DEF ZoneOK
<1> QED BY <1>11, <1>12, <1>13

\* A call that fails: nothing happened, or the zone is suspect.
LEMMA FailingKeeps ==
  ASSUME Parts, \A z \in Zone : ZoneOK(z), NEW h \in Handler, CallFails(h)
  PROVE  Parts' /\ \A z \in Zone : ZoneOK(z)'
<1>1. /\ RecordsOK /\ RefresherOK /\ RequestsOK /\ CountsOK /\ GhostsOK
      /\ req[h] \in Request /\ MadeOK(req[h]) /\ req[h].op \in Op
      /\ req[h].pc \in {"lookup", "list", "change"}
  BY DEF Parts, RequestsOK, CallFails, Request
<1>2. req[h].made = {}
  BY <1>1 DEF MadeOK
<1>3. /\ req' = [req EXCEPT ![h] = NoRequest]
      /\ UNCHANGED <<mutex, cache, refresher, ready, requests>>
      /\ failures < MaxFailures /\ failures' = failures + 1
  BY DEF CallFails, Done
<1>4. CountsOK'
  BY <1>1, <1>3, BoundsAssumption DEF CountsOK, BoundsAssumption
<1>5. RequestsOK' /\ RefresherOK'
  BY <1>1, <1>3, PutRequest, NoRequestType DEF RefresherOK
<1>6. CASE UNCHANGED <<route53, ghosts>>
  <2>1. RecordsOK' /\ GhostsOK'
    BY <1>1, <1>3, <1>6 DEF RecordsOK, GhostsOK, ghosts
  <2>2. \A z \in Zone : ZoneOK(z)'
    BY <1>2, <1>3, <1>6, QuietRequest, NoRequestType
  <2> QED BY <1>4, <1>5, <2>1, <2>2 DEF Parts
<1>7. ASSUME NEW m \in req[h].todo, Change(req[h].op, m[1], m[2]), NoteChange(h, m[1], TRUE)
      PROVE  Parts' /\ \A z \in Zone : ZoneOK(z)'
  <2>1. m \in Zone \X Record /\ m[1] \in Zone
    BY <1>1 DEF Request
  <2>2. /\ suspect' = suspect \union {m[1]} /\ changed' = changed \union {m[1]}
        /\ clean' = clean \ {m[1]}
    BY <1>7 DEF NoteChange
  <2>3. /\ route53' \in Records
        /\ \A z \in Zone \ {m[1]} : route53'[z] = route53[z]
    BY <1>1, <1>7, <2>1, ChangeType
  <2>4. RecordsOK' /\ GhostsOK'
    BY <1>1, <1>3, <2>1, <2>2, <2>3 DEF RecordsOK, GhostsOK
  <2>5. /\ \A g \in Handler \ {h} : req'[g] = req[g]
        /\ req'[h].made = {}
    BY <1>1, <1>3, NoRequestType DEF RequestsOK
  <2>6. ASSUME NEW z \in Zone, z # m[1] PROVE ZoneOK(z)'
    BY <1>2, <1>3, <2>2, <2>3, <2>5, <2>6, OtherZone
  <2>7. ASSUME NEW z \in Zone, z = m[1] PROVE ZoneOK(z)'
    <3>1. z \in suspect' /\ z \notin clean'
      BY <2>2, <2>7
    <3> QED BY <3>1 DEF ZoneOK, ListedOK, OpenOK, Shows
  <2> QED BY <1>4, <1>5, <2>4, <2>6, <2>7 DEF Parts
<1> QED BY <1>6, <1>7 DEF CallFails

\* The change gets to the cache, unless that is nil.
LEMMA PatchingKeeps ==
  ASSUME Parts, \A z \in Zone : ZoneOK(z), NEW h \in Handler, PatchCache(h)
  PROVE  Parts' /\ \A z \in Zone : ZoneOK(z)'
<1>1. /\ RecordsOK /\ RefresherOK /\ RequestsOK /\ CountsOK /\ GhostsOK
      /\ req[h] \in Request /\ MadeOK(req[h]) /\ req[h].pc = "patch" /\ req[h].op \in Op
  BY DEF Parts, RequestsOK, PatchCache, Request
<1>2. PICK m \in req[h].made :
        /\ cache' = IF cache.known
                    THEN [cache EXCEPT !.records[m[1]] = Patched(req[h].op, @, m[2])] ELSE cache
        /\ changed' = changed \union {m[1]}
  BY DEF PatchCache
<1>3. UNCHANGED <<route53, mutex, refresher, ready, requests, failures, suspect, clean>>
  BY DEF PatchCache, counters
<1>4. m \in Zone \X Record /\ m[1] \in Zone /\ m[2] \in Record /\ req[h].made = {m}
  BY <1>1 DEF MadeOK
<1> DEFINE patched == Patched(req[h].op, cache.records[m[1]], m[2])
           new == [req[h] EXCEPT !.pc = "change", !.made = {}]
<1>5. patched \subseteq Record
  BY <1>1, <1>4 DEF Patched, RecordsOK, Records
<1>6. /\ cache' \in [known : BOOLEAN, records : Records] /\ cache'.known = cache.known
      /\ cache.known => cache'.records[m[1]] = patched
      /\ \A z \in Zone \ {m[1]} : cache'.records[z] = cache.records[z]
  <2>1. CASE cache.known
    <3>1. cache' = [cache EXCEPT !.records = [cache.records EXCEPT ![m[1]] = patched]]
      BY <1>2, <2>1
    <3>2. /\ [cache.records EXCEPT ![m[1]] = patched] \in Records
          /\ [cache.records EXCEPT ![m[1]] = patched][m[1]] = patched
          /\ \A z \in Zone \ {m[1]} : [cache.records EXCEPT ![m[1]] = patched][z] = cache.records[z]
      <4> HIDE DEF patched
      <4> QED BY <1>1, <1>4, <1>5 DEF RecordsOK, Records
    <3> HIDE DEF patched
    <3> QED BY <1>1, <3>1, <3>2 DEF RecordsOK
  <2>2. CASE ~cache.known
    BY <1>1, <1>2, <2>2 DEF RecordsOK
  <2> QED BY <2>1, <2>2
<1> HIDE DEF patched
<1>7. req' = [req EXCEPT ![h] = NoRequest] \/ req' = [req EXCEPT ![h] = new]
  BY DEF PatchCache, Done
<1>8. new \in Request /\ MadeOK(new) /\ new.made = {}
  BY <1>1 DEF Request, MadeOK
<1> HIDE DEF new
<1>9. /\ RequestsOK' /\ req'[h].made = {}
      /\ \A g \in Handler \ {h} : req'[g] = req[g]
  BY <1>1, <1>7, <1>8, PutRequest, NoRequestType DEF RequestsOK
<1>10. Parts'
  BY <1>1, <1>2, <1>3, <1>4, <1>6, <1>9 DEF Parts, RecordsOK, RefresherOK, CountsOK, GhostsOK
<1>11. ASSUME NEW z \in Zone, z # m[1] PROVE ZoneOK(z)'
  <2>1. ASSUME NEW g \in Handler, NEW o, o[1] = z
        PROVE  /\ o \in req'[g].made <=> o \in req[g].made
               /\ o \in req'[g].made => req'[g] = req[g]
    BY <1>4, <1>9, <1>11, <2>1
  <2>2. z \in changed' <=> z \in changed
    BY <1>2, <1>11
  <2>3. ListedOK(z)'
    BY <1>3 DEF ZoneOK, ListedOK, Has
  <2>4. OpenOK(z)'
    <3>1. cache'.known = cache.known /\ cache'.records[z] = cache.records[z]
      BY <1>6, <1>11
    <3> QED BY <1>3, <2>1, <3>1 DEF ZoneOK, OpenOK
  <2>5. Shows(z)'
    <3>1. cache'.known = cache.known /\ cache'.records[z] = cache.records[z]
      BY <1>6, <1>11
    <3>2. (\A g \in Handler : \A o \in req'[g].made : o[1] # z)
            => \A g \in Handler : \A o \in req[g].made : o[1] # z
      BY <2>1
    <3> QED BY <1>3, <2>2, <3>1, <3>2 DEF ZoneOK, Shows
  <2> QED BY <2>3, <2>4, <2>5 DEF ZoneOK
<1>12. ASSUME NEW z \in Zone, z = m[1] PROVE ZoneOK(z)'
  <2>1. z \in changed' /\ z \notin clean
    BY <1>2, <1>4, <1>12 DEF ZoneOK, OpenOK
  <2>2. ASSUME z \notin suspect, NEW g \in Handler, NEW o \in req'[g].made
        PROVE  o[1] # z
    BY <1>4, <1>9, <1>12, <2>2 DEF ZoneOK, OpenOK
  <2>3. ListedOK(z)'
    BY <1>3 DEF ZoneOK, ListedOK, Has
  <2>4. OpenOK(z)'
    BY <1>3, <2>1, <2>2 DEF OpenOK
  <2>5. ASSUME z \notin suspect, cache.known PROVE patched \subseteq route53[z]
    <3>1. /\ req[h].op = "create" => m[2] \in route53[z]
          /\ {s \in cache.records[z] : s.name # m[2].name /\ s.type # m[2].type} \subseteq route53[z]
      BY <1>4, <1>12, <2>5 DEF ZoneOK, OpenOK
    <3> QED BY <1>12, <3>1 DEF patched, Patched
  <2>6. Shows(z)'
    BY <1>3, <1>6, <1>12, <2>1, <2>5 DEF Shows
  <2> QED BY <2>3, <2>4, <2>6 DEF ZoneOK
<1> QED BY <1>10, <1>11, <1>12

-----------------------------------------------------------------------------
(* The theorems. *)

Inv == Parts /\ \A z \in Zone : ZoneOK(z)

\* At first nothing is cached and nothing asked.
LEMMA InitInv == Init => Inv
<1>1. Init => Parts
  <2>1. ASSUME Init PROVE RecordsOK /\ RefresherOK
    <3>1. Present \subseteq Record /\ (CHOOSE z \in Zone : TRUE) \in Zone
      BY WantedAssumption, DomainAssumption DEF WantedAssumption, DomainAssumption, Record
    <3> QED BY <2>1, <3>1 DEF Init, RecordsOK, RefresherOK, Refresher, Records, Nothing
  <2>2. ASSUME Init PROVE RequestsOK
    BY <2>2, NoRequestType DEF Init, RequestsOK
  <2>3. ASSUME Init PROVE CountsOK /\ GhostsOK
    BY <2>3, BoundsAssumption DEF Init, CountsOK, GhostsOK, BoundsAssumption
  <2> QED BY <2>1, <2>2, <2>3 DEF Parts
<1>2. ASSUME Init, NEW z \in Zone PROVE ZoneOK(z)
  <2>1. \A h \in Handler : req[h].made = {}
    BY <1>2, NoRequestType DEF Init
  <2>2. refresher.pc = "idle" /\ ~cache.known
    BY <1>2 DEF Init
  <2> QED BY <2>1, <2>2 DEF ZoneOK, ListedOK, Has, OpenOK, Shows
<1> QED BY <1>1, <1>2 DEF Inv

\* Every step keeps the invariant.
LEMMA NextInv == Inv /\ [Next]_vars => Inv'
<1>1. ASSUME Inv, RefreshStarts \/ RefreshStep \/ RefreshFails PROVE Inv'
  BY <1>1, RefreshingKeeps, InstallingKeeps DEF Inv, RefreshStep
<1>2. ASSUME Inv, NEW h \in Handler,
             \/ \E op \in {"create", "remove"}, r \in Wanted : StartRequest(h, op, r)
             \/ RequestStep(h) \/ CallFails(h)
      PROVE  Inv'
  BY <1>2, AskingKeeps, ChangingKeeps, FailingKeeps, PatchingKeeps DEF Inv, RequestStep, Op
<1>3. ASSUME Inv, UNCHANGED vars PROVE Inv'
  <2>1. UNCHANGED <<route53, mutex, cache, refresher, ready, req, requests, failures, suspect,
                    changed, clean>>
    BY <1>3 DEF vars
  <2>2. Parts'
    BY <1>3, <2>1 DEF Inv, Parts, RecordsOK, RefresherOK, RequestsOK, CountsOK, GhostsOK
  <2>3. ASSUME NEW z \in Zone PROVE ZoneOK(z)'
    BY <1>3, <2>1 DEF Inv, ZoneOK, ListedOK, Has, OpenOK, Shows
  <2> QED BY <2>2, <2>3 DEF Inv
<1> QED BY <1>1, <1>2, <1>3 DEF Next

\* The invariant always holds; the fairness of the specification is not needed.
LEMMA DnsAlways == Spec => []Inv
BY InitInv, NextInv, PTL DEF Spec

\* Zones, cache, refresh and requests always have their types, whoever changes records
\* while a refresh lists them; a request has at most one change that is not cached yet.
THEOREM DnsTypeCorrect == Spec => []TypeOK
<1>1. Inv => TypeOK
  BY PartsType DEF Inv
<1> QED BY <1>1, DnsAlways, PTL

\* However many requests and refreshes interleave: the cache has no record that is
\* not in its zone, but for zones where changes overlapped with each other or with a
\* refresh, or were lost, and no refresh has listed since.
THEOREM DnsCachedIsThere == Spec => []CachedIsThere
<1>1. Inv => CachedIsThere
  <2>1. ASSUME Inv, cache.known, NEW z \in Quiet
        PROVE  cache.records[z] \subseteq route53[z]
    <3>1. z \in Zone /\ z \notin suspect /\ ~Unpatched(z)
      BY <2>1 DEF Quiet
    <3>2. \A h \in Handler : \A m \in req[h].made : m[1] # z
      BY <3>1 DEF Unpatched
    <3> QED BY <2>1, <3>1, <3>2 DEF Inv, ZoneOK, Shows
  <2> QED BY <2>1 DEF CachedIsThere
<1> QED BY <1>1, DnsAlways, PTL

\* A refresh makes a zone that was not changed since it was listed complete, whatever
\* was missing or wrong before.
THEOREM DnsRefreshedIsComplete == Spec => []RefreshedIsComplete
<1>1. Inv => RefreshedIsComplete
  BY DEF Inv, ZoneOK, Shows, RefreshedIsComplete, Quiet
<1> QED BY <1>1, DnsAlways, PTL
===============================================================================
