---------------------------- MODULE SitesGateway ----------------------------
(***************************************************************************)
(* The one Istio Gateway object all sites share (sites-public), and the    *)
(* handlers of region-api that edit it: each reads the whole object,       *)
(* changes the servers of its own domain and puts the whole object back    *)
(* under the resource version it read (router/ingress-istio.go).  Handlers *)
(* run concurrently, in one process or in several replicas; the only       *)
(* synchronisation is the version check of the Kubernetes API.             *)
(*                                                                         *)
(* A server of the gateway is identified by its port name: "https-<cert>"  *)
(* on 443 with the hosts served under that certificate, "http-<domain>" on *)
(* 80 with that one host.  The object is therefore kept as a set of hosts  *)
(* per certificate (empty: no such server) and the set of redirected hosts.*)
(***************************************************************************)
EXTENDS Sites

CONSTANTS Handler,    \* the concurrent callers
          Cert,       \* the names of the TLS secrets
          MaxTries,   \* the attempts of a caller before it gives up (7 in the code)
          MaxVersion  \* bound: the resource versions the gateway may reach

ASSUME CertAssumption == Cert # {}
ASSUME MaxTriesAssumption == MaxTries \in Nat \ {0}
ASSUME MaxVersionAssumption == MaxVersion \in Nat

VARIABLES gateway,    \* the object stored by Kubernetes; version 0: there is none
          call        \* call[h]: where the handler h is, and its copy of the object

gwvars == <<gateway, call>>

Gateway == [version : Nat, tls : [Cert -> SUBSET Domain], http : SUBSET Domain]

NoGateway == [version |-> 0, tls |-> [c \in Cert |-> {}], http |-> {}]

Call == [pc : {"idle", "get", "put", "post", "ok", "failed"},
         op : {"install", "remove"}, domain : Domain, cert : Cert,
         tries : Nat, copy : Gateway]

Idle == [pc |-> "idle", op |-> "install", domain |-> CHOOSE d \in Domain : TRUE,
         cert |-> CHOOSE c \in Cert : TRUE, tries |-> 0, copy |-> NoGateway]

GatewayTypeOK ==
  /\ gateway \in Gateway
  /\ call \in [Handler -> Call]

-----------------------------------------------------------------------------
(* The edits of the object, as functions of the object. *)

\* Mutant: the redirect is forgotten.
RemoveKeepsRedirect(d, c, g) ==
  [g EXCEPT !.tls  = [k \in Cert |-> IF g.tls[k] = {d} /\ k # c THEN {d} ELSE g.tls[k] \ {d}]]

\* The host leaves every TLS server it shares with others, whatever the
\* certificate; a TLS server it has for itself is dropped only when it is the
\* one of the given certificate.
RemoveHostsAndServers(d, c, g) ==
  [g EXCEPT !.tls  = [k \in Cert |-> IF g.tls[k] = {d} /\ k # c THEN {d} ELSE g.tls[k] \ {d}],
            !.http = g.http \ {d}]

\* The host joins the TLS server of the certificate and gets its redirect.
AddHostsAndServers(d, c, g) ==
  [g EXCEPT !.tls  = [g.tls EXCEPT ![c] = g.tls[c] \union {d}],
            !.http = g.http \union {d}]

Edit(op, d, c, g) ==
  LET removed == RemoveHostsAndServers(d, c, g)
  IN  IF op = "install" THEN AddHostsAndServers(d, c, removed) ELSE removed

-----------------------------------------------------------------------------
(* The steps of a call. *)

Goto(h, pc) == call' = [call EXCEPT ![h].pc = pc]

\* InstallOrUpdateUberSiteGateway or DeleteUberSiteGateway is called.
Begin(h, op, d, c) ==
  /\ call[h].pc = "idle"
  /\ call' = [call EXCEPT ![h] = [pc |-> "get", op |-> op, domain |-> d, cert |-> c,
                                  tries |-> 0, copy |-> NoGateway]]
  /\ UNCHANGED gateway

\* The object is fetched and edited in memory.  An install starts from an empty
\* object when there is none; a removal then is an error.  A removal that
\* changes nothing writes nothing (an install always writes: it first removes).
GetGateway(h) ==
  LET me == call[h]
      edited == Edit(me.op, me.domain, me.cert, gateway)
  IN  /\ me.pc = "get"
      /\ UNCHANGED gateway
      /\ \/ /\ gateway.version = 0 /\ me.op = "remove"
            /\ Goto(h, "failed")
         \/ /\ gateway.version # 0 /\ me.op = "remove" /\ edited = gateway
            /\ Goto(h, "ok")
         \/ /\ me.op = "install" \/ (gateway.version # 0 /\ edited # gateway)
            /\ call' = [call EXCEPT ![h].pc = "put", ![h].copy = edited]

\* The API server accepts the copy: its version was current.
Store(g) ==
  /\ gateway.version < MaxVersion
  /\ gateway' = [g EXCEPT !.version = gateway.version + 1]

\* Mutant: the update is sent without the version that was read.
PutUnversioned(h) ==
  /\ call[h].pc = "put"
  /\ gateway.version # 0
  /\ Store(call[h].copy)
  /\ Goto(h, "ok")

PutAccepted(h) ==
  /\ call[h].pc = "put"
  /\ gateway.version # 0
  /\ call[h].copy.version = gateway.version
  /\ Store(call[h].copy)
  /\ Goto(h, "ok")

\* Mutant: the retry only takes over the new version.
ConflictKeepsCopy(h) ==
  /\ call[h].pc = "put"
  /\ gateway.version # 0
  /\ call[h].copy.version \notin {0, gateway.version}
  /\ UNCHANGED gateway
  /\ call' = [call EXCEPT ![h].tries = @ + 1,
                          ![h].pc = IF call[h].tries + 1 = MaxTries THEN "failed" ELSE "put",
                          ![h].copy.version = gateway.version]

\* Mutant: the retries are counted the wrong way.
ConflictCountsDown(h) ==
  /\ call[h].pc = "put"
  /\ gateway.version # 0
  /\ call[h].copy.version \notin {0, gateway.version}
  /\ UNCHANGED gateway
  /\ call' = [call EXCEPT ![h].tries = @ - 1,
                          ![h].pc = IF call[h].tries - 1 = MaxTries THEN "failed" ELSE "get"]

\* 409: somebody wrote since the read.  The caller sleeps and starts again from
\* the read, until it is out of retries.
PutConflict(h) ==
  /\ call[h].pc = "put"
  /\ gateway.version # 0
  /\ call[h].copy.version \notin {0, gateway.version}
  /\ UNCHANGED gateway
  /\ call' = [call EXCEPT ![h].tries = @ + 1,
                          ![h].pc = IF call[h].tries + 1 = MaxTries THEN "failed" ELSE "get"]

\* 404: the object has to be created.
PutNotFound(h) ==
  /\ call[h].pc = "put"
  /\ gateway.version = 0
  /\ Goto(h, "post")
  /\ UNCHANGED gateway

\* The copy carries no version but the object exists by now: Kubernetes refuses
\* the update of a custom resource without a version, and that is not a conflict
\* the caller would retry.
PutInvalid(h) ==
  /\ call[h].pc = "put"
  /\ gateway.version # 0
  /\ call[h].copy.version = 0
  /\ Goto(h, "failed")
  /\ UNCHANGED gateway

PostAccepted(h) ==
  /\ call[h].pc = "post"
  /\ gateway.version = 0
  /\ Store(call[h].copy)
  /\ Goto(h, "ok")

\* Somebody created the object first: an error, not retried.
PostExists(h) ==
  /\ call[h].pc = "post"
  /\ gateway.version # 0
  /\ Goto(h, "failed")
  /\ UNCHANGED gateway

\* A request fails before it is served, or is answered with an unexpected code.
RequestFails(h) ==
  /\ call[h].pc \in {"get", "put", "post"}
  /\ Goto(h, "failed")
  /\ UNCHANGED gateway

\* The write is served but its answer is lost: the caller reports an error.
AnswerLost(h) ==
  /\ \/ call[h].pc = "put" /\ gateway.version # 0 /\ call[h].copy.version = gateway.version
     \/ call[h].pc = "post" /\ gateway.version = 0
  /\ Store(call[h].copy)
  /\ Goto(h, "failed")

Step(h) ==
  \/ GetGateway(h)
  \/ PutAccepted(h) \/ PutConflict(h) \/ PutNotFound(h) \/ PutInvalid(h)
  \/ PostAccepted(h) \/ PostExists(h)
  \/ RequestFails(h) \/ AnswerLost(h)

Return(h) ==
  /\ call[h].pc \in {"ok", "failed"}
  /\ call' = [call EXCEPT ![h] = Idle]
  /\ UNCHANGED gateway

GatewayInit ==
  /\ gateway = NoGateway
  /\ call = [h \in Handler |-> Idle]

GatewayNext ==
  \E h \in Handler :
    \/ \E op \in {"install", "remove"}, d \in Domain, c \in Cert : Begin(h, op, d, c)
    \/ Step(h)
    \/ Return(h)

GatewaySpec == GatewayInit /\ [][GatewayNext]_gwvars

-----------------------------------------------------------------------------
(* What the protocol is for. *)

\* The TLS servers that list the domain.
CertsOf(d, g) == {c \in Cert : d \in g.tls[c]}

\* The redirect of a site always points at a TLS server: whatever certificates
\* its domain was installed and removed under, and however the edits of several
\* handlers interleave, a domain with a port 80 server has a port 443 server.
RedirectHasTls == \A d \in gateway.http : CertsOf(d, gateway) # {}

\* A copy on its way back is never newer than the object, and one that would be
\* accepted, for its version is current, is the edit of the current object and not
\* of one that others have changed since (what the version check of the API and
\* the new read after a conflict are for).
CopyIsFresh ==
  \A h \in Handler : call[h].pc \in {"put", "post"} =>
    /\ call[h].copy.version <= gateway.version
    /\ call[h].copy.version = gateway.version
         => call[h].copy = Edit(call[h].op, call[h].domain, call[h].cert, gateway)

\* Concurrent installs and removals of several domains are as if each happened
\* in one step that only touches its own domain: no edit of a site is lost, or
\* undone, by an edit of another site.
Hosts == INSTANCE GatewayHosts
           WITH certs <- [d \in Domain |-> CertsOf(d, gateway)], redirect <- gateway.http
ImplementsHosts == Hosts!Spec

\* "Gateway servers misconfigured should reconfigure themselves"
\* (ingress-istio_test.go): a successful install leaves the domain under no
\* certificate but the installed one.
Reconfigures ==
  [][\A h \in Handler :
       call[h].pc \in {"put", "post"} /\ call'[h].pc = "ok" /\ call[h].op = "install"
         => CertsOf(call[h].domain, gateway') = {call[h].cert}]_gwvars
=============================================================================
