------------------------- MODULE SitesGatewayProofs -------------------------
(***************************************************************************)
(* Proofs about the shared gateway, for any number of handlers, domains,   *)
(* certificates, attempts and versions.                                    *)
(***************************************************************************)
EXTENDS SitesGateway, TLAPS

USE DomainAssumption, CertAssumption

-----------------------------------------------------------------------------
(* The edits of the object. *)

\* An edit of a gateway is a gateway of the same version.
LEMMA EditType ==
  ASSUME NEW op \in {"install", "remove"}, NEW d \in Domain, NEW c \in Cert, NEW g \in Gateway
  PROVE  Edit(op, d, c, g) \in Gateway /\ Edit(op, d, c, g).version = g.version
BY DEF Edit, AddHostsAndServers, RemoveHostsAndServers, Gateway

\* What an install does to the certificates of the domains: its own gets the
\* certificate and perhaps loses others, those of the others stay.
LEMMA InstallCerts ==
  ASSUME NEW d \in Domain, NEW c \in Cert, NEW g \in Gateway
  PROVE  /\ \A e \in Domain \ {d} : CertsOf(e, Edit("install", d, c, g)) = CertsOf(e, g)
         /\ \E kept \in SUBSET CertsOf(d, g) :
              CertsOf(d, Edit("install", d, c, g)) = kept \union {c}
         /\ Edit("install", d, c, g).http = g.http \union {d}
<1> DEFINE n == Edit("install", d, c, g)
<1>1. /\ n.http = (g.http \ {d}) \union {d}
      /\ \A k \in Cert : n.tls[k] = (IF g.tls[k] = {d} /\ k # c THEN {d} ELSE g.tls[k] \ {d})
                                    \union (IF k = c THEN {d} ELSE {})
  BY DEF Edit, AddHostsAndServers, RemoveHostsAndServers, Gateway
<1>2. ASSUME NEW e \in Domain \ {d} PROVE CertsOf(e, n) = CertsOf(e, g)
  BY <1>1 DEF CertsOf
<1>3. CertsOf(d, n) = {k \in Cert : g.tls[k] = {d} /\ k # c} \union {c}
  BY <1>1 DEF CertsOf
<1>4. {k \in Cert : g.tls[k] = {d} /\ k # c} \in SUBSET CertsOf(d, g)
  BY DEF CertsOf
<1>5. n.http = g.http \union {d}
  BY <1>1
<1> QED BY <1>2, <1>3, <1>4, <1>5

\* What a removal does: the domain loses the certificate and perhaps others.
LEMMA RemoveCerts ==
  ASSUME NEW d \in Domain, NEW c \in Cert, NEW g \in Gateway
  PROVE  /\ \A e \in Domain \ {d} : CertsOf(e, Edit("remove", d, c, g)) = CertsOf(e, g)
         /\ CertsOf(d, Edit("remove", d, c, g)) \in SUBSET (CertsOf(d, g) \ {c})
         /\ Edit("remove", d, c, g).http = g.http \ {d}
<1> DEFINE n == Edit("remove", d, c, g)
<1>1. /\ n.http = g.http \ {d}
      /\ \A k \in Cert : n.tls[k] = IF g.tls[k] = {d} /\ k # c THEN {d} ELSE g.tls[k] \ {d}
  BY DEF Edit, AddHostsAndServers, RemoveHostsAndServers, Gateway
<1>2. ASSUME NEW e \in Domain \ {d} PROVE CertsOf(e, n) = CertsOf(e, g)
  BY <1>1 DEF CertsOf
<1>3. CertsOf(d, n) = {k \in Cert : g.tls[k] = {d} /\ k # c}
  BY <1>1 DEF CertsOf
<1>4. {k \in Cert : g.tls[k] = {d} /\ k # c} \in SUBSET (CertsOf(d, g) \ {c})
  BY DEF CertsOf
<1> QED BY <1>1, <1>2, <1>3, <1>4

-----------------------------------------------------------------------------
\* Types are preserved.
LEMMA GatewayTypeStep ==
  ASSUME GatewayTypeOK, [GatewayNext]_gwvars
  PROVE  GatewayTypeOK'
<1> USE DEF GatewayTypeOK
<1>0. Idle \in Call /\ NoGateway \in Gateway
  BY DEF Idle, Call, NoGateway, Gateway
<1>1. ASSUME NEW h \in Handler, NEW op \in {"install", "remove"}, NEW d \in Domain,
             NEW c \in Cert, Begin(h, op, d, c)
      PROVE  GatewayTypeOK'
  BY <1>0, <1>1 DEF Begin, Call
<1>2. ASSUME NEW h \in Handler, Return(h) PROVE GatewayTypeOK'
  BY <1>0, <1>2 DEF Return
<1>3. ASSUME NEW h \in Handler, Step(h) PROVE GatewayTypeOK'
  <2> DEFINE edited == Edit(call[h].op, call[h].domain, call[h].cert, gateway)
  <2>0. edited \in Gateway
    BY EditType DEF Call
  <2>a. call[h] \in Call /\ call[h].copy \in Gateway
    BY DEF Call
  <2>b. ASSUME Store(call[h].copy) PROVE gateway' \in Gateway
    BY <2>a, <2>b DEF Store, Gateway
  <2>c. ASSUME NEW pc \in {"ok", "failed"}, Goto(h, pc) PROVE call' \in [Handler -> Call]
    BY <2>c DEF Goto, Call
  <2>1. CASE GetGateway(h)
    <3>1. CASE UNCHANGED gateway /\ \E pc \in {"failed", "ok"} : Goto(h, pc)
      BY <3>1 DEF Goto, Call
    <3>2. CASE UNCHANGED gateway /\ call' = [call EXCEPT ![h].pc = "put", ![h].copy = edited]
      BY <3>2, <2>0 DEF Call
    <3> QED BY <2>1, <3>1, <3>2 DEF GetGateway
  <2>2. CASE PutAccepted(h)
    BY <2>2, <2>b, <2>c DEF PutAccepted
  <2>3. CASE PutConflict(h)
    BY <2>3 DEF PutConflict, Call
  <2>4. CASE PutNotFound(h)
    BY <2>4 DEF PutNotFound, Goto, Call
  <2>5. CASE PutInvalid(h)
    BY <2>5 DEF PutInvalid, Goto, Call
  <2>6. CASE PostAccepted(h)
    BY <2>6, <2>b, <2>c DEF PostAccepted
  <2>7. CASE PostExists(h)
    BY <2>7 DEF PostExists, Goto, Call
  <2>8. CASE RequestFails(h)
    BY <2>8 DEF RequestFails, Goto, Call
  <2>9. CASE AnswerLost(h)
    BY <2>9, <2>b, <2>c DEF AnswerLost
  <2> QED BY <1>3, <2>1, <2>2, <2>3, <2>4, <2>5, <2>6, <2>7, <2>8, <2>9 DEF Step
<1>4. CASE UNCHANGED gwvars
  BY <1>4 DEF gwvars
<1> QED BY <1>1, <1>2, <1>3, <1>4 DEF GatewayNext

\* Every state of the protocol is well typed.
THEOREM GatewayTypeCorrect == GatewaySpec => []GatewayTypeOK
<1>1. GatewayInit => GatewayTypeOK
  BY DEF GatewayInit, GatewayTypeOK, Idle, Call, NoGateway, Gateway
<1> QED BY <1>1, GatewayTypeStep, PTL DEF GatewaySpec

-----------------------------------------------------------------------------
(* The protocol: what is written is the edit of what was there. *)

\* Freshness is preserved: a write makes every other copy stale, a read makes the
\* reader's copy fresh, and nothing else touches either.
LEMMA FreshStep ==
  ASSUME GatewayTypeOK, CopyIsFresh, [GatewayNext]_gwvars
  PROVE  CopyIsFresh'
<1> USE DEF GatewayTypeOK
<1>0. \A h \in Handler : call[h] \in Call /\ call[h].copy \in Gateway /\ gateway.version \in Nat
                         /\ call[h].copy.version \in Nat
  BY DEF Call, Gateway
<1>1. ASSUME NEW h \in Handler, NEW g \in Gateway, Store(g), NEW pc \in {"ok", "failed"}, Goto(h, pc)
      PROVE  CopyIsFresh'
  <2>1. gateway'.version = gateway.version + 1
    BY <1>1 DEF Store, Gateway
  <2>2. \A o \in Handler : o # h => call'[o] = call[o]
    BY <1>1 DEF Goto
  <2>3. call'[h].pc = pc
    BY <1>1, <1>0 DEF Goto, Call
  <2> QED BY <1>0, <1>1, <2>1, <2>2, <2>3 DEF CopyIsFresh
<1>2. ASSUME UNCHANGED gateway, NEW h \in Handler,
             \A o \in Handler : o # h => call'[o] = call[o],
             call'[h].pc \notin {"put", "post"} \/ (call[h].pc \in {"put", "post"} /\
               \E pc \in {"put", "post"} : call'[h] = [call[h] EXCEPT !.pc = pc])
      PROVE  CopyIsFresh'
  <2> SUFFICES ASSUME NEW o \in Handler, call'[o].pc \in {"put", "post"}
               PROVE  /\ call'[o].copy.version <= gateway'.version
                      /\ call'[o].copy.version = gateway'.version
                           => call'[o].copy
                                = Edit(call'[o].op, call'[o].domain, call'[o].cert, gateway')
    BY DEF CopyIsFresh
  <2>1. call[o].pc \in {"put", "post"} /\ call'[o].copy = call[o].copy /\ call'[o].op = call[o].op
        /\ call'[o].domain = call[o].domain /\ call'[o].cert = call[o].cert
    BY <1>0, <1>2 DEF Call
  <2> QED BY <1>2, <2>1 DEF CopyIsFresh
<1>3. ASSUME NEW h \in Handler, NEW op \in {"install", "remove"}, NEW d \in Domain,
             NEW c \in Cert, Begin(h, op, d, c)
      PROVE  CopyIsFresh'
  BY <1>2, <1>3 DEF Begin
<1>4. ASSUME NEW h \in Handler, Return(h) PROVE CopyIsFresh'
  BY <1>2, <1>4 DEF Return, Idle
<1>5. ASSUME NEW h \in Handler, Step(h) PROVE CopyIsFresh'
  <2>0. ASSUME NEW pc \in {"idle", "get", "post", "ok", "failed"}, Goto(h, pc), UNCHANGED gateway,
               pc = "post" => call[h].pc = "put"
        PROVE  CopyIsFresh'
    BY <1>0, <1>2, <2>0 DEF Goto, Call
  <2>1. CASE GetGateway(h)
    <3> DEFINE edited == Edit(call[h].op, call[h].domain, call[h].cert, gateway)
    <3>1. CASE UNCHANGED gateway /\ call' = [call EXCEPT ![h].pc = "put", ![h].copy = edited]
      <4>1. /\ call'[h].copy = edited /\ call'[h].op = call[h].op
            /\ call'[h].domain = call[h].domain /\ call'[h].cert = call[h].cert
        BY <3>1, <1>0 DEF Call
      <4>2. edited.version = gateway.version
        BY <1>0, EditType DEF Call
      <4>3. \A o \in Handler : o # h => call'[o] = call[o]
        BY <3>1
      <4> QED BY <1>0, <3>1, <4>1, <4>2, <4>3 DEF CopyIsFresh
    <3>2. CASE UNCHANGED gateway /\ \E pc \in {"failed", "ok"} : Goto(h, pc)
      BY <2>0, <3>2
    <3> QED BY <2>1, <3>1, <3>2 DEF GetGateway
  <2>2. CASE PutAccepted(h)
    BY <1>0, <1>1, <2>2 DEF PutAccepted
  <2>3. CASE PutConflict(h)
    <3>1. call'[h].pc \in {"failed", "get"}
      BY <1>0, <2>3 DEF PutConflict, Call
    <3>2. \A o \in Handler : o # h => call'[o] = call[o]
      BY <2>3 DEF PutConflict
    <3> QED BY <1>2, <2>3, <3>1, <3>2 DEF PutConflict
  <2>4. CASE PutNotFound(h)
    BY <2>0, <2>4 DEF PutNotFound
  <2>5. CASE PutInvalid(h)
    BY <2>0, <2>5 DEF PutInvalid
  <2>6. CASE PostAccepted(h)
    BY <1>0, <1>1, <2>6 DEF PostAccepted
  <2>7. CASE PostExists(h)
    BY <2>0, <2>7 DEF PostExists
  <2>8. CASE RequestFails(h)
    BY <2>0, <2>8 DEF RequestFails
  <2>9. CASE AnswerLost(h)
    BY <1>0, <1>1, <2>9 DEF AnswerLost
  <2> QED BY <1>5, <2>1, <2>2, <2>3, <2>4, <2>5, <2>6, <2>7, <2>8, <2>9 DEF Step
<1>6. CASE UNCHANGED gwvars
  BY <1>6 DEF gwvars, CopyIsFresh
<1> QED BY <1>3, <1>4, <1>5, <1>6 DEF GatewayNext

\* Freshness holds throughout.
THEOREM CopiesStayFresh == GatewaySpec => []CopyIsFresh
<1>1. GatewayInit => CopyIsFresh
  BY DEF GatewayInit, Idle, CopyIsFresh
<1> QED BY <1>1, GatewayTypeCorrect, FreshStep, PTL DEF GatewaySpec

\* A step of a handler either leaves the object alone or applies the handler's edit
\* to the object as it is at that moment; when it says so, the edit is done.
LEMMA StepIsEdit ==
  ASSUME GatewayTypeOK, CopyIsFresh, NEW h \in Handler, Step(h),
         NEW edited, edited = Edit(call[h].op, call[h].domain, call[h].cert, gateway)
  PROVE  /\ \A o \in Handler : o # h => call'[o] = call[o]
         /\ call'[h].op = call[h].op /\ call'[h].domain = call[h].domain
         /\ call'[h].cert = call[h].cert
         /\ call[h].pc \in {"get", "put", "post"} /\ call'[h].pc # "idle"
         /\ gateway' = gateway \/ (gateway'.tls = edited.tls /\ gateway'.http = edited.http)
         /\ call'[h].pc = "ok" => gateway'.tls = edited.tls /\ gateway'.http = edited.http
<1>0. /\ call \in [Handler -> Call] /\ call[h] \in Call /\ call[h].copy \in Gateway
      /\ gateway.version \in Nat /\ call[h].copy.version \in Nat
  BY DEF GatewayTypeOK, Call, Gateway
<1>1. ASSUME Store(call[h].copy), call[h].pc \in {"put", "post"},
             call[h].copy.version = gateway.version
      PROVE  gateway'.tls = edited.tls /\ gateway'.http = edited.http
  <2>1. call[h].copy = edited
    BY <1>1 DEF CopyIsFresh
  <2> QED BY <1>0, <1>1, <2>1 DEF Store, Gateway
<1>2. ASSUME NEW pc \in {"get", "put", "post", "ok", "failed"}, Goto(h, pc)
      PROVE  /\ \A o \in Handler : o # h => call'[o] = call[o]
             /\ call'[h].op = call[h].op /\ call'[h].domain = call[h].domain
             /\ call'[h].cert = call[h].cert /\ call'[h].pc = pc
  BY <1>0, <1>2 DEF Goto, Call
<1>3. CASE GetGateway(h)
  <2>1. CASE call' = [call EXCEPT ![h].pc = "put", ![h].copy = edited]
    BY <1>0, <1>3, <2>1 DEF GetGateway, Call
  <2>2. CASE Goto(h, "failed")
    BY <1>2, <1>3, <2>2 DEF GetGateway
  <2>3. CASE edited = gateway /\ Goto(h, "ok")
    BY <1>2, <1>3, <2>3 DEF GetGateway
  <2> QED BY <1>3, <2>1, <2>2, <2>3 DEF GetGateway
<1>4. CASE PutAccepted(h)
  BY <1>1, <1>2, <1>4 DEF PutAccepted
<1>5. CASE PutConflict(h)
  <2>1. call'[h].pc \in {"failed", "get"}
    BY <1>0, <1>5 DEF PutConflict, Call
  <2>2. /\ \A o \in Handler : o # h => call'[o] = call[o]
        /\ call'[h].op = call[h].op /\ call'[h].domain = call[h].domain
        /\ call'[h].cert = call[h].cert
    BY <1>0, <1>5 DEF PutConflict, Call
  <2> QED BY <1>5, <2>1, <2>2 DEF PutConflict
<1>6. CASE PutNotFound(h)
  BY <1>2, <1>6 DEF PutNotFound
<1>7. CASE PutInvalid(h)
  BY <1>2, <1>7 DEF PutInvalid
<1>8. CASE PostAccepted(h)
  BY <1>0, <1>1, <1>2, <1>8 DEF PostAccepted, CopyIsFresh
<1>9. CASE PostExists(h)
  BY <1>2, <1>9 DEF PostExists
<1>10. CASE RequestFails(h)
  BY <1>2, <1>10 DEF RequestFails
<1>11. CASE AnswerLost(h)
  BY <1>0, <1>1, <1>2, <1>11 DEF AnswerLost, CopyIsFresh
<1> QED BY <1>3, <1>4, <1>5, <1>6, <1>7, <1>8, <1>9, <1>10, <1>11 DEF Step

\* So a write is the edit of one install or removal.
LEMMA WriteIsEdit ==
  ASSUME GatewayTypeOK, CopyIsFresh, [GatewayNext]_gwvars, gateway' # gateway
  PROVE  \E op \in {"install", "remove"}, d \in Domain, c \in Cert :
           /\ gateway'.tls = Edit(op, d, c, gateway).tls
           /\ gateway'.http = Edit(op, d, c, gateway).http
<1>1. PICK h \in Handler : Step(h)
  BY DEF GatewayNext, gwvars, Begin, Return
<1>2. call[h] \in Call
  BY DEF GatewayTypeOK
<1> QED BY <1>1, <1>2, StepIsEdit DEF Call

-----------------------------------------------------------------------------
\* A site with a redirect has a TLS server.
THEOREM RedirectsHaveTls == GatewaySpec => []RedirectHasTls
<1>1. GatewayInit => RedirectHasTls
  BY DEF GatewayInit, NoGateway, RedirectHasTls
<1>2. ASSUME GatewayTypeOK, CopyIsFresh, RedirectHasTls, [GatewayNext]_gwvars
      PROVE  RedirectHasTls'
  <2>1. CASE gateway' = gateway
    BY <1>2, <2>1 DEF RedirectHasTls, CertsOf
  <2>2. CASE gateway' # gateway
    <3>1. PICK op \in {"install", "remove"}, d \in Domain, c \in Cert :
            /\ gateway'.tls = Edit(op, d, c, gateway).tls
            /\ gateway'.http = Edit(op, d, c, gateway).http
      BY <1>2, <2>2, WriteIsEdit
    <3>2. gateway \in Gateway
      BY <1>2 DEF GatewayTypeOK
    <3>3. \A e \in Domain : CertsOf(e, gateway') = CertsOf(e, Edit(op, d, c, gateway))
      BY <3>1 DEF CertsOf
    <3>4. gateway.http \subseteq Domain
      BY <3>2 DEF Gateway
    <3>5. CASE op = "install"
      BY <1>2, <3>1, <3>2, <3>3, <3>4, <3>5, InstallCerts DEF RedirectHasTls
    <3>6. CASE op = "remove"
      BY <1>2, <3>1, <3>2, <3>3, <3>4, <3>6, RemoveCerts DEF RedirectHasTls
    <3> QED BY <3>5, <3>6
  <2> QED BY <2>1, <2>2
<1> QED BY <1>1, <1>2, GatewayTypeCorrect, CopiesStayFresh, PTL DEF GatewaySpec

-----------------------------------------------------------------------------
\* The protocol implements the abstract gateway: every write is one install or
\* one removal that leaves the entries of all other domains alone.
LEMMA GatewayStepSimulation ==
  ASSUME GatewayTypeOK, CopyIsFresh, [GatewayNext]_gwvars
  PROVE  [Hosts!Next]_(Hosts!hosts)
<1> DEFINE certs(g) == [e \in Domain |-> CertsOf(e, g)]
<1>1. CASE gateway' = gateway
  BY <1>1 DEF Hosts!hosts, CertsOf
<1>2. CASE gateway' # gateway
  <2>1. PICK op \in {"install", "remove"}, d \in Domain, c \in Cert :
          /\ gateway'.tls = Edit(op, d, c, gateway).tls
          /\ gateway'.http = Edit(op, d, c, gateway).http
    BY <1>2, WriteIsEdit
  <2>2. gateway \in Gateway
    BY DEF GatewayTypeOK
  <2>3. \A e \in Domain : CertsOf(e, gateway') = CertsOf(e, Edit(op, d, c, gateway))
    BY <2>1 DEF CertsOf
  <2>4. CASE op = "install"
    <3>1. PICK kept \in SUBSET CertsOf(d, gateway) :
            CertsOf(d, Edit("install", d, c, gateway)) = kept \union {c}
      BY <2>2, InstallCerts
    <3>2. \A e \in Domain : certs(gateway')[e] = IF e = d THEN kept \union {c} ELSE certs(gateway)[e]
      BY <2>2, <2>3, <2>4, <3>1, InstallCerts
    <3>3. certs(gateway') = [certs(gateway) EXCEPT ![d] = kept \union {c}]
      BY <3>2
    <3>4. gateway'.http = gateway.http \union {d}
      BY <2>1, <2>2, <2>4, InstallCerts
    <3>5. Hosts!Install(d, c)
      BY <3>1, <3>3, <3>4 DEF Hosts!Install
    <3> QED BY <3>5 DEF Hosts!Next
  <2>5. CASE op = "remove"
    <3> DEFINE kept == CertsOf(d, Edit("remove", d, c, gateway))
    <3>1. kept \in SUBSET (certs(gateway)[d] \ {c})
      BY <2>2, RemoveCerts
    <3>2. \A e \in Domain : certs(gateway')[e] = IF e = d THEN kept ELSE certs(gateway)[e]
      BY <2>2, <2>3, <2>5, RemoveCerts
    <3>3. certs(gateway') = [certs(gateway) EXCEPT ![d] = kept]
      BY <3>2
    <3>4. gateway'.http = gateway.http \ {d}
      BY <2>1, <2>2, <2>5, RemoveCerts
    <3>5. Hosts!Remove(d, c)
      BY <3>1, <3>3, <3>4 DEF Hosts!Remove
    <3> QED BY <3>5 DEF Hosts!Next
  <2> QED BY <2>4, <2>5
<1> QED BY <1>1, <1>2

THEOREM GatewayImplementsHosts == GatewaySpec => ImplementsHosts
<1>1. GatewayInit => Hosts!Init
  BY DEF GatewayInit, NoGateway, Hosts!Init, CertsOf
<1> QED BY <1>1, GatewayStepSimulation, GatewayTypeCorrect, CopiesStayFresh, PTL
        DEF GatewaySpec, ImplementsHosts, Hosts!Spec
=============================================================================
