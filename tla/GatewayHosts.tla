---------------------------- MODULE GatewayHosts ----------------------------
(***************************************************************************)
(* What the shared sites gateway promises to the sites it serves: each     *)
(* domain has its own entries (the certificates it is served with and its  *)
(* plain HTTP redirect), and putting a domain on the gateway or taking it  *)
(* off is one indivisible step that leaves every other domain alone.       *)
(*                                                                         *)
(* This is the abstract specification of the read-modify-write protocol of *)
(* module SitesGateway (router/ingress-istio.go).                          *)
(***************************************************************************)
CONSTANTS Domain,   \* the domain names of sites
          Cert      \* the names of the TLS secrets

VARIABLES certs,    \* certs[d]: the certificates of the TLS servers listing d
          redirect  \* the domains with a port 80 server (redirect to HTTPS)

hosts == <<certs, redirect>>

Init ==
  /\ certs = [d \in Domain |-> {}]
  /\ redirect = {}

\* The domain ends on the gateway under the certificate c; an entry it had
\* under another certificate may be cleaned up on the way, or stay.
Install(d, c) ==
  /\ \E kept \in SUBSET certs[d] : certs' = [certs EXCEPT ![d] = kept \union {c}]
  /\ redirect' = redirect \union {d}

\* The domain leaves its redirect and the server of the certificate c; again
\* an entry under another certificate may stay.
Remove(d, c) ==
  /\ \E kept \in SUBSET (certs[d] \ {c}) : certs' = [certs EXCEPT ![d] = kept]
  /\ redirect' = redirect \ {d}

Next == \E d \in Domain, c \in Cert : Install(d, c) \/ Remove(d, c)

Spec == Init /\ [][Next]_hosts
=============================================================================
