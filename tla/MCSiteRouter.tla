---------------------------- MODULE MCSiteRouter ----------------------------
(***************************************************************************)
(* SiteRouter on a small instance.                                         *)
(***************************************************************************)
EXTENDS SiteRouter, TLC

CONSTANTS www, api, star, wild, own, root, cart, shop

MCOwnCert == [d \in Domain |-> IF d = www THEN own ELSE wild]
MCWildCert == [d \in Domain |-> wild]

\* Every path of www leads to the shop, and the root path of api too.
MCInitialRows ==
  {r \in [domain : Domain, path : Path, app : {shop}, maintenance : {FALSE}] :
     r.domain = api => r.path = root}

\* The handlers are interchangeable: no property distinguishes them.
Handlers == Permutations(Handler)
=============================================================================
